-------------------------- MODULE Catalogue_proofs --------------------------
(***************************************************************************)
(* Proofs about Catalogue, for any number of collections, contracts,       *)
(* tokens, requests at once and failures.                                  *)
(*                                                                         *)
(* The identifiers of a collection are handed out once each and in order:  *)
(* what a request read a while ago is at most one above what is stored,    *)
(* and the unique index lets it in only when it is still exactly that.     *)
(* Metadata and collection are attached to each other one to one; every    *)
(* card is described; and what an update leaves behind is confined to the  *)
(* slugs whose updates overlapped or were cut short.                       *)
(***************************************************************************)
EXTENDS Catalogue, FiniteSetTheorems, TLAPS

(* The shape of a request.                                                 *)
Fields == {"op", "user", "slug", "logo", "old", "id"}

IsRequest(q) == q = [x \in Fields |-> q[x]]

(* The stored identifiers are numbers, and the requests that are on their  *)
(* way to a new one name a collection.                                     *)
Stored ==
    /\ tokenMetadata \in [Slugs -> Seq(Nat)]
    /\ req = [r \in Requests |-> req[r]]
    /\ \A r \in Requests : IsRequest(req[r])
    /\ \A r \in Requests :
         req[r].op \in {"nextIdentifier", "createToken"} => req[r].slug \in Slugs

(* A request never holds an identifier beyond the next free one.           *)
HeldBelowNext ==
    \A r \in Requests :
        req[r].op = "createToken" => req[r].id \in 1..(Len(tokenMetadata[req[r].slug]) + 1)

IInv == Stored /\ IdentifiersInOrder /\ HeldBelowNext

-----------------------------------------------------------------------------
(* The identifiers of a collection in order are exactly 1..n.              *)
LEMMA RangeOfOrdered ==
    ASSUME NEW q \in Seq(Nat), \A i \in DOMAIN q : q[i] = i
    PROVE  Range(q) = 1..Len(q)
<1>1. DOMAIN q = 1..Len(q)
  OBVIOUS
<1> QED BY <1>1 DEF Range

(* The largest plus one is then the length plus one.                       *)
LEMMA NextIsLengthPlusOne ==
    ASSUME NEW s \in Slugs, Stored, IdentifiersInOrder
    PROVE  NextTokenIdentifier(s) = Len(tokenMetadata[s]) + 1
<1> DEFINE q == tokenMetadata[s]
           n == Len(q)
<1>1. q \in Seq(Nat) /\ n \in Nat
  BY DEF Stored
<1>2. \A i \in DOMAIN q : q[i] = i
  BY DEF IdentifiersInOrder
<1>3. Range(q) = 1..n
  <2> HIDE DEF q
  <2> QED BY <1>1, <1>2, RangeOfOrdered
<1>4. CASE q = <<>>
  BY <1>4 DEF NextTokenIdentifier
<1>5. CASE q # <<>>
  <2>1. n \in 1..n
    BY <1>1, <1>5
  <2>2. \A x \in 1..n : (\A y \in 1..n : x >= y) => x = n
    BY <1>1, <2>1
  <2>3. \A y \in 1..n : n >= y
    BY <1>1
  <2>4. Max(1..n) = n
    <3> HIDE DEF n
    <3> QED BY <2>1, <2>2, <2>3 DEF Max
  <2> QED BY <1>3, <1>5, <2>4 DEF NextTokenIdentifier
<1> QED BY <1>4, <1>5

-----------------------------------------------------------------------------
LEMMA InitHolds == Init => IInv
BY DEF Init, IInv, Stored, IsRequest, Fields, IdentifiersInOrder, HeldBelowNext, NoReq

(* A step that stores no token metadata, and leaves every request either   *)
(* alone or with no identifier in hand.                                    *)
LEMMA RequestGoesOn ==
    ASSUME IInv, NEW r \in Requests, NEW q,
           tokenMetadata' = tokenMetadata,
           req' = [req EXCEPT ![r] = q],
           IsRequest(q),
           q.op # "createToken",
           q.op = "nextIdentifier" => q.slug \in Slugs
    PROVE  IInv'
<1> USE DEF IInv
<1>1. /\ req' = [x \in Requests |-> req'[x]]
      /\ \A x \in Requests : req'[x] = IF x = r THEN q ELSE req[x]
  BY DEF Stored
<1>2. \A x \in Requests : IsRequest(req'[x])
  BY <1>1 DEF Stored
<1>3. Stored'
  BY <1>1, <1>2 DEF Stored
<1>4. HeldBelowNext'
  BY <1>1 DEF HeldBelowNext
<1>5. IdentifiersInOrder'
  BY DEF IdentifiersInOrder
<1> QED BY <1>3, <1>4, <1>5

LEMMA Unaffected ==
    ASSUME IInv, UNCHANGED <<tokenMetadata, req>>
    PROVE  IInv'
BY DEF IInv, Stored, IdentifiersInOrder, HeldBelowNext

LEMMA AnsweredIsRequest == IsRequest(NoReq) /\ NoReq.op = "idle"
BY DEF IsRequest, Fields, NoReq

(* getNextTokenIdentifier hands out the next free identifier.              *)
LEMMA GetNextKeeps ==
    ASSUME IInv, NEW r \in Requests, GetNextTokenIdentifier(r)
    PROVE  IInv'
<1> USE DEF IInv
<1> DEFINE s == req[r].slug
           q == [req[r] EXCEPT !.op = "createToken", !.id = NextTokenIdentifier(s)]
<1>1. req[r].op = "nextIdentifier" /\ s \in Slugs /\ tokenMetadata' = tokenMetadata
  BY DEF GetNextTokenIdentifier, Stored, store
<1>2. req' = [req EXCEPT ![r] = q]
  BY DEF GetNextTokenIdentifier
<1>3. IsRequest(q) /\ q.op = "createToken" /\ q.slug = s /\ q.id = NextTokenIdentifier(s)
  <2>1. IsRequest(req[r])
    BY DEF Stored
  <2> HIDE DEF IInv
  <2> QED BY <2>1 DEF IsRequest, Fields
<1>4. q.id = Len(tokenMetadata[s]) + 1
  BY <1>1, <1>3, NextIsLengthPlusOne
<1> HIDE DEF q
<1>5. /\ req' = [x \in Requests |-> req'[x]]
      /\ \A x \in Requests : req'[x] = IF x = r THEN q ELSE req[x]
  BY <1>2 DEF Stored
<1>6. Stored'
  <2>1. \A x \in Requests : IsRequest(req'[x])
    BY <1>3, <1>5 DEF Stored
  <2> QED BY <1>1, <1>3, <1>5, <2>1 DEF Stored
<1>7. HeldBelowNext'
  <2>1. Len(tokenMetadata[s]) \in Nat
    BY <1>1 DEF Stored
  <2> QED BY <1>1, <1>3, <1>4, <1>5, <2>1 DEF HeldBelowNext
<1>8. IdentifiersInOrder'
  BY <1>1 DEF IdentifiersInOrder
<1> QED BY <1>6, <1>7, <1>8

(* create: an identifier that is not stored yet is the next one, and the   *)
(* others in flight stay at most one above what is stored.                 *)
LEMMA CreateKeeps ==
    ASSUME IInv, NEW r \in Requests, CreateTokenMetadata(r)
    PROVE  IInv'
<1> USE DEF IInv
<1> DEFINE s == req[r].slug
           n == Len(tokenMetadata[s])
<1>1. req[r].op = "createToken" /\ s \in Slugs
  BY DEF CreateTokenMetadata, Stored
<1>2. tokenMetadata[s] \in Seq(Nat) /\ n \in Nat /\ req[r].id \in 1..(n + 1)
  BY <1>1 DEF Stored, HeldBelowNext
<1>3. req' = [req EXCEPT ![r] = NoReq]
  BY DEF CreateTokenMetadata, Answered
<1>4. CASE req[r].id \in Range(tokenMetadata[s])
  <2>1. tokenMetadata' = tokenMetadata
    BY <1>4 DEF CreateTokenMetadata
  <2>2. NoReq.op # "createToken" /\ NoReq.op # "nextIdentifier"
    BY AnsweredIsRequest
  <2> QED BY <1>3, <2>1, <2>2, AnsweredIsRequest, RequestGoesOn
<1>5. CASE req[r].id \notin Range(tokenMetadata[s])
  <2>1. tokenMetadata' = [tokenMetadata EXCEPT ![s] = Append(tokenMetadata[s], req[r].id)]
    BY <1>5 DEF CreateTokenMetadata
  <2>2. Range(tokenMetadata[s]) = 1..n
    <3>1. \A i \in DOMAIN tokenMetadata[s] : tokenMetadata[s][i] = i
      BY <1>1 DEF IdentifiersInOrder
    <3> QED BY <1>2, <3>1, RangeOfOrdered
  <2>3. req[r].id = n + 1
    BY <1>2, <1>5, <2>2
  <2>4. /\ tokenMetadata' \in [Slugs -> Seq(Nat)]
        /\ tokenMetadata'[s] = Append(tokenMetadata[s], n + 1)
        /\ \A t \in Slugs : t # s => tokenMetadata'[t] = tokenMetadata[t]
    BY <1>1, <1>2, <2>1, <2>3 DEF Stored
  <2>5. Len(tokenMetadata'[s]) = n + 1
    BY <1>2, <2>4
  <2>6. /\ req' = [x \in Requests |-> req'[x]]
        /\ \A x \in Requests : req'[x] = IF x = r THEN NoReq ELSE req[x]
    BY <1>3 DEF Stored
  <2>7. Stored'
    <3>1. \A x \in Requests : IsRequest(req'[x])
      BY <2>6, AnsweredIsRequest DEF Stored
    <3> QED BY <2>4, <2>6, <3>1, AnsweredIsRequest DEF Stored
  <2>8. IdentifiersInOrder'
    <3> SUFFICES ASSUME NEW t \in Slugs, NEW i \in DOMAIN tokenMetadata'[t]
                 PROVE  tokenMetadata'[t][i] = i
      BY DEF IdentifiersInOrder
    <3>1. CASE t # s
      BY <2>4, <3>1 DEF IdentifiersInOrder
    <3>2. CASE t = s
      <4>1. i \in 1..(n + 1)
        BY <1>2, <2>4, <3>2
      <4>2. CASE i = n + 1
        BY <1>2, <2>4, <3>2, <4>2
      <4>3. CASE i \in 1..n
        <5>1. tokenMetadata'[t][i] = tokenMetadata[s][i]
          BY <1>2, <2>4, <3>2, <4>3
        <5>2. i \in DOMAIN tokenMetadata[s]
          BY <1>2, <4>3
        <5> QED BY <1>1, <5>1, <5>2 DEF IdentifiersInOrder
      <4> QED BY <1>2, <4>1, <4>2, <4>3
    <3> QED BY <3>1, <3>2
  <2>9. HeldBelowNext'
    <3> SUFFICES ASSUME NEW x \in Requests, req'[x].op = "createToken"
                 PROVE  req'[x].id \in 1..(Len(tokenMetadata'[req'[x].slug]) + 1)
      BY DEF HeldBelowNext
    <3>1. req'[x] = req[x] /\ req[x].slug \in Slugs
      BY <2>6, AnsweredIsRequest DEF Stored
    <3>2. req[x].id \in 1..(Len(tokenMetadata[req[x].slug]) + 1)
      BY <3>1 DEF HeldBelowNext
    <3>3. CASE req[x].slug = s
      BY <1>2, <2>5, <3>1, <3>2, <3>3
    <3>4. CASE req[x].slug # s
      BY <2>4, <3>1, <3>2, <3>4
    <3> QED BY <3>3, <3>4
  <2> QED BY <2>7, <2>8, <2>9
<1> QED BY <1>4, <1>5

(* The request of r ends, without having stored a token metadata.          *)
LEMMA AnsweredKeeps ==
    ASSUME IInv, NEW r \in Requests, Answered(r), UNCHANGED tokenMetadata
    PROVE  IInv'
<1>1. NoReq.op # "createToken" /\ NoReq.op # "nextIdentifier"
  BY AnsweredIsRequest
<1> QED BY <1>1, AnsweredIsRequest, RequestGoesOn DEF Answered

(* The first step of a request.                                            *)
LEMMA BeginningKeeps ==
    ASSUME IInv, NEW r \in Requests, NEW u, NEW x,
           \/ StoreContractMetadata(r, u, x)
           \/ StoreTokenMetadata(r, u, x)
           \/ UpdateCollection(r, u, x)
    PROVE  IInv'
<1>1. CASE StoreContractMetadata(r, u, x)
  <2>1. PICK logo : req' = [req EXCEPT ![r] =
               [NoReq EXCEPT !.op = "createMetadata", !.user = u, !.slug = x, !.logo = logo]]
    BY <1>1 DEF StoreContractMetadata
  <2> DEFINE q == [NoReq EXCEPT !.op = "createMetadata", !.user = u, !.slug = x, !.logo = logo]
  <2>2. IsRequest(q) /\ q.op = "createMetadata"
    BY DEF NoReq, IsRequest, Fields
  <2>3. tokenMetadata' = tokenMetadata
    BY <1>1 DEF StoreContractMetadata
  <2> HIDE DEF q
  <2> QED BY <2>1, <2>2, <2>3, RequestGoesOn DEF q
<1>2. CASE StoreTokenMetadata(r, u, x)
  <2> DEFINE s == tokenCollections[x].slug
             q == [NoReq EXCEPT !.op = "nextIdentifier", !.slug = s]
  <2>1. req' = [req EXCEPT ![r] = q] /\ s \in Slugs
    BY <1>2 DEF StoreTokenMetadata, FindMetadata
  <2>2. IsRequest(q) /\ q.op = "nextIdentifier" /\ q.slug = s
    BY DEF NoReq, IsRequest, Fields
  <2>3. tokenMetadata' = tokenMetadata
    BY <1>2 DEF StoreTokenMetadata, store
  <2> HIDE DEF q
  <2> QED BY <2>1, <2>2, <2>3, RequestGoesOn
<1>3. CASE UpdateCollection(r, u, x)
  <2>1. PICK logo : req' = [req EXCEPT ![r] =
               [NoReq EXCEPT !.op = IF logo = NoLogo THEN "updateMetadata" ELSE "removeLogo",
                             !.slug = tokenCollections[x].slug,
                             !.logo = logo,
                             !.old = IF logo = NoLogo THEN NoLogo
                                     ELSE tokenCollections[x].logo]]
    BY <1>3 DEF UpdateCollection
  <2> DEFINE q == [NoReq EXCEPT !.op = IF logo = NoLogo THEN "updateMetadata" ELSE "removeLogo",
                                !.slug = tokenCollections[x].slug,
                                !.logo = logo,
                                !.old = IF logo = NoLogo THEN NoLogo
                                        ELSE tokenCollections[x].logo]
  <2>2. IsRequest(q) /\ q.op \in {"updateMetadata", "removeLogo"}
    BY DEF NoReq, IsRequest, Fields
  <2>3. tokenMetadata' = tokenMetadata
    BY <1>3 DEF UpdateCollection
  <2> HIDE DEF q
  <2> QED BY <2>1, <2>2, <2>3, RequestGoesOn DEF q
<1> QED BY <1>1, <1>2, <1>3

(* The later steps of an update.                                           *)
LEMMA UpdateKeeps ==
    ASSUME IInv, NEW r \in Requests, RemoveLogo(r) \/ UpdateMetadata(r)
    PROVE  IInv'
<1>1. tokenMetadata' = tokenMetadata
  BY DEF RemoveLogo, UpdateMetadata
<1>2. IsRequest(req[r])
  BY DEF IInv, Stored
<1>3. CASE RemoveLogo(r)
  <2> DEFINE q == [req[r] EXCEPT !.op = "updateMetadata", !.old = NoLogo]
  <2>1. req' = [req EXCEPT ![r] = q]
    BY <1>3 DEF RemoveLogo
  <2>2. IsRequest(q) /\ q.op = "updateMetadata"
    BY <1>2 DEF IsRequest, Fields
  <2> HIDE DEF q
  <2> QED BY <1>1, <2>1, <2>2, RequestGoesOn
<1>4. CASE UpdateMetadata(r)
  <2> DEFINE q == [req[r] EXCEPT !.op = "updateCollection"]
  <2>1. req' = [req EXCEPT ![r] = q]
    BY <1>4 DEF UpdateMetadata
  <2>2. IsRequest(q) /\ q.op = "updateCollection"
    BY <1>2 DEF IsRequest, Fields
  <2> HIDE DEF q
  <2> QED BY <1>1, <2>1, <2>2, RequestGoesOn
<1> QED BY <1>3, <1>4

LEMMA RequestKeeps ==
    ASSUME IInv, NEW r \in Requests, Request(r)
    PROVE  IInv'
<1>1. CASE \E u \in Users, s \in Slugs : StoreContractMetadata(r, u, s)
  BY <1>1, BeginningKeeps
<1>2. CASE \E u \in Users, a \in Addresses : StoreTokenMetadata(r, u, a)
  BY <1>2, BeginningKeeps
<1>3. CASE \E u \in Users, a \in Addresses : UpdateCollection(r, u, a)
  BY <1>3, BeginningKeeps
<1>4. CASE CreateMetadata(r)
  BY <1>4, AnsweredKeeps DEF CreateMetadata
<1>5. CASE GetNextTokenIdentifier(r)
  BY <1>5, GetNextKeeps
<1>6. CASE CreateTokenMetadata(r)
  BY <1>6, CreateKeeps
<1>7. CASE RemoveLogo(r) \/ UpdateMetadata(r)
  BY <1>7, UpdateKeeps
<1>8. CASE UpdateTokenCollection(r)
  BY <1>8, AnsweredKeeps DEF UpdateTokenCollection
<1> QED BY <1>1, <1>2, <1>3, <1>4, <1>5, <1>6, <1>7, <1>8 DEF Request

(* Neither the chain nor a listener touches token metadata or requests.    *)
LEMMA ListenersKeep ==
    ASSUME IInv,
           \/ \E blk \in BlockChoices : NewBlock(blk)
           \/ ContractListener \/ TokenListener
           \/ ContractListenerFails \/ TokenListenerFails
           \/ UNCHANGED vars
    PROVE  IInv'
<1>1. UNCHANGED <<tokenMetadata, req>>
  <2>1. CASE \E blk \in BlockChoices : NewBlock(blk)
    BY <2>1 DEF NewBlock, store
  <2>2. CASE ContractListener
    BY <2>2 DEF ContractListener, StartContracts, IncreaseContractJob, ContractTask,
                FindContractMetadata, CreateCollection, AttachTokenCollection, store
  <2>3. CASE TokenListener
    BY <2>3 DEF TokenListener, StartTokens, IncreaseTokenJob, TokenTask,
                FindTokenMetadata, TokenUriThrows, CreateCards, store
  <2>4. CASE ContractListenerFails \/ TokenListenerFails \/ UNCHANGED vars
    BY <2>4 DEF ContractListenerFails, TokenListenerFails, store, vars
  <2> QED BY <2>1, <2>2, <2>3, <2>4
<1> QED BY <1>1, Unaffected

LEMMA NextKeeps == IInv /\ [Next]_vars => IInv'
<1> SUFFICES ASSUME IInv, [Next]_vars
             PROVE  IInv'
  OBVIOUS
<1>1. CASE \E r \in Requests : Request(r)
  BY <1>1, RequestKeeps
<1>2. CASE \E r \in Requests : RequestFails(r)
  BY <1>2, AnsweredKeeps DEF RequestFails, store
<1>3. CASE \/ \E blk \in BlockChoices : NewBlock(blk)
           \/ ContractListener \/ TokenListener
           \/ ContractListenerFails \/ TokenListenerFails
           \/ UNCHANGED vars
  BY <1>3, ListenersKeep
<1> QED BY <1>1, <1>2, <1>3 DEF Next, Failure

-----------------------------------------------------------------------------
(* However many requests read the largest identifier and insert the next   *)
(* one, in any interleaving and with failures in between, a collection's   *)
(* identifiers are 1, 2, 3, ... without a gap or a repetition.             *)
THEOREM IdentifiersStayInOrder == Spec => []IdentifiersInOrder
<1>1. IInv => IdentifiersInOrder
  BY DEF IInv
<1> QED BY <1>1, InitHolds, NextKeeps, PTL DEF Spec
-----------------------------------------------------------------------------
(* The store, the tasks and the requests are what they look like.          *)
UpdateOps == {"removeLogo", "updateMetadata", "updateCollection"}

Logos == Nat \cup {NoLogo}

TaskRecords(steps) ==
    [at : steps, slug : Slugs \cup {NoSlug}, logo : Logos, found : SUBSET Nat]

RequestRecords ==
    [op   : {"idle", "createMetadata", "nextIdentifier", "createToken"} \cup UpdateOps,
     user : Users \cup {None}, slug : Slugs \cup {NoSlug}, logo : Logos, old : Logos, id : Nat]

StoreTyped ==
    /\ contractMetadata \in [Slugs -> MetadataDocs \cup {None}]
    /\ tokenMetadata \in [Slugs -> Seq(Nat)]
    /\ tokenCollections \in [Addresses -> CollectionDocs \cup {None}]
    /\ cards \subseteq Addresses \X Nat
    /\ files \subseteq 1..uploads
    /\ uploads \in Nat

TasksTyped ==
    /\ contractTask \in [Addresses -> TaskRecords({"none", "find", "create", "attach", "done"})]
    /\ tokenTask \in [Addresses -> TaskRecords({"none", "find", "insert", "done"})]
    /\ chain \in Seq(BlockChoices)
    /\ contractJob \in Nat \ {0} /\ tokenJob \in Nat \ {0}

RequestsTyped ==
    /\ req \in [Requests -> RequestRecords]
    /\ \A r \in Requests :
         /\ req[r].op # "idle" => req[r].slug \in Slugs
         /\ req[r].op = "createMetadata" => req[r].user \in Users
         /\ req[r].op \notin UpdateOps \cup {"createMetadata"} => req[r].logo = NoLogo
         /\ req[r].op = "removeLogo" => req[r].logo # NoLogo
         /\ req[r].op # "removeLogo" => req[r].old = NoLogo

(* A contract task is of an event of the block at the cursor.              *)
TasksOfTheBlock ==
    \A a \in Addresses :
        contractTask[a].at # "none" => \E e \in ContractsAt(contractJob) : e.address = a

Typed == StoreTyped /\ TasksTyped /\ RequestsTyped /\ TasksOfTheBlock

(* A slug that a task, a collection or an update names has its metadata,   *)
(* and an update its collection.                                           *)
MetadataBehind ==
    /\ \A a \in Addresses :
         /\ contractTask[a].at \in {"create", "attach"} /\ contractTask[a].slug # NoSlug
              => contractMetadata[contractTask[a].slug] # None
         /\ tokenCollections[a] # None /\ tokenCollections[a].slug # NoSlug
              => contractMetadata[tokenCollections[a].slug] # None
    /\ \A r \in Requests :
         req[r].op \in UpdateOps => CollectionsOf(req[r].slug) # {}

SlugsUnique ==
    \A a, b \in Addresses :
        tokenCollections[a] # None /\ tokenCollections[b] # None
        /\ tokenCollections[a].slug = tokenCollections[b].slug
        /\ tokenCollections[a].slug # NoSlug => a = b

AttachedBack ==
    \A s \in Slugs :
        contractMetadata[s] # None /\ contractMetadata[s].tokenCollection # None
          => contractMetadata[s].tokenCollection \in CollectionsOf(s)

Attaching ==
    \A a \in Addresses :
        contractTask[a].at = "attach" =>
            /\ contractTask[a].slug \in Slugs
            /\ a \in CollectionsOf(contractTask[a].slug)
            /\ contractMetadata[contractTask[a].slug].tokenCollection = None
            /\ a \notin unattached

Unattached ==
    \A a \in unattached :
        a \in Addresses /\ tokenCollections[a] # None /\ tokenCollections[a].slug # NoSlug

Attachments ==
    MetadataBehind /\ SlugsUnique /\ AttachedBack /\ Attaching /\ Unattached /\ AttachedUnlessCutShort

(* The token tasks are about tokens of the block that are described.       *)
OursOf(a) == {t.identifier : t \in {t \in TokensOf(a) : t.uri = "ours"}}

TokenTasksMeant ==
    \A a \in Addresses :
        /\ tokenTask[a].found \subseteq OursOf(a) \cap DescribedTokens(a)
        /\ tokenTask[a].at = "done" => \A i \in tokenTask[a].found : <<a, i>> \in cards

AllStarted ==
    tokenTask = NoTasks \/
        /\ tokenJob \in DOMAIN chain
        /\ \A a \in Addresses : TokensOf(a) # {} => tokenTask[a].at # "none"

(* Why a block that was cut short is never passed: one of its cards is in  *)
(* the store, and the task of its contract has found it, or will, and      *)
(* cannot insert it.                                                       *)
MakesHole(a, i) ==
    /\ <<a, i>> \in cards
    /\ tokenTask[a].at \in {"none", "find", "insert"}
    /\ tokenTask[a].at = "insert" => i \in tokenTask[a].found

Hole ==
    \E a \in Addresses : \E i \in OursOf(a) : MakesHole(a, i)

NeverFilled == \A b \in halfCreated : tokenJob = b /\ Hole

CardsOfTokens == CardsDescribed /\ TokenTasksMeant /\ AllStarted /\ NeverFilled

(* A slug claims a logo when its metadata, its collection, a request or a  *)
(* task about it holds it.                                                 *)
Claims(s, l) ==
    \/ contractMetadata[s] # None /\ contractMetadata[s].logo = l
    \/ \E a \in CollectionsOf(s) : tokenCollections[a].logo = l
    \/ \E r \in Requests : req[r].slug = s /\ l \in {req[r].logo, req[r].old}
    \/ \E a \in Addresses :
         contractTask[a].at = "create" /\ contractTask[a].slug = s /\ contractTask[a].logo = l

OneOwner ==
    /\ \A s, t \in Slugs, l \in Nat : Claims(s, l) /\ Claims(t, l) => s = t
    /\ \A s \in Slugs, l \in Nat : Claims(s, l) => l \in 1..uploads

(* The logo a request has uploaded is in S3 and nobody else's until the    *)
(* request has written it.                                                 *)
FreshLogos ==
    \A r \in Requests :
        req[r].logo # NoLogo =>
            /\ req[r].logo \in files
            /\ \A q \in Requests : req[q].old # req[r].logo /\ (q # r => req[q].logo # req[r].logo)
            /\ \A s \in Slugs :
                 /\ \A a \in CollectionsOf(s) : tokenCollections[a].logo # req[r].logo
                 /\ contractMetadata[s] # None /\ contractMetadata[s].logo = req[r].logo
                      => req[r].op = "updateCollection"

TasksUpToDate ==
    \A a \in Addresses :
        /\ contractTask[a].at = "create" /\ contractTask[a].slug # NoSlug
        /\ CollectionsOf(contractTask[a].slug) = {}
        => contractTask[a].logo = contractMetadata[contractTask[a].slug].logo

Overwriting(s, ops) ==
    \E r \in Requests : req[r].op \in ops /\ req[r].slug = s /\ req[r].logo # NoLogo

(* A logo that is shown and gone is about to be overwritten.               *)
StoredOrOverwritten ==
    \A s \in Slugs \ halfUpdated :
        /\ contractMetadata[s] = None \/ contractMetadata[s].logo \in files \cup {NoLogo}
             \/ Overwriting(s, {"updateMetadata"})
        /\ \A a \in CollectionsOf(s) :
             \/ tokenCollections[a].logo \in files \cup {NoLogo}
             \/ Overwriting(s, {"updateMetadata", "updateCollection"})

OneUpdate ==
    \A r, q \in Requests :
        req[r].op \in UpdateOps /\ req[q].op \in UpdateOps /\ req[r].slug = req[q].slug
        /\ req[r].slug \notin overlapped => r = q

MetadataWritten ==
    \A r \in Requests :
        req[r].op = "updateCollection" /\ req[r].logo # NoLogo /\ req[r].slug \notin overlapped
          => contractMetadata[req[r].slug].logo = req[r].logo

AgreeOrOverwritten ==
    \A s \in Slugs \ (overlapped \cup halfUpdated) : \A a \in CollectionsOf(s) :
        \/ contractMetadata[s].logo = tokenCollections[a].logo
        \/ Overwriting(s, {"updateCollection"})

Updates ==
    /\ OneOwner /\ FreshLogos /\ TasksUpToDate
    /\ StoredOrOverwritten /\ OneUpdate /\ MetadataWritten /\ AgreeOrOverwritten
LEMMA StoreTypedKept == ASSUME StoreTyped, UNCHANGED store PROVE StoreTyped'
BY DEF StoreTyped, store

LEMMA TasksTypedKept ==
    ASSUME TasksTyped, UNCHANGED <<chain, contractJob, contractTask, tokenJob, tokenTask>>
    PROVE  TasksTyped'
BY DEF TasksTyped

LEMMA RequestsTypedKept == ASSUME RequestsTyped, UNCHANGED req PROVE RequestsTyped'
BY DEF RequestsTyped

LEMMA TasksOfTheBlockKept ==
    ASSUME TasksOfTheBlock, UNCHANGED <<chain, contractJob, contractTask>>
    PROVE  TasksOfTheBlock'
BY DEF TasksOfTheBlock, ContractsAt

(* What a request may go on to.                                            *)
MayBe(q) ==
    /\ q \in RequestRecords
    /\ q.op # "idle" => q.slug \in Slugs
    /\ q.op = "createMetadata" => q.user \in Users
    /\ q.op \notin UpdateOps \cup {"createMetadata"} => q.logo = NoLogo
    /\ q.op = "removeLogo" => q.logo # NoLogo
    /\ q.op # "removeLogo" => q.old = NoLogo

LEMMA RequestMoves ==
    ASSUME RequestsTyped, NEW r \in Requests, NEW q, MayBe(q), req' = [req EXCEPT ![r] = q]
    PROVE  RequestsTyped'
<1>1. /\ req' \in [Requests -> RequestRecords]
      /\ \A x \in Requests : req'[x] = IF x = r THEN q ELSE req[x]
  BY DEF RequestsTyped, MayBe
<1> QED BY <1>1 DEF RequestsTyped, MayBe

LEMMA NoReqMayBe == MayBe(NoReq) /\ NoReq.op = "idle"
BY DEF MayBe, NoReq, RequestRecords, UpdateOps, Logos

LEMMA NoTaskTyped ==
    ASSUME NEW S, "none" \in S
    PROVE  NoTask \in TaskRecords(S) /\ NoTask.at = "none" /\ NoTask.found = {}
           /\ NoTask.slug = NoSlug /\ NoTask.logo = NoLogo
BY DEF NoTask, TaskRecords, Logos

(* The block at a cursor is one of the choices.                            *)
LEMMA CreatorsAreUsers ==
    ASSUME TasksTyped, NEW b, NEW e \in ContractsAt(b)
    PROVE  e.creator \in Users
<1>1. b \in DOMAIN chain /\ e \in chain[b].contracts
  BY DEF ContractsAt
<1>2. chain[b] \in BlockChoices
  BY <1>1 DEF TasksTyped
<1> QED BY <1>1, <1>2, CreatorsAssumption

LEMMA EventOfTask ==
    ASSUME Typed, NEW a \in Addresses, contractTask[a].at # "none"
    PROVE  /\ ContractEvent(a) \in ContractsAt(contractJob) /\ ContractEvent(a).address = a
           /\ ContractEvent(a).creator \in Users
<1>1. PICK e \in ContractsAt(contractJob) : e.address = a
  BY DEF Typed, TasksOfTheBlock
<1>2. ContractEvent(a) \in ContractsAt(contractJob) /\ ContractEvent(a).address = a
  BY <1>1 DEF ContractEvent
<1> QED BY <1>2, CreatorsAreUsers DEF Typed

-----------------------------------------------------------------------------
LEMMA InitTyped == Init => Typed
<1> SUFFICES ASSUME Init PROVE Typed
  OBVIOUS
<1>1. StoreTyped
  BY DEF Init, StoreTyped
<1>2. TasksTyped
  BY NoTaskTyped DEF Init, TasksTyped, NoTasks
<1>3. RequestsTyped
  BY NoReqMayBe DEF Init, RequestsTyped, MayBe
<1>4. TasksOfTheBlock
  BY NoTaskTyped DEF Init, TasksOfTheBlock, NoTasks
<1> QED BY <1>1, <1>2, <1>3, <1>4 DEF Typed

LEMMA NewBlockTyped ==
    ASSUME Typed, NEW blk \in BlockChoices, NewBlock(blk)
    PROVE  Typed'
<1>1. StoreTyped' /\ RequestsTyped'
  BY StoreTypedKept, RequestsTypedKept DEF NewBlock, Typed
<1>2. chain \in Seq(BlockChoices) /\ chain' = Append(chain, blk)
  BY DEF NewBlock, Typed, TasksTyped
<1>3. TasksTyped'
  BY <1>2 DEF NewBlock, Typed, TasksTyped
<1>4. ContractsAt(contractJob) \subseteq ContractsAt(contractJob)'
  BY <1>2 DEF ContractsAt, NewBlock, Typed, TasksTyped
<1>5. TasksOfTheBlock'
  BY <1>4 DEF TasksOfTheBlock, NewBlock, Typed
<1> QED BY <1>1, <1>3, <1>5 DEF Typed

(* The tasks of a listener are untouched by a request.                     *)
LEMMA RequestStepTyped ==
    ASSUME Typed, StoreTyped', RequestsTyped',
           UNCHANGED <<chain, contractJob, contractTask, tokenJob, tokenTask>>
    PROVE  Typed'
BY TasksTypedKept, TasksOfTheBlockKept DEF Typed

LEMMA UploadTyped ==
    ASSUME Typed, NEW logo, Upload(logo)
    PROVE  logo \in Nat /\ uploads' \in Nat /\ files' \subseteq 1..uploads' /\ logo = uploads + 1
           /\ uploads' = uploads + 1
BY DEF Typed, StoreTyped, Upload

LEMMA StoreContractMetadataTyped ==
    ASSUME Typed, NEW r \in Requests, NEW u \in Users, NEW s \in Slugs,
           StoreContractMetadata(r, u, s)
    PROVE  Typed'
<1>1. PICK logo \in {NoLogo, uploads + 1} :
        /\ IF logo = NoLogo THEN UNCHANGED <<files, uploads>> ELSE Upload(logo)
        /\ req' = [req EXCEPT ![r] =
             [NoReq EXCEPT !.op = "createMetadata", !.user = u, !.slug = s, !.logo = logo]]
  BY DEF StoreContractMetadata
<1>2. logo \in Logos /\ uploads' \in Nat /\ files' \subseteq 1..uploads'
  BY <1>1, UploadTyped DEF Typed, StoreTyped, Logos
<1>3. StoreTyped'
  BY <1>2 DEF StoreContractMetadata, Typed, StoreTyped
<1> DEFINE q == [NoReq EXCEPT !.op = "createMetadata", !.user = u, !.slug = s, !.logo = logo]
<1>4. MayBe(q)
  BY <1>2 DEF MayBe, NoReq, RequestRecords, UpdateOps, Logos
<1>5. RequestsTyped'
  <2> HIDE DEF q
  <2> QED BY <1>1, <1>4, RequestMoves DEF Typed, q
<1> QED BY <1>3, <1>5, RequestStepTyped DEF StoreContractMetadata

LEMMA StoreTokenMetadataTyped ==
    ASSUME Typed, NEW r \in Requests, NEW u \in Users, NEW a \in Addresses,
           StoreTokenMetadata(r, u, a)
    PROVE  Typed'
<1> DEFINE s == tokenCollections[a].slug
           q == [NoReq EXCEPT !.op = "nextIdentifier", !.slug = s]
<1>1. s \in Slugs /\ req' = [req EXCEPT ![r] = q]
  BY DEF StoreTokenMetadata, FindMetadata
<1>2. MayBe(q)
  BY <1>1 DEF MayBe, NoReq, RequestRecords, UpdateOps, Logos
<1>3. RequestsTyped'
  <2> HIDE DEF q
  <2> QED BY <1>1, <1>2, RequestMoves DEF Typed
<1> QED BY <1>3, StoreTypedKept, RequestStepTyped DEF StoreTokenMetadata, Typed

LEMMA UpdateCollectionTyped ==
    ASSUME Typed, NEW r \in Requests, NEW u \in Users, NEW a \in Addresses,
           UpdateCollection(r, u, a)
    PROVE  Typed'
<1> DEFINE s == tokenCollections[a].slug
<1>1. PICK logo \in {NoLogo, uploads + 1} :
        /\ IF logo = NoLogo THEN UNCHANGED <<files, uploads>> ELSE Upload(logo)
        /\ req' = [req EXCEPT ![r] =
             [NoReq EXCEPT !.op = IF logo = NoLogo THEN "updateMetadata" ELSE "removeLogo",
                           !.slug = tokenCollections[a].slug,
                           !.logo = logo,
                           !.old = IF logo = NoLogo THEN NoLogo ELSE tokenCollections[a].logo]]
  BY DEF UpdateCollection
<1>2. logo \in Logos /\ uploads' \in Nat /\ files' \subseteq 1..uploads'
  BY <1>1, UploadTyped DEF Typed, StoreTyped, Logos
<1>3. StoreTyped'
  BY <1>2 DEF UpdateCollection, Typed, StoreTyped
<1>4. s \in Slugs /\ tokenCollections[a].logo \in Logos
  BY DEF UpdateCollection, FindMetadata, Typed, StoreTyped, CollectionDocs, Logos
<1> DEFINE q == [NoReq EXCEPT !.op = IF logo = NoLogo THEN "updateMetadata" ELSE "removeLogo",
                              !.slug = tokenCollections[a].slug,
                              !.logo = logo,
                              !.old = IF logo = NoLogo THEN NoLogo ELSE tokenCollections[a].logo]
<1>5. MayBe(q)
  <2>1. CASE logo = NoLogo
    BY <1>2, <1>4, <2>1 DEF MayBe, NoReq, RequestRecords, UpdateOps, Logos
  <2>2. CASE logo # NoLogo
    BY <1>2, <1>4, <2>2 DEF MayBe, NoReq, RequestRecords, UpdateOps, Logos
  <2> QED BY <2>1, <2>2
<1>6. RequestsTyped'
  <2> HIDE DEF q
  <2> QED BY <1>1, <1>5, RequestMoves DEF Typed, q
<1> QED BY <1>3, <1>6, RequestStepTyped DEF UpdateCollection

LEMMA AnsweredTyped ==
    ASSUME Typed, NEW r \in Requests, Answered(r)
    PROVE  RequestsTyped'
<1>1. req' = [req EXCEPT ![r] = NoReq]
  BY DEF Answered
<1> QED BY <1>1, NoReqMayBe, RequestMoves DEF Typed

LEMMA CreateMetadataTyped ==
    ASSUME Typed, NEW r \in Requests, CreateMetadata(r)
    PROVE  Typed'
<1> DEFINE s   == req[r].slug
           doc == [userId |-> req[r].user, tokenCollection |-> None, logo |-> req[r].logo]
<1>1. s \in Slugs /\ req[r].user \in Users /\ req[r].logo \in Logos
  BY DEF CreateMetadata, Typed, RequestsTyped, RequestRecords
<1>2. doc \in MetadataDocs
  BY <1>1 DEF MetadataDocs, Logos
<1>3. contractMetadata' \in [Slugs -> MetadataDocs \cup {None}]
  <2>1. contractMetadata' = contractMetadata
        \/ contractMetadata' = [contractMetadata EXCEPT ![s] = doc]
    BY DEF CreateMetadata
  <2> HIDE DEF doc
  <2> QED BY <1>1, <1>2, <2>1 DEF Typed, StoreTyped
<1>4. StoreTyped'
  BY <1>3 DEF CreateMetadata, Typed, StoreTyped
<1>5. RequestsTyped'
  BY AnsweredTyped DEF CreateMetadata
<1> QED BY <1>4, <1>5, RequestStepTyped DEF CreateMetadata

LEMMA GetNextTokenIdentifierTyped ==
    ASSUME Typed, IInv, NEW r \in Requests, GetNextTokenIdentifier(r)
    PROVE  Typed'
<1> DEFINE s == req[r].slug
           n == NextTokenIdentifier(s)
           q == [req[r] EXCEPT !.op = "createToken", !.id = n]
<1>1. s \in Slugs /\ req[r] \in RequestRecords /\ req[r].op = "nextIdentifier"
      /\ req[r].logo = NoLogo /\ req[r].old = NoLogo
  BY DEF GetNextTokenIdentifier, Typed, RequestsTyped, UpdateOps
<1>2. n \in Nat
  <2>1. Len(tokenMetadata[s]) \in Nat
    BY <1>1 DEF Typed, StoreTyped
  <2> QED BY <1>1, <2>1, NextIsLengthPlusOne DEF IInv
<1>3. MayBe(q)
  <2> HIDE DEF n
  <2> QED BY <1>1, <1>2 DEF MayBe, RequestRecords, UpdateOps
<1>4. req' = [req EXCEPT ![r] = q]
  BY DEF GetNextTokenIdentifier
<1>5. RequestsTyped'
  <2> HIDE DEF q
  <2> QED BY <1>3, <1>4, RequestMoves DEF Typed
<1> QED BY <1>5, StoreTypedKept, RequestStepTyped DEF GetNextTokenIdentifier, Typed

LEMMA CreateTokenMetadataTyped ==
    ASSUME Typed, NEW r \in Requests, CreateTokenMetadata(r)
    PROVE  Typed'
<1> DEFINE s == req[r].slug
<1>1. s \in Slugs /\ req[r].id \in Nat
  BY DEF CreateTokenMetadata, Typed, RequestsTyped, RequestRecords
<1>2. tokenMetadata' \in [Slugs -> Seq(Nat)]
  <2>1. tokenMetadata' = tokenMetadata
        \/ tokenMetadata' = [tokenMetadata EXCEPT ![s] = Append(tokenMetadata[s], req[r].id)]
    BY DEF CreateTokenMetadata
  <2>2. Append(tokenMetadata[s], req[r].id) \in Seq(Nat)
    BY <1>1 DEF Typed, StoreTyped
  <2> QED BY <1>1, <2>1, <2>2 DEF Typed, StoreTyped
<1>3. StoreTyped'
  BY <1>2 DEF CreateTokenMetadata, Typed, StoreTyped
<1>4. RequestsTyped'
  BY AnsweredTyped DEF CreateTokenMetadata
<1> QED BY <1>3, <1>4, RequestStepTyped DEF CreateTokenMetadata

LEMMA RemoveLogoTyped ==
    ASSUME Typed, NEW r \in Requests, RemoveLogo(r)
    PROVE  Typed'
<1> DEFINE q == [req[r] EXCEPT !.op = "updateMetadata", !.old = NoLogo]
<1>1. req[r] \in RequestRecords /\ req[r].slug \in Slugs
  BY DEF RemoveLogo, Typed, RequestsTyped
<1>2. MayBe(q)
  BY <1>1 DEF MayBe, RequestRecords, UpdateOps, Logos
<1>3. req' = [req EXCEPT ![r] = q]
  BY DEF RemoveLogo
<1>4. RequestsTyped'
  <2> HIDE DEF q
  <2> QED BY <1>2, <1>3, RequestMoves DEF Typed
<1>5. StoreTyped'
  BY DEF RemoveLogo, Typed, StoreTyped
<1> QED BY <1>4, <1>5, RequestStepTyped DEF RemoveLogo

(* What an update leaves of a document.                                    *)
LEMMA UpdatedMetadata ==
    ASSUME NEW r, req[r].logo \in Logos, NEW doc \in MetadataDocs
    PROVE  /\ Updated(doc, r) \in MetadataDocs
           /\ Updated(doc, r).tokenCollection = doc.tokenCollection
           /\ Updated(doc, r).userId = doc.userId
           /\ Updated(doc, r).logo = IF req[r].logo = NoLogo THEN doc.logo ELSE req[r].logo
BY DEF Updated, MetadataDocs, Logos

LEMMA UpdatedCollection ==
    ASSUME NEW r, req[r].logo \in Logos, NEW doc \in CollectionDocs
    PROVE  /\ Updated(doc, r) \in CollectionDocs
           /\ Updated(doc, r).slug = doc.slug
           /\ Updated(doc, r).logo = IF req[r].logo = NoLogo THEN doc.logo ELSE req[r].logo
BY DEF Updated, CollectionDocs, Logos

LEMMA UpdateMetadataTyped ==
    ASSUME Typed, MetadataBehind, NEW r \in Requests, UpdateMetadata(r)
    PROVE  Typed'
<1> DEFINE s == req[r].slug
           q == [req[r] EXCEPT !.op = "updateCollection"]
<1>1. req[r] \in RequestRecords /\ s \in Slugs /\ req[r].logo \in Logos /\ req[r].old = NoLogo
  BY DEF UpdateMetadata, Typed, RequestsTyped, RequestRecords
<1>2. contractMetadata[s] \in MetadataDocs
  <2>1. PICK a \in Addresses : tokenCollections[a] # None /\ tokenCollections[a].slug = s
    BY DEF UpdateMetadata, UpdateOps, MetadataBehind, CollectionsOf
  <2>2. contractMetadata[s] # None
    BY <1>1, <2>1, NamesAssumption DEF MetadataBehind
  <2> QED BY <1>1, <2>2 DEF Typed, StoreTyped
<1>3. MayBe(q)
  BY <1>1 DEF MayBe, RequestRecords, UpdateOps, Logos
<1>4. req' = [req EXCEPT ![r] = q]
  BY DEF UpdateMetadata
<1>5. RequestsTyped'
  <2> HIDE DEF q
  <2> QED BY <1>3, <1>4, RequestMoves DEF Typed
<1>6. contractMetadata' = [contractMetadata EXCEPT ![s] = Updated(contractMetadata[s], r)]
  BY DEF UpdateMetadata
<1>7. StoreTyped'
  BY <1>1, <1>2, <1>6, UpdatedMetadata DEF UpdateMetadata, Typed, StoreTyped
<1> QED BY <1>5, <1>7, RequestStepTyped DEF UpdateMetadata

LEMMA UpdateTokenCollectionTyped ==
    ASSUME Typed, NEW r \in Requests, UpdateTokenCollection(r)
    PROVE  Typed'
<1>1. req[r].logo \in Logos
  BY DEF Typed, RequestsTyped, RequestRecords
<1>2. tokenCollections' \in [Addresses -> CollectionDocs \cup {None}]
  <2> SUFFICES ASSUME NEW a \in Addresses
               PROVE  (IF a \in CollectionsOf(req[r].slug)
                         THEN Updated(tokenCollections[a], r) ELSE tokenCollections[a])
                        \in CollectionDocs \cup {None}
    BY DEF UpdateTokenCollection
  <2>1. CASE a \in CollectionsOf(req[r].slug)
    <3>1. tokenCollections[a] \in CollectionDocs
      BY <2>1 DEF CollectionsOf, Typed, StoreTyped
    <3> QED BY <1>1, <2>1, <3>1, UpdatedCollection
  <2>2. CASE a \notin CollectionsOf(req[r].slug)
    BY <2>2 DEF Typed, StoreTyped
  <2> QED BY <2>1, <2>2
<1>3. StoreTyped'
  BY <1>2 DEF UpdateTokenCollection, Typed, StoreTyped
<1>4. RequestsTyped'
  BY AnsweredTyped DEF UpdateTokenCollection
<1> QED BY <1>3, <1>4, RequestStepTyped DEF UpdateTokenCollection

LEMMA RequestFailsTyped ==
    ASSUME Typed, NEW r \in Requests, RequestFails(r)
    PROVE  Typed'
BY AnsweredTyped, StoreTypedKept, RequestStepTyped DEF RequestFails, Typed

-----------------------------------------------------------------------------
(* The listeners: a step that moves the tasks of one of them.              *)
LEMMA ContractStepTyped ==
    ASSUME Typed, StoreTyped', TasksOfTheBlock',
           contractTask' \in [Addresses -> TaskRecords({"none", "find", "create", "attach", "done"})],
           contractJob' \in Nat \ {0},
           UNCHANGED <<chain, tokenJob, tokenTask, req>>
    PROVE  Typed'
BY RequestsTypedKept DEF Typed, TasksTyped

LEMMA TokenStepTyped ==
    ASSUME Typed, StoreTyped',
           tokenTask' \in [Addresses -> TaskRecords({"none", "find", "insert", "done"})],
           tokenJob' \in Nat \ {0},
           UNCHANGED <<chain, contractJob, contractTask, req>>
    PROVE  Typed'
BY RequestsTypedKept, TasksOfTheBlockKept DEF Typed, TasksTyped

LEMMA NoTasksTyped ==
    ASSUME NEW S, "none" \in S
    PROVE  NoTasks \in [Addresses -> TaskRecords(S)]
BY NoTaskTyped DEF NoTasks

LEMMA NoContractTasksTyped ==
    ASSUME Typed, contractTask' = NoTasks, contractJob' \in Nat \ {0},
           UNCHANGED <<store, chain, tokenJob, tokenTask, req>>
    PROVE  Typed'
<1>1. TasksOfTheBlock'
  BY NoTaskTyped DEF TasksOfTheBlock, NoTasks
<1> QED BY <1>1, NoTasksTyped, ContractStepTyped, StoreTypedKept DEF Typed

LEMMA StartContractsTyped ==
    ASSUME Typed, StartContracts
    PROVE  Typed'
<1> DEFINE task == [NoTask EXCEPT !.at = "find"]
<1>1. task \in TaskRecords({"none", "find", "create", "attach", "done"})
  BY DEF NoTask, TaskRecords, Logos
<1>2. contractTask' = [a \in Addresses |->
           IF \E e \in ContractsAt(contractJob) : e.address = a THEN task ELSE NoTask]
  BY DEF StartContracts
<1>3. contractTask' \in [Addresses -> TaskRecords({"none", "find", "create", "attach", "done"})]
  <2> HIDE DEF task
  <2> QED BY <1>1, <1>2, NoTaskTyped
<1>4. TasksOfTheBlock'
  <2> HIDE DEF task
  <2>1. UNCHANGED <<chain, contractJob>>
    BY DEF StartContracts
  <2> QED BY <1>2, <2>1, NoTaskTyped DEF TasksOfTheBlock, ContractsAt
<1> QED BY <1>3, <1>4, ContractStepTyped, StoreTypedKept DEF StartContracts, Typed, TasksTyped

(* A task of a listener goes on.                                           *)
LEMMA ContractTaskMoves ==
    ASSUME Typed, NEW a \in Addresses, NEW task,
           task \in TaskRecords({"none", "find", "create", "attach", "done"}),
           contractTask[a].at # "none",
           contractTask' = [contractTask EXCEPT ![a] = task],
           StoreTyped',
           UNCHANGED <<chain, contractJob, tokenJob, tokenTask, req>>
    PROVE  Typed'
<1>1. contractTask' \in [Addresses -> TaskRecords({"none", "find", "create", "attach", "done"})]
      /\ \A b \in Addresses : contractTask'[b] = IF b = a THEN task ELSE contractTask[b]
  BY DEF Typed, TasksTyped
<1>2. TasksOfTheBlock'
  BY <1>1 DEF Typed, TasksOfTheBlock, ContractsAt
<1> QED BY <1>1, <1>2, ContractStepTyped DEF Typed, TasksTyped

LEMMA FindContractMetadataTyped ==
    ASSUME Typed, NEW a \in Addresses, FindContractMetadata(a)
    PROVE  Typed'
<1> DEFINE uri  == ContractEvent(a).uri
           task == CASE uri.kind = "none" -> [NoTask EXCEPT !.at = "create"]
                     [] uri.kind = "ours" /\ FindMetadata(uri.user, uri.slug) ->
                          [NoTask EXCEPT !.at = "create", !.slug = uri.slug,
                                         !.logo = contractMetadata[uri.slug].logo]
                     [] OTHER -> [NoTask EXCEPT !.at = "done"]
<1>1. contractTask[a].at # "none" /\ contractTask' = [contractTask EXCEPT ![a] = task]
  BY DEF FindContractMetadata
<1>2. task \in TaskRecords({"none", "find", "create", "attach", "done"})
  <2>1. CASE uri.kind = "none"
    <3>1. task = [NoTask EXCEPT !.at = "create"]
      BY <2>1
    <3> QED BY <3>1 DEF NoTask, TaskRecords, Logos
  <2>2. CASE uri.kind = "ours" /\ FindMetadata(uri.user, uri.slug)
    <3>1. task = [NoTask EXCEPT !.at = "create", !.slug = uri.slug,
                                !.logo = contractMetadata[uri.slug].logo]
      BY <2>2
    <3>2. uri.slug \in Slugs /\ contractMetadata[uri.slug].logo \in Logos
      BY <2>2 DEF FindMetadata, Typed, StoreTyped, MetadataDocs, Logos
    <3> HIDE DEF uri
    <3> QED BY <3>1, <3>2 DEF NoTask, TaskRecords
  <2>3. CASE uri.kind # "none" /\ ~(uri.kind = "ours" /\ FindMetadata(uri.user, uri.slug))
    <3>1. task = [NoTask EXCEPT !.at = "done"]
      BY <2>3
    <3> QED BY <3>1 DEF NoTask, TaskRecords, Logos
  <2> QED BY <2>1, <2>2, <2>3
<1> HIDE DEF task
<1> QED BY <1>1, <1>2, ContractTaskMoves, StoreTypedKept DEF FindContractMetadata, Typed

LEMMA CreateCollectionTyped ==
    ASSUME Typed, NEW a \in Addresses, CreateCollection(a)
    PROVE  Typed'
<1> DEFINE t   == contractTask[a]
           doc == [userId |-> ContractEvent(a).creator, slug |-> t.slug, logo |-> t.logo]
<1>1. t.at = "create" /\ t \in TaskRecords({"none", "find", "create", "attach", "done"})
  BY DEF CreateCollection, Typed, TasksTyped
<1>2. ContractEvent(a).creator \in Users
  BY <1>1, EventOfTask
<1>3. doc \in CollectionDocs
  BY <1>1, <1>2 DEF TaskRecords, CollectionDocs, Logos
<1>4. PICK at \in {"attach", "done"} : contractTask' = [contractTask EXCEPT ![a].at = at]
  BY DEF CreateCollection
<1>5. contractTask' = [contractTask EXCEPT ![a] = [t EXCEPT !.at = at]]
  BY <1>4
<1>6. [t EXCEPT !.at = at] \in TaskRecords({"none", "find", "create", "attach", "done"})
  BY <1>1, <1>4 DEF TaskRecords
<1>7. tokenCollections' = tokenCollections
      \/ tokenCollections' = [tokenCollections EXCEPT ![a] = doc]
  BY DEF CreateCollection
<1>8. StoreTyped'
  <2> HIDE DEF doc
  <2> QED BY <1>3, <1>7 DEF CreateCollection, Typed, StoreTyped
<1>9. UNCHANGED <<chain, contractJob, tokenJob, tokenTask, req>>
  BY DEF CreateCollection
<1> QED BY <1>1, <1>5, <1>6, <1>8, <1>9, ContractTaskMoves

LEMMA AttachTokenCollectionTyped ==
    ASSUME Typed, MetadataBehind, Attaching, NEW a \in Addresses, AttachTokenCollection(a)
    PROVE  Typed'
<1> DEFINE t == contractTask[a]
           s == t.slug
<1>1. /\ t.at = "attach" /\ t \in TaskRecords({"none", "find", "create", "attach", "done"})
      /\ s \in Slugs
  BY DEF AttachTokenCollection, Typed, TasksTyped, Attaching
<1>2. contractMetadata[s] \in MetadataDocs
  <2>1. contractMetadata[s] # None
    BY <1>1, NamesAssumption DEF MetadataBehind
  <2> QED BY <1>1, <2>1 DEF Typed, StoreTyped
<1>3. contractMetadata' = [contractMetadata EXCEPT ![s] =
                             [contractMetadata[s] EXCEPT !.tokenCollection = a]]
  BY DEF AttachTokenCollection
<1>4. [contractMetadata[s] EXCEPT !.tokenCollection = a] \in MetadataDocs
  BY <1>2 DEF MetadataDocs
<1>5. StoreTyped'
  BY <1>1, <1>3, <1>4 DEF AttachTokenCollection, Typed, StoreTyped
<1>6. contractTask' = [contractTask EXCEPT ![a] = [t EXCEPT !.at = "done"]]
  BY DEF AttachTokenCollection
<1>7. [t EXCEPT !.at = "done"] \in TaskRecords({"none", "find", "create", "attach", "done"})
  BY <1>1 DEF TaskRecords
<1>8. UNCHANGED <<chain, contractJob, tokenJob, tokenTask, req>>
  BY DEF AttachTokenCollection
<1> QED BY <1>1, <1>5, <1>6, <1>7, <1>8, ContractTaskMoves

LEMMA ContractListenerTyped ==
    ASSUME Typed, IncreaseContractJob \/ ContractListenerFails
    PROVE  Typed'
<1>1. contractTask' = NoTasks /\ contractJob' \in Nat \ {0}
  BY DEF IncreaseContractJob, ContractListenerFails, Typed, TasksTyped
<1>2. UNCHANGED <<store, chain, tokenJob, tokenTask, req>>
  BY DEF IncreaseContractJob, ContractListenerFails
<1> QED BY <1>1, <1>2, NoContractTasksTyped

LEMMA StartTokensTyped ==
    ASSUME Typed, StartTokens
    PROVE  Typed'
<1> DEFINE task == [NoTask EXCEPT !.at = "find"]
<1>1. task \in TaskRecords({"none", "find", "insert", "done"})
  BY DEF NoTask, TaskRecords, Logos
<1>2. tokenTask' = [a \in Addresses |-> IF TokensOf(a) # {} THEN task ELSE NoTask]
  BY DEF StartTokens
<1>3. tokenTask' \in [Addresses -> TaskRecords({"none", "find", "insert", "done"})]
  <2> HIDE DEF task
  <2> QED BY <1>1, <1>2, NoTaskTyped
<1> QED BY <1>3, TokenStepTyped, StoreTypedKept DEF StartTokens, Typed, TasksTyped

LEMMA DescribedAreNumbers ==
    ASSUME StoreTyped, NEW a \in Addresses
    PROVE  DescribedTokens(a) \subseteq Nat
<1>1. CASE tokenCollections[a] = None \/ tokenCollections[a].slug = NoSlug
  BY <1>1 DEF DescribedTokens
<1>2. CASE ~(tokenCollections[a] = None \/ tokenCollections[a].slug = NoSlug)
  <2>1. tokenCollections[a].slug \in Slugs
    BY <1>2 DEF StoreTyped, CollectionDocs
  <2>2. Range(tokenMetadata[tokenCollections[a].slug]) \subseteq Nat
    BY <2>1 DEF StoreTyped, Range
  <2> QED BY <1>2, <2>2 DEF DescribedTokens
<1> QED BY <1>1, <1>2

LEMMA FindTokenMetadataTyped ==
    ASSUME Typed, NEW a \in Addresses, FindTokenMetadata(a)
    PROVE  Typed'
<1> DEFINE found == {t.identifier : t \in {t \in TokensOf(a) : t.uri = "ours"}}
                      \cap DescribedTokens(a)
           at    == IF found = {} THEN "done" ELSE "insert"
           task  == [tokenTask[a] EXCEPT !.found = found, !.at = at]
<1>1. tokenTask' = [tokenTask EXCEPT ![a] = task]
  BY DEF FindTokenMetadata
<1>2. found \subseteq Nat /\ at \in {"done", "insert"}
  BY DescribedAreNumbers DEF Typed
<1>3. tokenTask[a] \in TaskRecords({"none", "find", "insert", "done"})
  BY DEF Typed, TasksTyped
<1> HIDE DEF found, at
<1>4. task \in TaskRecords({"none", "find", "insert", "done"})
  BY <1>2, <1>3 DEF TaskRecords
<1> HIDE DEF task
<1>5. tokenTask' \in [Addresses -> TaskRecords({"none", "find", "insert", "done"})]
  BY <1>1, <1>4 DEF Typed, TasksTyped
<1> QED BY <1>5, TokenStepTyped, StoreTypedKept DEF FindTokenMetadata, Typed, TasksTyped

LEMMA CreateCardsTyped ==
    ASSUME Typed, NEW a \in Addresses, CreateCards(a)
    PROVE  Typed'
<1> DEFINE t == tokenTask[a]
<1>1. t \in TaskRecords({"none", "find", "insert", "done"}) /\ t.found \subseteq Nat
  BY DEF Typed, TasksTyped, TaskRecords
<1>2. cards' \subseteq Addresses \X Nat
  BY <1>1 DEF CreateCards, Typed, StoreTyped
<1>3. StoreTyped'
  BY <1>2 DEF CreateCards, Typed, StoreTyped
<1>4. tokenTask' = NoTasks \/ tokenTask' = [tokenTask EXCEPT ![a] = [t EXCEPT !.at = "done"]]
  BY DEF CreateCards, TokenInvocationEnds
<1>5. [t EXCEPT !.at = "done"] \in TaskRecords({"none", "find", "insert", "done"})
  BY <1>1 DEF TaskRecords
<1>6. tokenTask' \in [Addresses -> TaskRecords({"none", "find", "insert", "done"})]
  BY <1>4, <1>5, NoTasksTyped DEF Typed, TasksTyped
<1> QED BY <1>3, <1>6, TokenStepTyped DEF CreateCards, Typed, TasksTyped

LEMMA TokenListenerTyped ==
    ASSUME Typed,
           \/ IncreaseTokenJob \/ TokenListenerFails
           \/ \E a \in Addresses : TokenUriThrows(a)
    PROVE  Typed'
<1>1. /\ tokenTask' = NoTasks /\ tokenJob' \in Nat \ {0}
      /\ UNCHANGED <<store, chain, contractJob, contractTask, req>>
  BY DEF IncreaseTokenJob, TokenListenerFails, TokenUriThrows, TokenInvocationEnds,
         Typed, TasksTyped
<1> QED BY <1>1, NoTasksTyped, TokenStepTyped, StoreTypedKept DEF Typed

-----------------------------------------------------------------------------
(* Attachments.  Most steps leave what is attached to what as it is: they  *)
(* keep the collections and their slugs, a metadata they add is free, no   *)
(* task begins or ends to attach, and the tasks and updates they begin     *)
(* have a metadata and a collection.                                       *)
MetadataKept ==
    \A s \in Slugs :
        /\ contractMetadata[s] # None =>
             /\ contractMetadata'[s] # None
             /\ contractMetadata'[s].tokenCollection = contractMetadata[s].tokenCollection
        /\ contractMetadata[s] = None =>
             contractMetadata'[s] = None \/ contractMetadata'[s].tokenCollection = None

CollectionsKept ==
    \A a \in Addresses :
        /\ tokenCollections'[a] = None <=> tokenCollections[a] = None
        /\ tokenCollections[a] # None => tokenCollections'[a].slug = tokenCollections[a].slug

TasksKept ==
    \A a \in Addresses :
        /\ contractTask'[a].at = "attach" <=> contractTask[a].at = "attach"
        /\ contractTask[a].at = "attach" => contractTask'[a].slug = contractTask[a].slug
        /\ contractTask'[a].at = "create" /\ contractTask'[a].slug # NoSlug
             => contractTask'[a].slug \in Slugs /\ contractMetadata[contractTask'[a].slug] # None

UpdatesKept ==
    \A r \in Requests : req'[r].op \in UpdateOps => CollectionsOf(req'[r].slug) # {}

LEMMA CollectionsOfKept ==
    ASSUME CollectionsKept, NEW s
    PROVE  CollectionsOf(s)' = CollectionsOf(s)
BY DEF CollectionsKept, CollectionsOf

(* The slug of a collection is one of the slugs, or none.                  *)
LEMMA SlugOfCollection ==
    ASSUME Typed, NEW a \in Addresses, tokenCollections[a] # None
    PROVE  /\ tokenCollections[a] \in CollectionDocs
           /\ tokenCollections[a].slug \in Slugs \cup {NoSlug}
BY DEF Typed, StoreTyped, CollectionDocs

LEMMA SlugOfTask ==
    ASSUME Typed, NEW a \in Addresses
    PROVE  contractTask[a].slug \in Slugs \cup {NoSlug}
BY DEF Typed, TasksTyped, TaskRecords

LEMMA AttachmentsKept ==
    ASSUME Typed, Attachments, MetadataKept, CollectionsKept, TasksKept, UpdatesKept,
           UNCHANGED unattached
    PROVE  Attachments'
<1>1. MetadataBehind'
  <2>1. \A a \in Addresses :
          tokenCollections'[a] # None /\ tokenCollections'[a].slug # NoSlug
            => contractMetadata'[tokenCollections'[a].slug] # None
    <3> SUFFICES ASSUME NEW a \in Addresses, tokenCollections'[a] # None,
                        tokenCollections'[a].slug # NoSlug
                 PROVE  contractMetadata'[tokenCollections'[a].slug] # None
      OBVIOUS
    <3>1. tokenCollections[a] # None /\ tokenCollections'[a].slug = tokenCollections[a].slug
      BY DEF CollectionsKept
    <3>2. tokenCollections[a].slug \in Slugs /\ contractMetadata[tokenCollections[a].slug] # None
      BY <3>1, SlugOfCollection DEF Attachments, MetadataBehind
    <3> QED BY <3>1, <3>2 DEF MetadataKept
  <2>2. \A a \in Addresses :
          contractTask'[a].at \in {"create", "attach"} /\ contractTask'[a].slug # NoSlug
            => contractMetadata'[contractTask'[a].slug] # None
    <3> SUFFICES ASSUME NEW a \in Addresses, contractTask'[a].slug # NoSlug,
                        contractTask'[a].at \in {"create", "attach"}
                 PROVE  contractMetadata'[contractTask'[a].slug] # None
      OBVIOUS
    <3>1. contractTask'[a].slug \in Slugs /\ contractMetadata[contractTask'[a].slug] # None
      BY SlugOfTask DEF TasksKept, Attachments, MetadataBehind
    <3> QED BY <3>1 DEF MetadataKept
  <2>3. \A r \in Requests : req'[r].op \in UpdateOps => CollectionsOf(req[r].slug)' # {}
    BY DEF UpdatesKept, CollectionsKept, CollectionsOf
  <2> QED BY <2>1, <2>2, <2>3 DEF MetadataBehind
<1>2. SlugsUnique'
  BY DEF Attachments, SlugsUnique, CollectionsKept
<1>3. AttachedBack'
  <2> SUFFICES ASSUME NEW s \in Slugs, contractMetadata'[s] # None,
                      contractMetadata'[s].tokenCollection # None
               PROVE  contractMetadata'[s].tokenCollection \in CollectionsOf(s)'
    BY DEF AttachedBack
  <2>1. contractMetadata[s] # None
        /\ contractMetadata'[s].tokenCollection = contractMetadata[s].tokenCollection
    BY DEF MetadataKept
  <2> QED BY <2>1, CollectionsOfKept DEF Attachments, AttachedBack
<1>4. Attaching'
  <2> SUFFICES ASSUME NEW a \in Addresses, contractTask'[a].at = "attach"
               PROVE  /\ contractTask'[a].slug \in Slugs
                      /\ a \in CollectionsOf(contractTask[a].slug)'
                      /\ contractMetadata'[contractTask'[a].slug].tokenCollection = None
                      /\ a \notin unattached'
    BY DEF Attaching
  <2> DEFINE s == contractTask[a].slug
  <2>1. contractTask[a].at = "attach" /\ contractTask'[a].slug = s
    BY DEF TasksKept
  <2>2. /\ s \in Slugs /\ a \in CollectionsOf(s)
        /\ contractMetadata[s].tokenCollection = None /\ a \notin unattached
    BY <2>1 DEF Attachments, Attaching
  <2>3. tokenCollections'[a] # None /\ tokenCollections'[a].slug = s
    BY <2>2 DEF CollectionsOf, CollectionsKept
  <2>4. contractMetadata[s] # None
    BY <2>1, <2>2, NamesAssumption DEF Attachments, MetadataBehind
  <2>5. contractMetadata'[s].tokenCollection = None
    BY <2>2, <2>4 DEF MetadataKept
  <2> QED BY <2>1, <2>2, <2>3, <2>5 DEF CollectionsOf
<1>5. Unattached'
  BY DEF Attachments, Unattached, CollectionsKept
<1>6. AttachedUnlessCutShort'
  <2> SUFFICES ASSUME NEW a \in Addresses, tokenCollections'[a] # None,
                      tokenCollections'[a].slug # NoSlug, contractTask'[a].at # "attach"
               PROVE  IF a \in unattached'
                        THEN contractMetadata'[tokenCollections'[a].slug].tokenCollection = None
                        ELSE contractMetadata'[tokenCollections'[a].slug].tokenCollection = a
    BY DEF AttachedUnlessCutShort
  <2> DEFINE s == tokenCollections[a].slug
  <2>1. tokenCollections[a] # None /\ tokenCollections'[a].slug = s
    BY DEF CollectionsKept
  <2>2. s \in Slugs /\ contractMetadata[s] # None
    BY <2>1, SlugOfCollection DEF Attachments, MetadataBehind
  <2>3. contractMetadata'[s].tokenCollection = contractMetadata[s].tokenCollection
    BY <2>2 DEF MetadataKept
  <2>4. contractTask[a].at # "attach"
    BY DEF TasksKept
  <2> QED BY <2>1, <2>2, <2>3, <2>4 DEF Attachments, AttachedUnlessCutShort
<1> QED BY <1>1, <1>2, <1>3, <1>4, <1>5, <1>6 DEF Attachments

LEMMA InitAttachments == Init => Attachments
<1> SUFFICES ASSUME Init PROVE Attachments
  OBVIOUS
<1>1. \A a \in Addresses : tokenCollections[a] = None /\ contractTask[a].at = "none"
  BY NoTaskTyped DEF Init, NoTasks
<1>2. \A s \in Slugs : contractMetadata[s] = None
  BY DEF Init
<1>3. \A r \in Requests : req[r].op = "idle"
  BY NoReqMayBe DEF Init
<1>4. unattached = {}
  BY DEF Init
<1> QED BY <1>1, <1>2, <1>3, <1>4
        DEF Attachments, MetadataBehind, SlugsUnique, AttachedBack, Attaching, Unattached,
            AttachedUnlessCutShort, UpdateOps

-----------------------------------------------------------------------------
(* A collection is stored under an address and a slug that have none yet;  *)
(* from then on its task has to attach it.                                 *)
LEMMA CreateCollectionAttachments ==
    ASSUME Typed, Attachments, NEW a \in Addresses, CreateCollection(a)
    PROVE  Attachments'
<1> DEFINE t   == contractTask[a]
           doc == [userId |-> ContractEvent(a).creator, slug |-> t.slug, logo |-> t.logo]
<1>1. /\ t.at = "create" /\ t \in TaskRecords({"none", "find", "create", "attach", "done"})
      /\ UNCHANGED <<contractMetadata, req, unattached>>
  BY DEF CreateCollection, Typed, TasksTyped, history
<1>2. doc \in CollectionDocs
  <2>1. ContractEvent(a).creator \in Users
    BY <1>1, EventOfTask
  <2> QED BY <1>1, <2>1 DEF TaskRecords, CollectionDocs, Logos
<1>3. doc # None /\ doc.slug = t.slug
  BY <1>2, DocsAssumption
<1>4. MetadataKept
  BY <1>1 DEF MetadataKept
<1>5. CASE CollectionCollides(a, t.slug)
  <2>1. tokenCollections' = tokenCollections /\ contractTask' = [contractTask EXCEPT ![a].at = "done"]
    BY <1>5 DEF CreateCollection
  <2>2. TasksKept
    BY <1>1, <2>1, SlugOfTask DEF TasksKept, Typed, TasksTyped, Attachments, MetadataBehind
  <2>3. CollectionsKept /\ UpdatesKept
    BY <1>1, <2>1 DEF CollectionsKept, UpdatesKept, Attachments, MetadataBehind
  <2> QED BY <1>1, <1>4, <2>2, <2>3, AttachmentsKept
<1>6. CASE ~CollectionCollides(a, t.slug)
  <2> DEFINE at == IF t.slug = NoSlug THEN "done" ELSE "attach"
  <2>1. /\ tokenCollections' = [tokenCollections EXCEPT ![a] = doc]
        /\ contractTask' = [contractTask EXCEPT ![a].at = at]
    BY <1>6 DEF CreateCollection
  <2>2. tokenCollections[a] = None /\ (t.slug # NoSlug => CollectionsOf(t.slug) = {})
    BY <1>6 DEF CollectionCollides
  <2> HIDE DEF doc
  <2>3. \A b \in Addresses : tokenCollections'[b] = IF b = a THEN doc ELSE tokenCollections[b]
    BY <2>1 DEF Typed, StoreTyped
  <2>4. /\ contractTask'[a].at = at /\ contractTask'[a].slug = t.slug
        /\ \A b \in Addresses : b # a => contractTask'[b] = contractTask[b]
    BY <1>1, <2>1 DEF Typed, TasksTyped, TaskRecords
  <2>5. t.slug # NoSlug => t.slug \in Slugs /\ contractMetadata[t.slug] # None
    BY <1>1, SlugOfTask DEF Attachments, MetadataBehind
  <2>6. t.slug # NoSlug => contractMetadata[t.slug].tokenCollection = None
    BY <2>2, <2>5 DEF Attachments, AttachedBack
  <2>7. a \notin unattached
    BY <2>2 DEF Attachments, Unattached
  <2>8. \A s : CollectionsOf(s) \subseteq CollectionsOf(s)'
    BY <2>2, <2>3 DEF CollectionsOf
  <2>9. \A b \in Addresses : b # a /\ tokenCollections[b] # None /\ t.slug # NoSlug
                               => tokenCollections[b].slug # t.slug
    BY <2>2 DEF CollectionsOf
  <2>10. MetadataBehind'
    <3>1. \A b \in Addresses :
            contractTask'[b].at \in {"create", "attach"} /\ contractTask'[b].slug # NoSlug
              => contractMetadata'[contractTask'[b].slug] # None
      BY <1>1, <2>4, <2>5 DEF Attachments, MetadataBehind
    <3>2. \A b \in Addresses :
            tokenCollections'[b] # None /\ tokenCollections'[b].slug # NoSlug
              => contractMetadata'[tokenCollections'[b].slug] # None
      BY <1>1, <1>3, <2>3, <2>5 DEF Attachments, MetadataBehind
    <3>3. \A r \in Requests : req'[r].op \in UpdateOps => CollectionsOf(req[r].slug)' # {}
      <4> SUFFICES ASSUME NEW r \in Requests, req'[r].op \in UpdateOps
                   PROVE  CollectionsOf(req[r].slug)' # {}
        OBVIOUS
      <4>1. req' = req
        BY <1>1
      <4>2. CollectionsOf(req[r].slug) # {}
        BY <4>1 DEF Attachments, MetadataBehind
      <4>3. PICK b \in Addresses : tokenCollections[b] # None /\ tokenCollections[b].slug = req[r].slug
        BY <4>2 DEF CollectionsOf
      <4>4. tokenCollections'[b] # None /\ tokenCollections'[b].slug = req'[r].slug
        BY <2>2, <2>3, <4>1, <4>3
      <4> QED BY <4>4 DEF CollectionsOf
    <3> QED BY <3>1, <3>2, <3>3 DEF MetadataBehind
  <2>11. SlugsUnique'
    BY <1>3, <2>3, <2>9 DEF Attachments, SlugsUnique
  <2>12. AttachedBack'
    BY <1>1, <2>8 DEF Attachments, AttachedBack
  <2>13. Attaching'
    <3> SUFFICES ASSUME NEW b \in Addresses, contractTask'[b].at = "attach"
                 PROVE  /\ contractTask'[b].slug \in Slugs
                        /\ b \in CollectionsOf(contractTask[b].slug)'
                        /\ contractMetadata'[contractTask'[b].slug].tokenCollection = None
                        /\ b \notin unattached'
      BY DEF Attaching
    <3>1. CASE b = a
      <4>1. t.slug # NoSlug /\ tokenCollections'[a] = doc /\ contractTask'[a].slug = t.slug
        BY <2>3, <2>4, <3>1
      <4> QED BY <1>1, <1>3, <2>5, <2>6, <2>7, <3>1, <4>1 DEF CollectionsOf
    <3>2. CASE b # a
      <4>1. contractTask'[b] = contractTask[b] /\ tokenCollections'[b] = tokenCollections[b]
        BY <2>3, <2>4, <3>2
      <4> QED BY <1>1, <4>1 DEF Attachments, Attaching, CollectionsOf
    <3> QED BY <3>1, <3>2
  <2>14. Unattached'
    BY <1>1, <2>3, <2>7 DEF Attachments, Unattached
  <2>15. AttachedUnlessCutShort'
    <3> SUFFICES ASSUME NEW b \in Addresses, tokenCollections'[b] # None,
                        tokenCollections'[b].slug # NoSlug, contractTask'[b].at # "attach"
                 PROVE  IF b \in unattached'
                          THEN contractMetadata'[tokenCollections'[b].slug].tokenCollection = None
                          ELSE contractMetadata'[tokenCollections'[b].slug].tokenCollection = b
      BY DEF AttachedUnlessCutShort
    <3>1. b # a
      BY <1>3, <2>3, <2>4
    <3>2. contractTask'[b] = contractTask[b] /\ tokenCollections'[b] = tokenCollections[b]
      BY <2>3, <2>4, <3>1
    <3> QED BY <1>1, <3>2 DEF Attachments, AttachedUnlessCutShort
  <2> QED BY <2>10, <2>11, <2>12, <2>13, <2>14, <2>15 DEF Attachments
<1> QED BY <1>5, <1>6

(* Then the task writes its address into the metadata, which had none.     *)
LEMMA AttachAttachments ==
    ASSUME Typed, Attachments, NEW a \in Addresses, AttachTokenCollection(a)
    PROVE  Attachments'
<1> DEFINE s == contractTask[a].slug
<1>1. contractTask[a].at = "attach" /\ UNCHANGED <<tokenCollections, req, unattached>>
  BY DEF AttachTokenCollection, history
<1>2. /\ s \in Slugs /\ tokenCollections[a] # None /\ tokenCollections[a].slug = s
      /\ a \notin unattached
  BY <1>1 DEF Attachments, Attaching, CollectionsOf
<1>3. contractMetadata[s] \in MetadataDocs
  <2>1. contractMetadata[s] # None
    BY <1>1, <1>2, NamesAssumption DEF Attachments, MetadataBehind
  <2> QED BY <1>2, <2>1 DEF Typed, StoreTyped
<1> DEFINE doc == [contractMetadata[s] EXCEPT !.tokenCollection = a]
<1>4. doc \in MetadataDocs /\ doc # None /\ doc.tokenCollection = a
  BY <1>3, DocsAssumption DEF MetadataDocs
<1>5. contractMetadata' = [contractMetadata EXCEPT ![s] = doc]
  BY DEF AttachTokenCollection
<1> HIDE DEF doc
<1>6. \A x \in Slugs : contractMetadata'[x] = IF x = s THEN doc ELSE contractMetadata[x]
  BY <1>5 DEF Typed, StoreTyped
<1>7. contractTask' = [contractTask EXCEPT ![a].at = "done"]
  BY DEF AttachTokenCollection
<1>8. /\ contractTask'[a].at = "done"
      /\ \A b \in Addresses : b # a => contractTask'[b] = contractTask[b]
  BY <1>7 DEF Typed, TasksTyped, TaskRecords
<1>9. \A b \in Addresses : tokenCollections[b] # None /\ tokenCollections[b].slug = s => b = a
  BY <1>2, NamesAssumption DEF Attachments, SlugsUnique
<1>10. MetadataBehind'
  <2>1. \A b \in Addresses :
          contractTask'[b].at \in {"create", "attach"} /\ contractTask'[b].slug # NoSlug
            => contractMetadata'[contractTask'[b].slug] # None
    BY <1>4, <1>6, <1>8, SlugOfTask DEF Attachments, MetadataBehind
  <2>2. \A b \in Addresses :
          tokenCollections'[b] # None /\ tokenCollections'[b].slug # NoSlug
            => contractMetadata'[tokenCollections'[b].slug] # None
    BY <1>1, <1>4, <1>6, SlugOfCollection DEF Attachments, MetadataBehind
  <2>3. \A r \in Requests : req'[r].op \in UpdateOps => CollectionsOf(req[r].slug)' # {}
    BY <1>1 DEF Attachments, MetadataBehind, CollectionsOf
  <2> QED BY <2>1, <2>2, <2>3 DEF MetadataBehind
<1>11. SlugsUnique'
  BY <1>1 DEF Attachments, SlugsUnique
<1>12. AttachedBack'
  BY <1>1, <1>2, <1>4, <1>6 DEF Attachments, AttachedBack, CollectionsOf
<1>13. Attaching'
  <2> SUFFICES ASSUME NEW b \in Addresses, contractTask'[b].at = "attach"
               PROVE  /\ contractTask'[b].slug \in Slugs
                      /\ b \in CollectionsOf(contractTask[b].slug)'
                      /\ contractMetadata'[contractTask'[b].slug].tokenCollection = None
                      /\ b \notin unattached'
    BY DEF Attaching
  <2>1. b # a /\ contractTask'[b] = contractTask[b]
    BY <1>8
  <2>2. contractTask[b].slug \in Slugs /\ b \in CollectionsOf(contractTask[b].slug)
        /\ contractMetadata[contractTask[b].slug].tokenCollection = None /\ b \notin unattached
    BY <2>1 DEF Attachments, Attaching
  <2>3. contractTask[b].slug # s
    BY <1>9, <2>1, <2>2 DEF CollectionsOf
  <2> QED BY <1>1, <1>6, <2>1, <2>2, <2>3 DEF CollectionsOf
<1>14. Unattached'
  BY <1>1 DEF Attachments, Unattached
<1>15. AttachedUnlessCutShort'
  <2> SUFFICES ASSUME NEW b \in Addresses, tokenCollections[b] # None,
                      tokenCollections[b].slug # NoSlug, contractTask'[b].at # "attach"
               PROVE  IF b \in unattached
                        THEN contractMetadata'[tokenCollections[b].slug].tokenCollection = None
                        ELSE contractMetadata'[tokenCollections[b].slug].tokenCollection = b
    BY <1>1 DEF AttachedUnlessCutShort
  <2>1. CASE b = a
    BY <1>2, <1>4, <1>6, <2>1
  <2>2. CASE b # a
    <3>1. tokenCollections[b].slug \in Slugs /\ tokenCollections[b].slug # s
      BY <1>9, <2>2, SlugOfCollection
    <3>2. contractTask[b].at # "attach"
      BY <1>8, <2>2
    <3> QED BY <1>6, <3>1, <3>2 DEF Attachments, AttachedUnlessCutShort
  <2> QED BY <2>1, <2>2
<1> QED BY <1>10, <1>11, <1>12, <1>13, <1>14, <1>15 DEF Attachments

(* An invocation that ends before it attached leaves the collections that  *)
(* were about to be attached without it.                                   *)
LEMMA ContractListenerFailsAttachments ==
    ASSUME Typed, Attachments, ContractListenerFails
    PROVE  Attachments'
<1> DEFINE left == {a \in Addresses : contractTask[a].at = "attach"}
<1>1. /\ UNCHANGED <<contractMetadata, tokenCollections, req>>
      /\ contractTask' = NoTasks /\ unattached' = unattached \cup left
  BY DEF ContractListenerFails, store
<1>2. \A a \in Addresses : contractTask'[a].at = "none"
  BY <1>1, NoTaskTyped DEF NoTasks
<1>3. \A s : CollectionsOf(s)' = CollectionsOf(s)
  BY <1>1 DEF CollectionsOf
<1>4. MetadataBehind'
  BY <1>1, <1>2, <1>3 DEF Attachments, MetadataBehind
<1>5. SlugsUnique' /\ AttachedBack' /\ Attaching'
  BY <1>1, <1>2, <1>3 DEF Attachments, SlugsUnique, AttachedBack, Attaching
<1>6. Unattached'
  BY <1>1, NamesAssumption DEF Attachments, Unattached, Attaching, CollectionsOf
<1>7. AttachedUnlessCutShort'
  BY <1>1, <1>2 DEF Attachments, AttachedUnlessCutShort, Attaching, CollectionsOf
<1> QED BY <1>4, <1>5, <1>6, <1>7 DEF Attachments

-----------------------------------------------------------------------------
LEMMA MetadataUntouched == ASSUME UNCHANGED contractMetadata PROVE MetadataKept
BY DEF MetadataKept

LEMMA CollectionsUntouched == ASSUME UNCHANGED tokenCollections PROVE CollectionsKept
BY DEF CollectionsKept

LEMMA TasksUntouched == ASSUME Typed, Attachments, UNCHANGED contractTask PROVE TasksKept
BY SlugOfTask DEF TasksKept, Attachments, MetadataBehind

LEMMA UpdatesUntouched == ASSUME Attachments, UNCHANGED req PROVE UpdatesKept
BY DEF UpdatesKept, Attachments, MetadataBehind

LEMMA RequestKeepsUpdates ==
    ASSUME Typed, Attachments, NEW r \in Requests, NEW q, req' = [req EXCEPT ![r] = q],
           q.op \in UpdateOps => CollectionsOf(q.slug) # {}
    PROVE  UpdatesKept
<1>1. \A x \in Requests : req'[x] = IF x = r THEN q ELSE req[x]
  BY DEF Typed, RequestsTyped
<1> QED BY <1>1 DEF UpdatesKept, Attachments, MetadataBehind

LEMMA AnsweredKeepsUpdates ==
    ASSUME Typed, Attachments, NEW r \in Requests, Answered(r)
    PROVE  UpdatesKept
<1>1. NoReq.op \notin UpdateOps
  BY NoReqMayBe DEF UpdateOps
<1> QED BY <1>1, RequestKeepsUpdates DEF Answered

LEMMA CreateMetadataAttachments ==
    ASSUME Typed, Attachments, NEW r \in Requests, CreateMetadata(r)
    PROVE  Attachments'
<1> DEFINE s   == req[r].slug
           doc == [userId |-> req[r].user, tokenCollection |-> None, logo |-> req[r].logo]
<1>1. \/ contractMetadata' = contractMetadata
      \/ contractMetadata[s] = None /\ contractMetadata' = [contractMetadata EXCEPT ![s] = doc]
  BY DEF CreateMetadata
<1>2. doc.tokenCollection = None
  OBVIOUS
<1>3. MetadataKept
  <2> HIDE DEF doc
  <2> QED BY <1>1, <1>2 DEF MetadataKept, Typed, StoreTyped
<1>4. CollectionsKept /\ TasksKept
  BY CollectionsUntouched, TasksUntouched DEF CreateMetadata
<1>5. UpdatesKept /\ UNCHANGED unattached
  BY AnsweredKeepsUpdates DEF CreateMetadata, history
<1> QED BY <1>3, <1>4, <1>5, AttachmentsKept

LEMMA UpdateMetadataAttachments ==
    ASSUME Typed, Attachments, NEW r \in Requests, UpdateMetadata(r)
    PROVE  Attachments'
<1> DEFINE s == req[r].slug
           q == [req[r] EXCEPT !.op = "updateCollection"]
<1>1. /\ req[r].op \in UpdateOps /\ s \in Slugs /\ req[r].logo \in Logos
      /\ req[r] \in RequestRecords
  BY DEF UpdateMetadata, UpdateOps, Typed, RequestsTyped, RequestRecords
<1>2. CollectionsOf(s) # {}
  BY <1>1 DEF Attachments, MetadataBehind
<1>3. contractMetadata[s] \in MetadataDocs
  BY <1>1, <1>2, NamesAssumption
     DEF CollectionsOf, Attachments, MetadataBehind, Typed, StoreTyped
<1>4. contractMetadata' = [contractMetadata EXCEPT ![s] = Updated(contractMetadata[s], r)]
  BY DEF UpdateMetadata
<1>5. /\ Updated(contractMetadata[s], r) # None
      /\ Updated(contractMetadata[s], r).tokenCollection = contractMetadata[s].tokenCollection
  BY <1>1, <1>3, UpdatedMetadata, DocsAssumption
<1>6. contractMetadata[s] # None
  BY <1>3, DocsAssumption
<1>7. MetadataKept
  BY <1>4, <1>5, <1>6 DEF MetadataKept, Typed, StoreTyped
<1>8. UpdatesKept
  <2>1. req' = [req EXCEPT ![r] = q]
    BY DEF UpdateMetadata
  <2>2. q.slug = s
    BY <1>1 DEF RequestRecords
  <2> HIDE DEF q
  <2> QED BY <1>2, <2>1, <2>2, RequestKeepsUpdates
<1>9. CollectionsKept /\ TasksKept /\ UNCHANGED unattached
  BY CollectionsUntouched, TasksUntouched DEF UpdateMetadata, history
<1> QED BY <1>7, <1>8, <1>9, AttachmentsKept

LEMMA UpdateTokenCollectionAttachments ==
    ASSUME Typed, Attachments, NEW r \in Requests, UpdateTokenCollection(r)
    PROVE  Attachments'
<1>1. req[r].logo \in Logos
  BY DEF Typed, RequestsTyped, RequestRecords
<1>2. CollectionsKept
  <2> SUFFICES ASSUME NEW a \in Addresses
               PROVE  /\ tokenCollections'[a] = None <=> tokenCollections[a] = None
                      /\ tokenCollections[a] # None
                           => tokenCollections'[a].slug = tokenCollections[a].slug
    BY DEF CollectionsKept
  <2>1. tokenCollections'[a] = IF a \in CollectionsOf(req[r].slug)
                                 THEN Updated(tokenCollections[a], r) ELSE tokenCollections[a]
    BY DEF UpdateTokenCollection
  <2>2. CASE a \in CollectionsOf(req[r].slug)
    <3>1. tokenCollections[a] \in CollectionDocs /\ tokenCollections[a] # None
      BY <2>2 DEF CollectionsOf, Typed, StoreTyped
    <3> QED BY <1>1, <2>1, <2>2, <3>1, UpdatedCollection, DocsAssumption
  <2>3. CASE a \notin CollectionsOf(req[r].slug)
    BY <2>1, <2>3
  <2> QED BY <2>2, <2>3
<1>3. MetadataKept /\ TasksKept
  BY MetadataUntouched, TasksUntouched DEF UpdateTokenCollection
<1>4. UpdatesKept /\ UNCHANGED unattached
  BY AnsweredKeepsUpdates DEF UpdateTokenCollection, history
<1> QED BY <1>2, <1>3, <1>4, AttachmentsKept

(* The requests that store neither a metadata nor a collection.            *)
LEMMA OtherRequestsAttachments ==
    ASSUME Typed, Attachments, NEW r \in Requests,
           \/ \E u \in Users, s \in Slugs : StoreContractMetadata(r, u, s)
           \/ \E u \in Users, a \in Addresses : StoreTokenMetadata(r, u, a)
           \/ \E u \in Users, a \in Addresses : UpdateCollection(r, u, a)
           \/ GetNextTokenIdentifier(r)
           \/ CreateTokenMetadata(r)
           \/ RemoveLogo(r)
           \/ RequestFails(r)
    PROVE  Attachments'
<1>1. UNCHANGED <<contractMetadata, tokenCollections, contractTask, unattached>>
  BY DEF StoreContractMetadata, StoreTokenMetadata, UpdateCollection, GetNextTokenIdentifier,
         CreateTokenMetadata, RemoveLogo, RequestFails, store, history
<1>2. UpdatesKept
  <2>1. CASE \E u \in Users, s \in Slugs : StoreContractMetadata(r, u, s)
    <3>1. PICK u \in Users, s \in Slugs, logo \in {NoLogo, uploads + 1} : req' = [req EXCEPT ![r] =
             [NoReq EXCEPT !.op = "createMetadata", !.user = u, !.slug = s, !.logo = logo]]
      BY <2>1 DEF StoreContractMetadata
    <3> DEFINE q == [NoReq EXCEPT !.op = "createMetadata", !.user = u, !.slug = s, !.logo = logo]
    <3>2. q.op \notin UpdateOps
      BY DEF NoReq, UpdateOps
    <3> HIDE DEF q
    <3> QED BY <3>1, <3>2, RequestKeepsUpdates DEF q
  <2>2. CASE \E u \in Users, a \in Addresses : StoreTokenMetadata(r, u, a)
    <3>1. PICK a \in Addresses : req' = [req EXCEPT ![r] =
             [NoReq EXCEPT !.op = "nextIdentifier", !.slug = tokenCollections[a].slug]]
      BY <2>2 DEF StoreTokenMetadata
    <3> DEFINE q == [NoReq EXCEPT !.op = "nextIdentifier", !.slug = tokenCollections[a].slug]
    <3>2. q.op \notin UpdateOps
      BY DEF NoReq, UpdateOps
    <3> HIDE DEF q
    <3> QED BY <3>1, <3>2, RequestKeepsUpdates DEF q
  <2>3. CASE \E u \in Users, a \in Addresses : UpdateCollection(r, u, a)
    <3>1. PICK a \in Addresses, logo \in {NoLogo, uploads + 1} :
             /\ tokenCollections[a] # None
             /\ req' = [req EXCEPT ![r] =
                  [NoReq EXCEPT !.op = IF logo = NoLogo THEN "updateMetadata" ELSE "removeLogo",
                                !.slug = tokenCollections[a].slug,
                                !.logo = logo,
                                !.old = IF logo = NoLogo THEN NoLogo ELSE tokenCollections[a].logo]]
      BY <2>3 DEF UpdateCollection
    <3> DEFINE q == [NoReq EXCEPT !.op = IF logo = NoLogo THEN "updateMetadata" ELSE "removeLogo",
                                  !.slug = tokenCollections[a].slug,
                                  !.logo = logo,
                                  !.old = IF logo = NoLogo THEN NoLogo ELSE tokenCollections[a].logo]
    <3>2. q.slug = tokenCollections[a].slug
      BY DEF NoReq
    <3>3. CollectionsOf(q.slug) # {}
      <4> HIDE DEF q
      <4> QED BY <3>1, <3>2 DEF CollectionsOf
    <3> HIDE DEF q
    <3> QED BY <3>1, <3>3, RequestKeepsUpdates DEF q
  <2>4. CASE GetNextTokenIdentifier(r)
    <3> DEFINE n == NextTokenIdentifier(req[r].slug)
               q == [req[r] EXCEPT !.op = "createToken", !.id = n]
    <3>1. req' = [req EXCEPT ![r] = q]
      BY <2>4 DEF GetNextTokenIdentifier
    <3>2. q.op \notin UpdateOps
      <4> HIDE DEF n
      <4> QED BY DEF Typed, RequestsTyped, RequestRecords, UpdateOps
    <3> HIDE DEF q
    <3> QED BY <3>1, <3>2, RequestKeepsUpdates
  <2>5. CASE RemoveLogo(r)
    <3> DEFINE q == [req[r] EXCEPT !.op = "updateMetadata", !.old = NoLogo]
    <3>1. req' = [req EXCEPT ![r] = q] /\ req[r].op = "removeLogo"
      BY <2>5 DEF RemoveLogo
    <3>2. q.slug = req[r].slug
      BY DEF Typed, RequestsTyped, RequestRecords
    <3>3. CollectionsOf(req[r].slug) # {}
      BY <3>1 DEF Attachments, MetadataBehind, UpdateOps
    <3> HIDE DEF q
    <3> QED BY <3>1, <3>2, <3>3, RequestKeepsUpdates
  <2>6. CASE CreateTokenMetadata(r) \/ RequestFails(r)
    BY <2>6, AnsweredKeepsUpdates DEF CreateTokenMetadata, RequestFails
  <2> QED BY <2>1, <2>2, <2>3, <2>4, <2>5, <2>6
<1> QED BY <1>1, <1>2, MetadataUntouched, CollectionsUntouched, TasksUntouched, AttachmentsKept

(* The tasks begin, look for their metadata, or are all done.              *)
LEMMA ContractTasksAttachments ==
    ASSUME Typed, Attachments,
           \/ StartContracts \/ IncreaseContractJob
           \/ \E a \in Addresses : FindContractMetadata(a)
    PROVE  Attachments'
<1>1. UNCHANGED <<contractMetadata, tokenCollections, req, unattached>>
  BY DEF StartContracts, IncreaseContractJob, FindContractMetadata, store, history
<1>2. TasksKept
  <2>1. CASE StartContracts
    <3> DEFINE task == [NoTask EXCEPT !.at = "find"]
    <3>1. task.at = "find"
      BY DEF NoTask
    <3>2. contractTask' = [a \in Addresses |->
             IF \E e \in ContractsAt(contractJob) : e.address = a THEN task ELSE NoTask]
      BY <2>1 DEF StartContracts
    <3>3. \A a \in Addresses : contractTask[a].at = "none"
      BY <2>1, NoTaskTyped DEF StartContracts, Rests, NoTasks
    <3> HIDE DEF task
    <3> QED BY <3>1, <3>2, <3>3, NoTaskTyped DEF TasksKept
  <2>2. CASE IncreaseContractJob
    BY <2>2, NoTaskTyped DEF IncreaseContractJob, AllDone, NoTasks, TasksKept
  <2>3. CASE \E a \in Addresses : FindContractMetadata(a)
    <3>1. PICK a \in Addresses : FindContractMetadata(a)
      BY <2>3
    <3> DEFINE uri  == ContractEvent(a).uri
               task == CASE uri.kind = "none" -> [NoTask EXCEPT !.at = "create"]
                         [] uri.kind = "ours" /\ FindMetadata(uri.user, uri.slug) ->
                              [NoTask EXCEPT !.at = "create", !.slug = uri.slug,
                                             !.logo = contractMetadata[uri.slug].logo]
                         [] OTHER -> [NoTask EXCEPT !.at = "done"]
    <3>2. contractTask[a].at = "find" /\ contractTask' = [contractTask EXCEPT ![a] = task]
      BY <3>1 DEF FindContractMetadata
    <3>3. /\ task.at # "attach"
          /\ task.at = "create" /\ task.slug # NoSlug
               => task.slug \in Slugs /\ contractMetadata[task.slug] # None
      <4>1. CASE uri.kind = "none"
        BY <4>1 DEF NoTask
      <4>2. CASE uri.kind = "ours" /\ FindMetadata(uri.user, uri.slug)
        <5>1. uri.slug \in Slugs /\ contractMetadata[uri.slug] # None
          BY <4>2 DEF FindMetadata
        <5> QED BY <4>2, <5>1 DEF NoTask
      <4>3. CASE uri.kind # "none" /\ ~(uri.kind = "ours" /\ FindMetadata(uri.user, uri.slug))
        BY <4>3 DEF NoTask
      <4> QED BY <4>1, <4>2, <4>3
    <3> HIDE DEF task
    <3>4. \A b \in Addresses : contractTask'[b] = IF b = a THEN task ELSE contractTask[b]
      BY <3>2 DEF Typed, TasksTyped
    <3> QED BY <3>2, <3>3, <3>4, SlugOfTask DEF TasksKept, Attachments, MetadataBehind
  <2> QED BY <2>1, <2>2, <2>3
<1> QED BY <1>1, <1>2, MetadataUntouched, CollectionsUntouched, UpdatesUntouched, AttachmentsKept

(* Neither the chain nor the token listener touches any of it.             *)
LEMMA OthersAttachments ==
    ASSUME Typed, Attachments,
           \/ \E blk \in BlockChoices : NewBlock(blk)
           \/ TokenListener \/ TokenListenerFails \/ UNCHANGED vars
    PROVE  Attachments'
<1>1. UNCHANGED <<contractMetadata, tokenCollections, contractTask, req, unattached>>
  <2>1. CASE \E blk \in BlockChoices : NewBlock(blk)
    BY <2>1 DEF NewBlock, store, history
  <2>2. CASE TokenListener
    BY <2>2 DEF TokenListener, StartTokens, IncreaseTokenJob, TokenTask, FindTokenMetadata,
                TokenUriThrows, CreateCards, store, history
  <2>3. CASE TokenListenerFails \/ UNCHANGED vars
    BY <2>3 DEF TokenListenerFails, store, history, vars
  <2> QED BY <2>1, <2>2, <2>3
<1> QED BY <1>1, MetadataUntouched, CollectionsUntouched, TasksUntouched, UpdatesUntouched,
           AttachmentsKept

LEMMA NextAttachments ==
    ASSUME Typed, Attachments, [Next]_vars
    PROVE  Attachments'
<1>1. CASE \E r \in Requests : Request(r)
  <2>1. PICK r \in Requests : Request(r)
    BY <1>1
  <2>2. CASE CreateMetadata(r)
    BY <2>2, CreateMetadataAttachments
  <2>3. CASE UpdateMetadata(r)
    BY <2>3, UpdateMetadataAttachments
  <2>4. CASE UpdateTokenCollection(r)
    BY <2>4, UpdateTokenCollectionAttachments
  <2>5. CASE \/ \E u \in Users, s \in Slugs : StoreContractMetadata(r, u, s)
             \/ \E u \in Users, a \in Addresses : StoreTokenMetadata(r, u, a)
             \/ \E u \in Users, a \in Addresses : UpdateCollection(r, u, a)
             \/ GetNextTokenIdentifier(r) \/ CreateTokenMetadata(r) \/ RemoveLogo(r)
    BY <2>5, OtherRequestsAttachments
  <2> QED BY <2>1, <2>2, <2>3, <2>4, <2>5 DEF Request
<1>2. CASE ContractListener
  BY <1>2, ContractTasksAttachments, CreateCollectionAttachments, AttachAttachments
     DEF ContractListener, ContractTask
<1>3. CASE ContractListenerFails
  BY <1>3, ContractListenerFailsAttachments
<1>4. CASE \E r \in Requests : RequestFails(r)
  BY <1>4, OtherRequestsAttachments
<1>5. CASE \/ \E blk \in BlockChoices : NewBlock(blk)
           \/ TokenListener \/ TokenListenerFails \/ UNCHANGED vars
  BY <1>5, OthersAttachments
<1> QED BY <1>1, <1>2, <1>3, <1>4, <1>5 DEF Next, Failure

LEMMA NextTyped ==
    ASSUME IInv, Typed, Attachments, [Next]_vars
    PROVE  Typed'
<1>1. CASE \E r \in Requests : Request(r)
  <2>1. PICK r \in Requests : Request(r)
    BY <1>1
  <2>2. CASE \E u \in Users, s \in Slugs : StoreContractMetadata(r, u, s)
    BY <2>2, StoreContractMetadataTyped
  <2>3. CASE \E u \in Users, a \in Addresses : StoreTokenMetadata(r, u, a)
    BY <2>3, StoreTokenMetadataTyped
  <2>4. CASE \E u \in Users, a \in Addresses : UpdateCollection(r, u, a)
    BY <2>4, UpdateCollectionTyped
  <2>5. CASE CreateMetadata(r) \/ CreateTokenMetadata(r) \/ GetNextTokenIdentifier(r)
    BY <2>5, CreateMetadataTyped, CreateTokenMetadataTyped, GetNextTokenIdentifierTyped
  <2>6. CASE RemoveLogo(r) \/ UpdateMetadata(r) \/ UpdateTokenCollection(r)
    BY <2>6, RemoveLogoTyped, UpdateMetadataTyped, UpdateTokenCollectionTyped DEF Attachments
  <2> QED BY <2>1, <2>2, <2>3, <2>4, <2>5, <2>6 DEF Request
<1>2. CASE ContractListener
  <2>1. CASE StartContracts \/ IncreaseContractJob
    BY <2>1, StartContractsTyped, ContractListenerTyped
  <2>2. CASE \E a \in Addresses : ContractTask(a)
    BY <2>2, FindContractMetadataTyped, CreateCollectionTyped, AttachTokenCollectionTyped
       DEF ContractTask, Attachments
  <2> QED BY <1>2, <2>1, <2>2 DEF ContractListener
<1>3. CASE TokenListener
  <2>1. CASE StartTokens \/ IncreaseTokenJob
    BY <2>1, StartTokensTyped, TokenListenerTyped
  <2>2. CASE \E a \in Addresses : TokenTask(a)
    BY <2>2, FindTokenMetadataTyped, CreateCardsTyped, TokenListenerTyped DEF TokenTask
  <2> QED BY <1>3, <2>1, <2>2 DEF TokenListener
<1>4. CASE \/ \E blk \in BlockChoices : NewBlock(blk)
           \/ Failure
  BY <1>4, NewBlockTyped, ContractListenerTyped, TokenListenerTyped, RequestFailsTyped
     DEF Failure
<1>5. CASE UNCHANGED vars
  BY <1>5, StoreTypedKept, RequestsTypedKept, RequestStepTyped DEF vars, store, Typed
<1> QED BY <1>1, <1>2, <1>3, <1>4, <1>5 DEF Next

LEMMA TypedIsTypeOK == Typed => TypeOK
<1> SUFFICES ASSUME Typed PROVE TypeOK
  OBVIOUS
<1>1. /\ contractMetadata \in [Slugs -> MetadataDocs \cup {None}]
      /\ tokenMetadata \in [Slugs -> Seq(Nat)]
      /\ tokenCollections \in [Addresses -> CollectionDocs \cup {None}]
      /\ cards \subseteq Addresses \X Nat /\ files \subseteq 1..uploads /\ uploads \in Nat
  BY DEF Typed, StoreTyped
<1>2. \A a \in Addresses :
         /\ contractTask[a].at \in {"none", "find", "create", "attach", "done"}
         /\ tokenTask[a].at \in {"none", "find", "insert", "done"}
  BY DEF Typed, TasksTyped, TaskRecords
<1>3. chain \in Seq(BlockChoices) /\ contractJob \in Nat \ {0} /\ tokenJob \in Nat \ {0}
  BY DEF Typed, TasksTyped
<1>4. \A r \in Requests : req[r].op # "idle" => req[r].slug \in Slugs
  BY DEF Typed, RequestsTyped
<1> QED BY <1>1, <1>2, <1>3, <1>4 DEF TypeOK

LEMMA OneCollection ==
    ASSUME Typed, Attachments
    PROVE  AttachedToItsCollection
<1> SUFFICES ASSUME NEW s \in Slugs
             PROVE  /\ Cardinality(CollectionsOf(s)) <= 1
                    /\ contractMetadata[s] # None /\ contractMetadata[s].tokenCollection # None
                         => CollectionsOf(s) = {contractMetadata[s].tokenCollection}
  BY DEF AttachedToItsCollection
<1>1. \A a, b \in CollectionsOf(s) : a = b
  BY NamesAssumption DEF CollectionsOf, Attachments, SlugsUnique
<1>2. Cardinality(CollectionsOf(s)) <= 1
  <2>1. CASE CollectionsOf(s) = {}
    BY <2>1, FS_EmptySet
  <2>2. CASE CollectionsOf(s) # {}
    <3>1. PICK a \in CollectionsOf(s) : TRUE
      BY <2>2
    <3>2. CollectionsOf(s) = {a}
      BY <1>1, <3>1
    <3>3. Cardinality({a}) = 1
      BY FS_Singleton
    <3> QED BY <3>2, <3>3
  <2> QED BY <2>1, <2>2
<1>3. contractMetadata[s] # None /\ contractMetadata[s].tokenCollection # None
        => CollectionsOf(s) = {contractMetadata[s].tokenCollection}
  BY <1>1 DEF Attachments, AttachedBack
<1> QED BY <1>2, <1>3

(* Whatever contracts a block has, however many name one metadata and find *)
(* it at once, and wherever an invocation fails: a slug has one collection *)
(* at most, an attached metadata is attached to that of its slug, and only *)
(* a task that ended between its two writes leaves a collection that its   *)
(* metadata does not name.                                                 *)
THEOREM AttachmentsStaySound == Spec => []AttachmentsSound
<1> DEFINE Inv == IInv /\ Typed /\ Attachments
<1>1. Init => Inv
  BY InitHolds, InitTyped, InitAttachments
<1>2. Inv /\ [Next]_vars => Inv'
  BY NextKeeps, NextTyped, NextAttachments
<1>3. Inv => AttachmentsSound
  BY TypedIsTypeOK, OneCollection DEF AttachmentsSound, Attachments
<1> QED BY <1>1, <1>2, <1>3, PTL DEF Spec

-----------------------------------------------------------------------------
(* Cards.  The chain and what is described only ever grow.                 *)
ChainGrows ==
    \A b \in DOMAIN chain : b \in DOMAIN chain' /\ chain'[b] = chain[b]

DescribedGrow ==
    \A a \in Addresses : \A i \in DescribedTokens(a) : i \in DescribedTokens(a)'

LEMMA ChainStep ==
    ASSUME Typed, UNCHANGED chain \/ \E blk \in BlockChoices : NewBlock(blk)
    PROVE  ChainGrows
<1>1. CASE UNCHANGED chain
  BY <1>1 DEF ChainGrows
<1>2. CASE \E blk \in BlockChoices : NewBlock(blk)
  BY <1>2 DEF ChainGrows, NewBlock, Typed, TasksTyped
<1> QED BY <1>1, <1>2

LEMMA TokensAtGrow ==
    ASSUME ChainGrows, NEW b
    PROVE  /\ \A t \in TokensAt(b) : t \in TokensAt(b)'
           /\ b \in DOMAIN chain => b \in DOMAIN chain' /\ TokensAt(b)' = TokensAt(b)
BY DEF ChainGrows, TokensAt

LEMMA TokensOfGrow ==
    ASSUME ChainGrows, tokenJob' = tokenJob, NEW a
    PROVE  /\ \A t \in TokensOf(a) : t \in TokensOf(a)'
           /\ \A i \in OursOf(a) : i \in OursOf(a)'
           /\ tokenJob \in DOMAIN chain => tokenJob \in DOMAIN chain' /\ TokensOf(a)' = TokensOf(a)
<1>1. /\ \A t \in TokensOf(a) : t \in TokensOf(a)'
      /\ tokenJob \in DOMAIN chain => tokenJob \in DOMAIN chain' /\ TokensOf(a)' = TokensOf(a)
  BY DEF TokensOf, ChainGrows, TokensAt
<1> QED BY <1>1 DEF OursOf

LEMMA CardsDescribedGrow ==
    ASSUME CardsDescribed, cards \subseteq Addresses \X Nat, ChainGrows, DescribedGrow,
           NEW c \in cards
    PROVE  /\ c \in Minted'
           /\ c[2] \in DescribedTokens(c[1])'
           /\ \E b \in DOMAIN chain' : \E t \in TokensAt(b)' :
                  <<t.address, t.identifier>> = c /\ t.uri = "ours"
<1>1. PICK b \in DOMAIN chain : \E t \in TokensAt(b) :
             <<t.address, t.identifier>> = c /\ t.uri = "ours"
  BY DEF CardsDescribed
<1>2. PICK t \in TokensAt(b) : <<t.address, t.identifier>> = c /\ t.uri = "ours"
  BY <1>1
<1>3. b \in DOMAIN chain' /\ t \in TokensAt(b)'
  BY <1>1, <1>2, TokensAtGrow
<1>4. c \in Minted'
  <2>1. c \in {<<x.address, x.identifier>> : x \in TokensAt(b)'}
    BY <1>2, <1>3
  <2> QED BY <1>3, <2>1 DEF Minted
<1>5. c[2] \in DescribedTokens(c[1])'
  <2>1. c[1] \in Addresses /\ c[2] \in DescribedTokens(c[1])
    BY DEF CardsDescribed
  <2> QED BY <2>1 DEF DescribedGrow
<1> QED BY <1>2, <1>3, <1>4, <1>5

(* A step of another part of the system.                                   *)
LEMMA CardsKept ==
    ASSUME Typed, CardsOfTokens, ChainGrows, DescribedGrow,
           UNCHANGED <<cards, tokenTask, tokenJob, halfCreated>>
    PROVE  CardsOfTokens'
<1>1. CardsDescribed'
  <2>1. \A c \in cards' :
           /\ c \in Minted'
           /\ c[2] \in DescribedTokens(c[1])'
           /\ \E b \in DOMAIN chain' : \E t \in TokensAt(b)' :
                  <<t.address, t.identifier>> = c /\ t.uri = "ours"
    BY CardsDescribedGrow DEF CardsOfTokens, Typed, StoreTyped
  <2> QED BY <2>1 DEF CardsDescribed
<1>2. TokenTasksMeant'
  BY TokensOfGrow DEF CardsOfTokens, TokenTasksMeant, DescribedGrow
<1>3. AllStarted'
  BY TokensOfGrow DEF CardsOfTokens, AllStarted
<1>4. NeverFilled'
  BY TokensOfGrow DEF CardsOfTokens, NeverFilled, Hole, MakesHole
<1> QED BY <1>1, <1>2, <1>3, <1>4 DEF CardsOfTokens

LEMMA InitCards == Init => CardsOfTokens
<1> SUFFICES ASSUME Init PROVE CardsOfTokens
  OBVIOUS
<1>1. \A a \in Addresses : tokenTask[a].found = {} /\ tokenTask[a].at = "none"
  BY NoTaskTyped DEF Init, NoTasks
<1> QED BY <1>1
        DEF Init, CardsOfTokens, CardsDescribed, TokenTasksMeant, AllStarted, NeverFilled

-----------------------------------------------------------------------------
(* What is described stays described.                                      *)
LEMMA DescribedUntouched ==
    ASSUME UNCHANGED <<tokenCollections, tokenMetadata>>
    PROVE  DescribedGrow
BY DEF DescribedGrow, DescribedTokens

LEMMA DescribedWithCollections ==
    ASSUME UNCHANGED tokenMetadata,
           \A a \in Addresses : tokenCollections[a] # None =>
               tokenCollections'[a] # None /\ tokenCollections'[a].slug = tokenCollections[a].slug
    PROVE  DescribedGrow
BY DEF DescribedGrow, DescribedTokens

LEMMA CreateTokenMetadataDescribes ==
    ASSUME Typed, NEW r \in Requests, CreateTokenMetadata(r)
    PROVE  DescribedGrow
<1> DEFINE s == req[r].slug
<1>1. s \in Slugs /\ req[r].id \in Nat /\ UNCHANGED tokenCollections
  BY DEF CreateTokenMetadata, Typed, RequestsTyped, RequestRecords
<1>2. tokenMetadata' = tokenMetadata
      \/ tokenMetadata' = [tokenMetadata EXCEPT ![s] = Append(tokenMetadata[s], req[r].id)]
  BY DEF CreateTokenMetadata
<1>3. tokenMetadata[s] \in Seq(Nat)
  BY <1>1 DEF Typed, StoreTyped
<1>4. Range(tokenMetadata[s]) \subseteq Range(Append(tokenMetadata[s], req[r].id))
  <2> SUFFICES ASSUME NEW i \in DOMAIN tokenMetadata[s]
               PROVE  tokenMetadata[s][i] \in Range(Append(tokenMetadata[s], req[r].id))
    BY DEF Range
  <2> DEFINE q == Append(tokenMetadata[s], req[r].id)
  <2>1. i \in DOMAIN q /\ q[i] = tokenMetadata[s][i]
    BY <1>1, <1>3
  <2> QED BY <2>1 DEF Range
<1>5. \A x \in Slugs : Range(tokenMetadata[x]) \subseteq Range(tokenMetadata'[x])
  BY <1>1, <1>2, <1>4 DEF Typed, StoreTyped
<1> SUFFICES ASSUME NEW a \in Addresses, NEW i \in DescribedTokens(a)
             PROVE  i \in DescribedTokens(a)'
  BY DEF DescribedGrow
<1>6. tokenCollections[a] # None /\ tokenCollections[a].slug \in Slugs
  BY SlugOfCollection DEF DescribedTokens
<1> QED BY <1>1, <1>5, <1>6 DEF DescribedTokens

LEMMA CollectionStepDescribes ==
    ASSUME Typed, Attachments,
           \/ \E r \in Requests : UpdateTokenCollection(r)
           \/ \E a \in Addresses : CreateCollection(a)
    PROVE  DescribedGrow
<1>1. ASSUME NEW r \in Requests, UpdateTokenCollection(r)
      PROVE  DescribedGrow
  <2>1. req[r].logo \in Logos /\ UNCHANGED tokenMetadata
    BY <1>1 DEF UpdateTokenCollection, Typed, RequestsTyped, RequestRecords
  <2>2. ASSUME NEW a \in Addresses, tokenCollections[a] # None
        PROVE  tokenCollections'[a] # None /\ tokenCollections'[a].slug = tokenCollections[a].slug
    <3>1. tokenCollections'[a] = IF a \in CollectionsOf(req[r].slug)
                                   THEN Updated(tokenCollections[a], r) ELSE tokenCollections[a]
      BY <1>1 DEF UpdateTokenCollection
    <3>2. /\ Updated(tokenCollections[a], r) # None
          /\ Updated(tokenCollections[a], r).slug = tokenCollections[a].slug
      BY <2>1, <2>2, SlugOfCollection, UpdatedCollection, DocsAssumption
    <3> QED BY <2>2, <3>1, <3>2
  <2> QED BY <2>1, <2>2, DescribedWithCollections
<1>2. ASSUME NEW a \in Addresses, CreateCollection(a)
      PROVE  DescribedGrow
  <2>1. UNCHANGED tokenMetadata /\ \A b \in Addresses : tokenCollections[b] # None =>
               tokenCollections'[b] = tokenCollections[b]
    BY <1>2 DEF CreateCollection, CollectionCollides, Typed, StoreTyped
  <2> QED BY <2>1, DescribedWithCollections
<1> QED BY <1>1, <1>2

-----------------------------------------------------------------------------
(* The steps of the token listener leave chain and descriptions alone.     *)
LEMMA NothingGrows ==
    ASSUME UNCHANGED <<chain, tokenCollections, tokenMetadata>>
    PROVE  ChainGrows /\ DescribedGrow
BY DescribedUntouched DEF ChainGrows

LEMMA CardsDescribedKept ==
    ASSUME Typed, CardsOfTokens, UNCHANGED <<cards, chain, tokenCollections, tokenMetadata>>
    PROVE  CardsDescribed'
BY CardsDescribedGrow, NothingGrows DEF CardsOfTokens, CardsDescribed, Typed, StoreTyped

LEMMA StartTokensCards ==
    ASSUME Typed, CardsOfTokens, StartTokens
    PROVE  CardsOfTokens'
<1> DEFINE task == [NoTask EXCEPT !.at = "find"]
<1>1. task.at = "find" /\ task.found = {}
  BY DEF NoTask
<1>2. /\ tokenTask' = [a \in Addresses |-> IF TokensOf(a) # {} THEN task ELSE NoTask]
      /\ tokenTask = NoTasks /\ TokensAt(tokenJob) # {}
      /\ UNCHANGED <<cards, chain, tokenCollections, tokenMetadata, tokenJob, halfCreated>>
  BY DEF StartTokens, Rests, store, history
<1> HIDE DEF task
<1>3. \A a \in Addresses : /\ tokenTask'[a].found = {}
                           /\ tokenTask'[a].at = IF TokensOf(a) # {} THEN "find" ELSE "none"
  BY <1>1, <1>2, NoTaskTyped
<1>4. \A a : TokensOf(a)' = TokensOf(a) /\ OursOf(a)' = OursOf(a)
  BY <1>2 DEF TokensOf, OursOf, TokensAt
<1>5. tokenJob \in DOMAIN chain
  BY <1>2 DEF TokensAt
<1>6. TokenTasksMeant'
  BY <1>3 DEF TokenTasksMeant
<1>7. AllStarted'
  BY <1>2, <1>3, <1>4, <1>5 DEF AllStarted
<1>8. NeverFilled'
  BY <1>2, <1>3, <1>4 DEF CardsOfTokens, NeverFilled, Hole, MakesHole
<1>9. CardsDescribed'
  BY <1>2, CardsDescribedKept
<1> QED BY <1>6, <1>7, <1>8, <1>9 DEF CardsOfTokens

(* The cursor passes a block only when all its tasks are done, and one of  *)
(* a block that was cut short never is.                                    *)
LEMMA IncreaseTokenJobCards ==
    ASSUME Typed, CardsOfTokens, IncreaseTokenJob
    PROVE  CardsOfTokens'
<1>1. /\ tokenTask' = NoTasks
      /\ UNCHANGED <<cards, chain, tokenCollections, tokenMetadata, halfCreated>>
  BY DEF IncreaseTokenJob, store, history
<1>2. \A a \in Addresses : tokenTask'[a].found = {} /\ tokenTask'[a].at = "none"
  BY <1>1, NoTaskTyped DEF NoTasks
<1>3. ~Hole
  <2> SUFFICES ASSUME Hole PROVE FALSE
    OBVIOUS
  <2>1. PICK a \in Addresses : \E i \in OursOf(a) :
           /\ <<a, i>> \in cards
           /\ tokenTask[a].at \in {"none", "find", "insert"}
    BY DEF Hole, MakesHole
  <2>2. tokenTask[a].at = "none"
    BY <2>1 DEF IncreaseTokenJob, AllDone
  <2>3. TokensOf(a) # {}
    BY <2>1 DEF OursOf
  <2>4. TokensAt(tokenJob) # {}
    BY <2>3 DEF TokensOf
  <2>5. tokenTask # NoTasks
    BY <2>4 DEF IncreaseTokenJob, Rests
  <2> QED BY <2>2, <2>3, <2>5 DEF CardsOfTokens, AllStarted
<1>4. halfCreated' = {}
  BY <1>1, <1>3 DEF CardsOfTokens, NeverFilled
<1>5. TokenTasksMeant' /\ AllStarted' /\ NeverFilled'
  BY <1>1, <1>2, <1>4 DEF TokenTasksMeant, AllStarted, NeverFilled
<1> QED BY <1>1, <1>5, CardsDescribedKept DEF CardsOfTokens

(* An invocation that ends: when a task of it has inserted its cards they  *)
(* make the hole, and a hole there was remains.                            *)
LEMMA InvocationEndsCards ==
    ASSUME Typed, CardsOfTokens, TokenInvocationEnds, CardsDescribed',
           cards \subseteq cards',
           UNCHANGED <<chain, tokenCollections, tokenMetadata, tokenJob>>
    PROVE  CardsOfTokens'
<1>1. tokenTask' = NoTasks
  BY DEF TokenInvocationEnds
<1>2. \A a \in Addresses : tokenTask'[a].found = {} /\ tokenTask'[a].at = "none"
  BY <1>1, NoTaskTyped DEF NoTasks
<1>3. \A a : TokensOf(a)' = TokensOf(a) /\ OursOf(a)' = OursOf(a)
  BY DEF TokensOf, OursOf, TokensAt
<1>4. NeverFilled'
  <2> SUFFICES ASSUME NEW b \in halfCreated'
               PROVE  tokenJob' = b /\ Hole'
    BY DEF NeverFilled
  <2>1. CASE b \in halfCreated
    BY <1>2, <1>3, <2>1 DEF CardsOfTokens, NeverFilled, Hole, MakesHole
  <2>2. CASE b \notin halfCreated
    <3>1. b = tokenJob /\ \E a \in Addresses : tokenTask[a].at = "done" /\ tokenTask[a].found # {}
      BY <2>2 DEF TokenInvocationEnds
    <3>2. PICK a \in Addresses : tokenTask[a].at = "done" /\ tokenTask[a].found # {}
      BY <3>1
    <3>3. PICK i \in tokenTask[a].found : i \in OursOf(a) /\ <<a, i>> \in cards
      BY <3>2 DEF CardsOfTokens, TokenTasksMeant
    <3>4. i \in OursOf(a)' /\ <<a, i>> \in cards' /\ tokenTask'[a].at = "none"
      BY <1>2, <1>3, <3>3
    <3> QED BY <3>1, <3>4 DEF Hole, MakesHole
  <2> QED BY <2>1, <2>2
<1>5. TokenTasksMeant' /\ AllStarted'
  BY <1>1, <1>2 DEF TokenTasksMeant, AllStarted
<1> QED BY <1>4, <1>5 DEF CardsOfTokens

(* A contract whose card is in the store already finds it again.           *)
LEMMA FindTokenMetadataCards ==
    ASSUME Typed, CardsOfTokens, NEW a \in Addresses, FindTokenMetadata(a)
    PROVE  CardsOfTokens'
<1> DEFINE found == OursOf(a) \cap DescribedTokens(a)
           at    == IF found = {} THEN "done" ELSE "insert"
<1>1. /\ tokenTask' = [tokenTask EXCEPT ![a].found = found, ![a].at = at]
      /\ tokenTask[a].at = "find"
      /\ UNCHANGED <<cards, chain, tokenCollections, tokenMetadata, tokenJob, halfCreated>>
  BY DEF FindTokenMetadata, OursOf, store, history
<1>2. found \subseteq Nat
  BY DescribedAreNumbers DEF Typed
<1>3. at \in {"done", "insert"} /\ (found # {} <=> at = "insert")
  OBVIOUS
<1>4. /\ tokenTask'[a].found = found /\ tokenTask'[a].at = at
      /\ \A b \in Addresses : b # a => tokenTask'[b] = tokenTask[b]
  <2> HIDE DEF found, at
  <2> QED BY <1>1 DEF Typed, TasksTyped, TaskRecords
<1>5. \A b : TokensOf(b)' = TokensOf(b) /\ OursOf(b)' = OursOf(b)
             /\ DescribedTokens(b)' = DescribedTokens(b)
  BY <1>1 DEF TokensOf, OursOf, TokensAt, DescribedTokens
<1>6. TokenTasksMeant'
  <2> SUFFICES ASSUME NEW b \in Addresses
               PROVE  /\ tokenTask'[b].found \subseteq OursOf(b)' \cap DescribedTokens(b)'
                      /\ tokenTask'[b].at = "done" => \A i \in tokenTask'[b].found : <<b, i>> \in cards'
    BY DEF TokenTasksMeant
  <2>1. CASE b = a
    BY <1>3, <1>4, <1>5, <2>1
  <2>2. CASE b # a
    <3> HIDE DEF found, at
    <3> QED BY <1>1, <1>4, <1>5, <2>2 DEF CardsOfTokens, TokenTasksMeant
  <2> QED BY <2>1, <2>2
<1>7. AllStarted'
  <2>1. tokenTask # NoTasks
    BY <1>1, NoTaskTyped DEF NoTasks
  <2> HIDE DEF found
  <2> QED BY <1>1, <1>3, <1>4, <1>5, <2>1 DEF CardsOfTokens, AllStarted
<1>8. NeverFilled'
  <2> SUFFICES ASSUME NEW b \in halfCreated
               PROVE  tokenJob = b /\ Hole'
    BY <1>1 DEF NeverFilled
  <2>1. tokenJob = b /\ Hole
    BY DEF CardsOfTokens, NeverFilled
  <2>2. PICK h \in Addresses : \E i \in OursOf(h) : MakesHole(h, i)
    BY <2>1 DEF Hole
  <2>3. PICK i \in OursOf(h) : MakesHole(h, i)
    BY <2>2
  <2>4. /\ <<h, i>> \in cards /\ tokenTask[h].at \in {"none", "find", "insert"}
        /\ tokenTask[h].at = "insert" => i \in tokenTask[h].found
    BY <2>3 DEF MakesHole
  <2>5. CASE h = a
    <3>1. i \in DescribedTokens(a)
      <4> DEFINE c == <<h, i>>
      <4>1. c \in cards /\ c[1] = a /\ c[2] = i
        BY <2>4, <2>5
      <4> HIDE DEF c
      <4> QED BY <4>1 DEF CardsOfTokens, CardsDescribed
    <3>2. i \in found /\ at = "insert"
      BY <2>4, <2>5, <3>1
    <3> QED BY <1>1, <1>4, <1>5, <2>1, <2>4, <2>5, <3>2 DEF Hole, MakesHole
  <2>6. CASE h # a
    <3> HIDE DEF found, at
    <3>1. tokenTask'[h] = tokenTask[h] /\ OursOf(h)' = OursOf(h)
      BY <1>4, <1>5, <2>6
    <3> QED BY <1>1, <2>1, <2>4, <3>1 DEF Hole, MakesHole
  <2> QED BY <2>5, <2>6
<1> QED BY <1>1, <1>6, <1>7, <1>8, CardsDescribedKept DEF CardsOfTokens

(* And cannot insert it again.                                             *)
LEMMA CreateCardsCards ==
    ASSUME Typed, CardsOfTokens, NEW a \in Addresses, CreateCards(a)
    PROVE  CardsOfTokens'
<1> DEFINE found == tokenTask[a].found
           twice == {i \in found : <<a, i>> \in cards}
           fresh == {i \in found : \A j \in twice : i < j}
<1>1. /\ tokenTask[a].at = "insert" /\ cards' = cards \cup {<<a, i>> : i \in fresh}
      /\ UNCHANGED <<chain, tokenCollections, tokenMetadata, tokenJob>>
  BY DEF CreateCards
<1>2. found \subseteq OursOf(a) \cap DescribedTokens(a)
  BY DEF CardsOfTokens, TokenTasksMeant
<1>3. \A b : TokensOf(b)' = TokensOf(b) /\ OursOf(b)' = OursOf(b)
             /\ DescribedTokens(b)' = DescribedTokens(b)
  BY <1>1 DEF TokensOf, OursOf, TokensAt, DescribedTokens
<1>4. CardsDescribed'
  <2> SUFFICES ASSUME NEW c \in cards'
               PROVE  /\ c \in Minted'
                      /\ c[2] \in DescribedTokens(c[1])'
                      /\ \E b \in DOMAIN chain' : \E t \in TokensAt(b)' :
                             <<t.address, t.identifier>> = c /\ t.uri = "ours"
    BY DEF CardsDescribed
  <2>1. CASE c \in cards
    BY <1>1, <2>1, CardsDescribedGrow, NothingGrows DEF CardsOfTokens, Typed, StoreTyped
  <2>2. CASE c \notin cards
    <3>1. PICK i \in found : c = <<a, i>>
      BY <1>1, <2>2
    <3>2. i \in OursOf(a) /\ i \in DescribedTokens(a)
      BY <1>2, <3>1
    <3>3. PICK t \in TokensAt(tokenJob) : t.address = a /\ t.identifier = i /\ t.uri = "ours"
      BY <3>2 DEF OursOf, TokensOf
    <3>4. tokenJob \in DOMAIN chain
      BY <3>3 DEF TokensAt
    <3>5. tokenJob \in DOMAIN chain' /\ t \in TokensAt(tokenJob)' /\ <<t.address, t.identifier>> = c
      BY <1>1, <3>1, <3>3, <3>4 DEF TokensAt
    <3>6. c \in Minted'
      <4>1. c \in {<<x.address, x.identifier>> : x \in TokensAt(tokenJob)'}
        BY <3>5
      <4> QED BY <1>1, <3>5, <4>1 DEF Minted
    <3>7. c[1] = a /\ c[2] = i
      BY <3>1
    <3>8. c[2] \in DescribedTokens(c[1])'
      BY <1>1, <3>2, <3>7 DEF DescribedTokens
    <3> QED BY <1>1, <3>3, <3>5, <3>6, <3>8
  <2> QED BY <2>1, <2>2
<1>5. CASE twice # {}
  <2>1. TokenInvocationEnds
    BY <1>5 DEF CreateCards
  <2> QED BY <1>1, <1>4, <2>1, InvocationEndsCards
<1>6. CASE twice = {}
  <2>1. tokenTask' = [tokenTask EXCEPT ![a].at = "done"] /\ UNCHANGED halfCreated
    BY <1>6 DEF CreateCards
  <2>2. /\ tokenTask'[a].found = found /\ tokenTask'[a].at = "done"
        /\ \A b \in Addresses : b # a => tokenTask'[b] = tokenTask[b]
    BY <2>1 DEF Typed, TasksTyped, TaskRecords
  <2>3. cards \subseteq cards' /\ \A i \in found : <<a, i>> \in cards'
    BY <1>1, <1>6
  <2> HIDE DEF found, twice, fresh
  <2>4. TokenTasksMeant'
    <3> SUFFICES ASSUME NEW b \in Addresses
                 PROVE  /\ tokenTask'[b].found \subseteq OursOf(b)' \cap DescribedTokens(b)'
                        /\ tokenTask'[b].at = "done" => \A i \in tokenTask'[b].found : <<b, i>> \in cards'
      BY DEF TokenTasksMeant
    <3>1. CASE b = a
      BY <1>2, <1>3, <2>2, <2>3, <3>1
    <3>2. CASE b # a
      BY <1>3, <2>2, <2>3, <3>2 DEF CardsOfTokens, TokenTasksMeant
    <3> QED BY <3>1, <3>2
  <2>5. AllStarted'
    <3>1. tokenTask # NoTasks
      BY <1>1, NoTaskTyped DEF NoTasks
    <3> QED BY <1>1, <1>3, <2>2, <3>1 DEF CardsOfTokens, AllStarted
  <2>6. NeverFilled'
    <3> SUFFICES ASSUME NEW b \in halfCreated
                 PROVE  tokenJob = b /\ Hole'
      BY <1>1, <2>1 DEF NeverFilled
    <3>1. tokenJob = b /\ Hole
      BY DEF CardsOfTokens, NeverFilled
    <3>2. PICK h \in Addresses : \E i \in OursOf(h) : MakesHole(h, i)
      BY <3>1 DEF Hole
    <3>3. PICK i \in OursOf(h) : MakesHole(h, i)
      BY <3>2
    <3>4. /\ <<h, i>> \in cards /\ tokenTask[h].at \in {"none", "find", "insert"}
          /\ tokenTask[h].at = "insert" => i \in tokenTask[h].found
      BY <3>3 DEF MakesHole
    <3>5. h # a
      BY <1>1, <1>6, <3>4 DEF twice, found
    <3>6. tokenTask'[h] = tokenTask[h] /\ OursOf(h)' = OursOf(h) /\ <<h, i>> \in cards'
      BY <1>3, <2>2, <2>3, <3>4, <3>5
    <3> QED BY <3>1, <3>4, <3>6 DEF Hole, MakesHole
  <2> QED BY <1>4, <2>4, <2>5, <2>6 DEF CardsOfTokens
<1> QED BY <1>5, <1>6

LEMMA TokenListenerCards ==
    ASSUME Typed, CardsOfTokens, TokenListener \/ TokenListenerFails
    PROVE  CardsOfTokens'
<1>1. ASSUME TokenListenerFails \/ \E a \in Addresses : TokenUriThrows(a)
      PROVE  CardsOfTokens'
  <2>1. /\ TokenInvocationEnds
        /\ UNCHANGED <<cards, chain, tokenCollections, tokenMetadata, tokenJob>>
    BY <1>1 DEF TokenListenerFails, TokenUriThrows, store
  <2> QED BY <2>1, InvocationEndsCards, CardsDescribedKept
<1> QED BY <1>1, StartTokensCards, IncreaseTokenJobCards, FindTokenMetadataCards, CreateCardsCards
        DEF TokenListener, TokenTask

LEMMA OthersCards ==
    ASSUME Typed, Attachments, CardsOfTokens,
           \/ \E blk \in BlockChoices : NewBlock(blk)
           \/ \E r \in Requests : Request(r) \/ RequestFails(r)
           \/ ContractListener \/ ContractListenerFails
           \/ UNCHANGED vars
    PROVE  CardsOfTokens'
<1>1. CASE \E blk \in BlockChoices : NewBlock(blk)
  <2>1. UNCHANGED <<cards, tokenTask, tokenJob, halfCreated, tokenCollections, tokenMetadata>>
    BY <1>1 DEF NewBlock, store, history
  <2> QED BY <1>1, <2>1, ChainStep, DescribedUntouched, CardsKept
<1>2. CASE \E r \in Requests : Request(r) \/ RequestFails(r)
  <2>1. PICK r \in Requests : Request(r) \/ RequestFails(r)
    BY <1>2
  <2>2. UNCHANGED <<cards, tokenTask, tokenJob, halfCreated, chain>>
    BY <2>1 DEF Request, RequestFails, StoreContractMetadata, StoreTokenMetadata, UpdateCollection,
                CreateMetadata, GetNextTokenIdentifier, CreateTokenMetadata, RemoveLogo,
                UpdateMetadata, UpdateTokenCollection, store, history
  <2>3. DescribedGrow
    <3>1. CASE CreateTokenMetadata(r)
      BY <3>1, CreateTokenMetadataDescribes
    <3>2. CASE UpdateTokenCollection(r)
      BY <3>2, CollectionStepDescribes
    <3>3. CASE ~CreateTokenMetadata(r) /\ ~UpdateTokenCollection(r)
      <4>1. UNCHANGED <<tokenCollections, tokenMetadata>>
        BY <2>1, <3>3
           DEF Request, RequestFails, StoreContractMetadata, StoreTokenMetadata, UpdateCollection,
               CreateMetadata, GetNextTokenIdentifier, RemoveLogo, UpdateMetadata, store
      <4> QED BY <4>1, DescribedUntouched
    <3> QED BY <3>1, <3>2, <3>3
  <2> QED BY <2>2, <2>3, ChainStep, CardsKept
<1>3. CASE ContractListener \/ ContractListenerFails \/ UNCHANGED vars
  <2>1. UNCHANGED <<cards, tokenTask, tokenJob, halfCreated, chain>>
    BY <1>3 DEF ContractListener, ContractListenerFails, StartContracts, IncreaseContractJob,
                ContractTask, FindContractMetadata, CreateCollection, AttachTokenCollection,
                store, history, vars
  <2>2. DescribedGrow
    <3>1. CASE \E a \in Addresses : CreateCollection(a)
      BY <3>1, CollectionStepDescribes
    <3>2. CASE ~\E a \in Addresses : CreateCollection(a)
      <4>1. UNCHANGED <<tokenCollections, tokenMetadata>>
        BY <1>3, <3>2
           DEF ContractListener, ContractListenerFails, StartContracts, IncreaseContractJob,
               ContractTask, FindContractMetadata, AttachTokenCollection, store, vars
      <4> QED BY <4>1, DescribedUntouched
    <3> QED BY <3>1, <3>2
  <2> QED BY <2>1, <2>2, ChainStep, CardsKept
<1> QED BY <1>1, <1>2, <1>3

(* For any blocks, in any interleaving of tasks, requests and failures:    *)
(* only a minted token of the marketplace, with its metadata stored for    *)
(* the collection of its contract, becomes a card, and the listener never  *)
(* passes a block it has half created.                                     *)
THEOREM CardsStaySound == Spec => []CardsSound
<1> DEFINE Inv == IInv /\ Typed /\ Attachments /\ CardsOfTokens
<1>1. Init => Inv
  BY InitHolds, InitTyped, InitAttachments, InitCards
<1>2. Inv /\ [Next]_vars => Inv'
  <2> SUFFICES ASSUME Inv, [Next]_vars PROVE Inv'
    OBVIOUS
  <2>1. IInv' /\ Typed' /\ Attachments'
    BY NextKeeps, NextTyped, NextAttachments
  <2>2. CardsOfTokens'
    BY TokenListenerCards, OthersCards DEF Next, Failure
  <2> QED BY <2>1, <2>2
<1>3. Inv => CardsSound
  BY DEF CardsSound, CardsOfTokens, HalfCreatedNeverPassed, NeverFilled
<1> QED BY <1>1, <1>2, <1>3, PTL DEF Spec

-----------------------------------------------------------------------------
(* Updates of a logo.  Who holds a logo, and that it was uploaded.         *)
LEMMA RequestClaims ==
    ASSUME Typed, NEW r \in Requests, NEW l \in Nat, l \in {req[r].logo, req[r].old}
    PROVE  req[r].slug \in Slugs /\ Claims(req[r].slug, l)
<1>1. req[r].op # "idle"
  BY NamesAssumption DEF Typed, RequestsTyped, UpdateOps
<1> QED BY <1>1 DEF Typed, RequestsTyped, Claims

LEMMA LogoOfRequest ==
    ASSUME Typed, NEW r \in Requests
    PROVE  /\ req[r].logo \in Logos /\ req[r].old \in Logos
           /\ req[r].op \in UpdateOps => req[r].slug \in Slugs
           /\ req[r].logo # NoLogo => req[r].logo \in Nat /\ req[r].slug \in Slugs
           /\ req[r].old # NoLogo => req[r].old \in Nat /\ req[r].slug \in Slugs
<1>1. req[r] \in RequestRecords
  BY DEF Typed, RequestsTyped
<1> QED BY <1>1 DEF Typed, RequestsTyped, RequestRecords, UpdateOps, Logos

LEMMA LogoOfMetadata ==
    ASSUME Typed, NEW s \in Slugs, contractMetadata[s] # None
    PROVE  contractMetadata[s] \in MetadataDocs /\ contractMetadata[s].logo \in Logos
BY DEF Typed, StoreTyped, MetadataDocs, Logos

LEMMA LogoOfCollection ==
    ASSUME Typed, NEW s \in Slugs, NEW a \in CollectionsOf(s)
    PROVE  /\ a \in Addresses /\ tokenCollections[a] \in CollectionDocs
           /\ tokenCollections[a].logo \in Logos
BY DEF CollectionsOf, Typed, StoreTyped, CollectionDocs, Logos

(* A claim that is new is one on a logo that was just uploaded.            *)
LEMMA OneOwnerKept ==
    ASSUME Typed, OneOwner, NEW x, uploads' \in {uploads, uploads + 1},
           \A s \in Slugs, l \in Nat :
               Claims(s, l)' => \/ Claims(s, l)
                                \/ s = x /\ l = uploads + 1 /\ uploads' = uploads + 1
    PROVE  OneOwner'
<1>1. uploads \in Nat
  BY DEF Typed, StoreTyped
<1>2. \A s \in Slugs, l \in Nat : Claims(s, l)' => l \in 1..uploads'
  BY <1>1 DEF OneOwner
<1>3. \A s, t \in Slugs, l \in Nat : Claims(s, l)' /\ Claims(t, l)' => s = t
  <2> SUFFICES ASSUME NEW s \in Slugs, NEW t \in Slugs, NEW l \in Nat,
                      Claims(s, l)', Claims(t, l)'
               PROVE  s = t
    OBVIOUS
  <2>1. /\ Claims(s, l) \/ (s = x /\ l = uploads + 1)
        /\ Claims(t, l) \/ (t = x /\ l = uploads + 1)
    OBVIOUS
  <2>2. CASE l = uploads + 1
    <3>1. ~Claims(s, l) /\ ~Claims(t, l)
      BY <1>1, <2>2 DEF OneOwner
    <3> QED BY <2>1, <3>1
  <2>3. CASE l # uploads + 1
    BY <2>1, <2>3 DEF OneOwner
  <2> QED BY <2>2, <2>3
<1> QED BY <1>2, <1>3 DEF OneOwner

(* A step that writes no logo: the requests stay as they are as far as     *)
(* logos go, or are done with theirs.                                      *)
SameLogos(r) ==
    /\ req'[r].op = req[r].op /\ req'[r].slug = req[r].slug
    /\ req'[r].logo = req[r].logo /\ req'[r].old = req[r].old

NoLogos(r) ==
    /\ req'[r].logo = NoLogo /\ req'[r].old = NoLogo /\ req'[r].op \notin UpdateOps
    /\ req[r].op \in {"updateMetadata", "updateCollection"} => req[r].slug \in halfUpdated'

CopiesLogo(a) ==
    \/ /\ contractTask[a].at = "create"
       /\ contractTask'[a].slug = contractTask[a].slug
       /\ contractTask'[a].logo = contractTask[a].logo
    \/ /\ contractMetadata[contractTask'[a].slug] # None
       /\ contractTask'[a].logo = contractMetadata[contractTask'[a].slug].logo

LogosKept ==
    /\ UNCHANGED <<tokenCollections, files, uploads, overlapped>>
    /\ halfUpdated \subseteq halfUpdated'
    /\ \A s \in Slugs :
         /\ contractMetadata'[s] # None <=> contractMetadata[s] # None
         /\ contractMetadata[s] # None => contractMetadata'[s].logo = contractMetadata[s].logo
    /\ \A a \in Addresses :
         contractTask'[a].at = "create" /\ contractTask'[a].slug \in Slugs => CopiesLogo(a)
    /\ \A r \in Requests : SameLogos(r) \/ NoLogos(r)

LEMMA UpdatesKeptByOthers ==
    ASSUME Typed, Typed', Attachments, Updates, LogosKept
    PROVE  Updates'
<1> USE DEF Updates
<1>1. \A s : CollectionsOf(s)' = CollectionsOf(s)
  BY DEF LogosKept, CollectionsOf
<1>2. \A r \in Requests : req'[r].logo # NoLogo \/ req'[r].old # NoLogo \/ req'[r].op \in UpdateOps
                             => SameLogos(r)
  BY DEF LogosKept, NoLogos
<1>3. OneOwner'
  <2>1. ASSUME NEW s \in Slugs, NEW l \in Nat, Claims(s, l)'
        PROVE  Claims(s, l)
    <3>1. CASE contractMetadata'[s] # None /\ contractMetadata'[s].logo = l
      BY <3>1 DEF LogosKept, Claims
    <3>2. CASE \E a \in CollectionsOf(s) : tokenCollections'[a].logo = l
      BY <3>2 DEF LogosKept, Claims
    <3>3. CASE \E r \in Requests : req'[r].slug = s /\ l \in {req'[r].logo, req'[r].old}
      <4>1. PICK r \in Requests : req'[r].slug = s /\ l \in {req'[r].logo, req'[r].old}
        BY <3>3
      <4>2. SameLogos(r)
        BY <1>2, <4>1, NamesAssumption
      <4> QED BY <4>1, <4>2 DEF SameLogos, Claims
    <3>4. CASE \E a \in Addresses : /\ contractTask'[a].at = "create"
                                    /\ contractTask'[a].slug = s /\ contractTask'[a].logo = l
      BY <3>4 DEF LogosKept, CopiesLogo, Claims
    <3> QED BY <1>1, <2>1, <3>1, <3>2, <3>3, <3>4 DEF Claims
  <2>2. uploads' \in {uploads, uploads + 1}
    BY DEF LogosKept
  <2> QED BY <2>1, <2>2, OneOwnerKept
<1>4. FreshLogos'
  <2> SUFFICES ASSUME NEW r \in Requests, req'[r].logo # NoLogo
               PROVE  /\ req'[r].logo \in files'
                      /\ \A q \in Requests : req'[q].old # req'[r].logo
                                             /\ (q # r => req'[q].logo # req'[r].logo)
                      /\ \A s \in Slugs :
                           /\ \A a \in CollectionsOf(s)' : tokenCollections'[a].logo # req'[r].logo
                           /\ contractMetadata'[s] # None /\ contractMetadata'[s].logo = req'[r].logo
                                => req'[r].op = "updateCollection"
    BY DEF FreshLogos
  <2>1. SameLogos(r)
    BY <1>2
  <2>2. \A q \in Requests : req'[q].old # req'[r].logo /\ (q # r => req'[q].logo # req'[r].logo)
    BY <1>2, <2>1 DEF SameLogos, FreshLogos
  <2>3. \A s \in Slugs : \A a \in CollectionsOf(s)' : tokenCollections'[a].logo # req'[r].logo
    BY <1>1, <2>1 DEF SameLogos, FreshLogos, LogosKept
  <2>4. \A s \in Slugs : contractMetadata'[s] # None /\ contractMetadata'[s].logo = req'[r].logo
                                => req'[r].op = "updateCollection"
    BY <2>1 DEF SameLogos, FreshLogos, LogosKept
  <2>5. req'[r].logo \in files'
    BY <2>1 DEF SameLogos, FreshLogos, LogosKept
  <2> QED BY <2>2, <2>3, <2>4, <2>5
<1>5. TasksUpToDate'
  <2> SUFFICES ASSUME NEW a \in Addresses, contractTask'[a].at = "create",
                      contractTask'[a].slug # NoSlug,
                      CollectionsOf(contractTask[a].slug)' = {}
               PROVE  contractTask'[a].logo = contractMetadata'[contractTask'[a].slug].logo
    BY DEF TasksUpToDate
  <2> DEFINE s == contractTask'[a].slug
  <2>1. s \in Slugs
    BY DEF Typed, TasksTyped, TaskRecords
  <2>2. CollectionsOf(s) = {}
    BY DEF CollectionsOf, LogosKept
  <2>3. CopiesLogo(a)
    BY <2>1 DEF LogosKept
  <2>4. contractMetadata[s] # None /\ contractTask'[a].logo = contractMetadata[s].logo
    BY <2>1, <2>2, <2>3, NamesAssumption DEF CopiesLogo, TasksUpToDate, Attachments, MetadataBehind
  <2> QED BY <2>1, <2>4 DEF LogosKept
<1>6. \A s \in Slugs, ops \in SUBSET {"updateMetadata", "updateCollection"} :
         Overwriting(s, ops) => s \in halfUpdated' \/ Overwriting(s, ops)'
  BY DEF Overwriting, LogosKept, SameLogos, NoLogos
<1>7. StoredOrOverwritten'
  <2> SUFFICES ASSUME NEW s \in Slugs, s \notin halfUpdated'
               PROVE  /\ \/ contractMetadata'[s] = None
                         \/ contractMetadata'[s].logo \in files' \cup {NoLogo}
                         \/ Overwriting(s, {"updateMetadata"})'
                      /\ \A a \in CollectionsOf(s)' :
                           \/ tokenCollections'[a].logo \in files' \cup {NoLogo}
                           \/ Overwriting(s, {"updateMetadata", "updateCollection"})'
    BY DEF StoredOrOverwritten
  <2>1. s \notin halfUpdated
    BY DEF LogosKept
  <2>2. /\ Overwriting(s, {"updateMetadata"}) => Overwriting(s, {"updateMetadata"})'
        /\ Overwriting(s, {"updateMetadata", "updateCollection"})
             => Overwriting(s, {"updateMetadata", "updateCollection"})'
    BY <1>6
  <2>3. \/ contractMetadata[s] = None \/ contractMetadata[s].logo \in files \cup {NoLogo}
        \/ Overwriting(s, {"updateMetadata"})
    BY <2>1 DEF StoredOrOverwritten
  <2>4. \A a \in CollectionsOf(s) :
           \/ tokenCollections[a].logo \in files \cup {NoLogo}
           \/ Overwriting(s, {"updateMetadata", "updateCollection"})
    BY <2>1 DEF StoredOrOverwritten
  <2> QED BY <1>1, <2>2, <2>3, <2>4 DEF LogosKept
<1>8. OneUpdate'
  BY <1>2 DEF OneUpdate, SameLogos, LogosKept
<1>9. MetadataWritten'
  <2> SUFFICES ASSUME NEW r \in Requests, req'[r].op = "updateCollection",
                      req'[r].logo # NoLogo, req'[r].slug \notin overlapped'
               PROVE  contractMetadata'[req'[r].slug].logo = req'[r].logo
    BY DEF MetadataWritten
  <2>1. SameLogos(r)
    BY <1>2
  <2>2. req[r].slug \in Slugs /\ contractMetadata[req[r].slug] # None
    BY <2>1, LogoOfRequest, NamesAssumption
       DEF SameLogos, Attachments, MetadataBehind, CollectionsOf, UpdateOps
  <2> QED BY <2>1, <2>2 DEF SameLogos, MetadataWritten, LogosKept
<1>10. AgreeOrOverwritten'
  <2> SUFFICES ASSUME NEW s \in Slugs, s \notin overlapped', s \notin halfUpdated',
                      NEW a \in CollectionsOf(s)
               PROVE  \/ contractMetadata'[s].logo = tokenCollections'[a].logo
                      \/ Overwriting(s, {"updateCollection"})'
    BY <1>1 DEF AgreeOrOverwritten
  <2>1. contractMetadata[s].logo = tokenCollections[a].logo \/ Overwriting(s, {"updateCollection"})
    BY DEF AgreeOrOverwritten, LogosKept
  <2>2. contractMetadata[s] # None
    BY NamesAssumption DEF Attachments, MetadataBehind, CollectionsOf
  <2> QED BY <1>6, <2>1, <2>2 DEF LogosKept
<1> QED BY <1>3, <1>4, <1>5, <1>7, <1>8, <1>9, <1>10

LEMMA InitUpdates == Init => Updates
<1> SUFFICES ASSUME Init PROVE Updates
  OBVIOUS
<1>1. \A s \in Slugs : contractMetadata[s] = None
  BY DEF Init
<1>2. \A s : CollectionsOf(s) = {}
  BY DEF Init, CollectionsOf
<1>3. \A r \in Requests : req[r].op = "idle" /\ req[r].logo = NoLogo /\ req[r].old = NoLogo
  BY DEF Init, NoReq
<1>4. \A a \in Addresses : contractTask[a].at = "none"
  BY DEF Init, NoTasks, NoTask
<1>5. \A s \in Slugs, l \in Nat : ~Claims(s, l)
  BY <1>1, <1>2, <1>3, <1>4, NamesAssumption DEF Claims
<1>6. OneOwner /\ FreshLogos /\ TasksUpToDate
  BY <1>3, <1>4, <1>5 DEF OneOwner, FreshLogos, TasksUpToDate
<1>7. StoredOrOverwritten /\ OneUpdate /\ MetadataWritten /\ AgreeOrOverwritten
  BY <1>1, <1>2, <1>3 DEF StoredOrOverwritten, OneUpdate, MetadataWritten, AgreeOrOverwritten,
                          UpdateOps
<1> QED BY <1>6, <1>7 DEF Updates

LEMMA RequestDone ==
    ASSUME Typed, NEW r \in Requests, NEW q, req' = [req EXCEPT ![r] = q],
           q.logo = NoLogo, q.old = NoLogo, q.op \notin UpdateOps,
           req[r].op \in {"updateMetadata", "updateCollection"} => req[r].slug \in halfUpdated'
    PROVE  \A x \in Requests : SameLogos(x) \/ NoLogos(x)
<1>1. \A x \in Requests : req'[x] = IF x = r THEN q ELSE req[x]
  BY DEF Typed, RequestsTyped
<1> QED BY <1>1 DEF SameLogos, NoLogos

(* The requests that begin or end without an update of a collection.       *)
LEMMA RequestKeepsLogos ==
    ASSUME Typed, NEW r \in Requests,
           \/ \E u \in Users, a \in Addresses : StoreTokenMetadata(r, u, a)
           \/ GetNextTokenIdentifier(r) \/ CreateTokenMetadata(r) \/ RequestFails(r)
           \/ CreateMetadata(r) /\ UNCHANGED contractMetadata
    PROVE  LogosKept
<1>1. /\ UNCHANGED <<contractMetadata, tokenCollections, files, uploads, contractTask, overlapped>>
      /\ halfUpdated \subseteq halfUpdated'
  BY DEF StoreTokenMetadata, GetNextTokenIdentifier, CreateTokenMetadata, RequestFails,
         CreateMetadata, store, history
<1>2. \A x \in Requests : SameLogos(x) \/ NoLogos(x)
  <2>1. NoReq.logo = NoLogo /\ NoReq.old = NoLogo /\ NoReq.op \notin UpdateOps
    BY DEF NoReq, UpdateOps
  <2>2. CASE \E u \in Users, a \in Addresses : StoreTokenMetadata(r, u, a)
    <3>1. PICK a \in Addresses : \E u \in Users : StoreTokenMetadata(r, u, a)
      BY <2>2
    <3> DEFINE q == [NoReq EXCEPT !.op = "nextIdentifier", !.slug = tokenCollections[a].slug]
    <3>2. req[r].op = "idle" /\ req' = [req EXCEPT ![r] = q]
      BY <3>1 DEF StoreTokenMetadata
    <3>3. q.logo = NoLogo /\ q.old = NoLogo /\ q.op \notin UpdateOps
      BY DEF NoReq, UpdateOps
    <3> HIDE DEF q
    <3> QED BY <3>2, <3>3, RequestDone
  <2>3. CASE GetNextTokenIdentifier(r)
    <3> DEFINE q == [req[r] EXCEPT !.op = "createToken",
                                   !.id = NextTokenIdentifier(req[r].slug)]
    <3>1. req[r].op = "nextIdentifier" /\ req' = [req EXCEPT ![r] = q]
      BY <2>3 DEF GetNextTokenIdentifier
    <3>2. req[r].logo = NoLogo /\ req[r].old = NoLogo /\ req[r] \in RequestRecords
      BY <3>1 DEF Typed, RequestsTyped, UpdateOps
    <3>3. q.logo = NoLogo /\ q.old = NoLogo /\ q.op \notin UpdateOps
      BY <3>2 DEF RequestRecords, UpdateOps
    <3> HIDE DEF q
    <3> QED BY <3>1, <3>3, RequestDone
  <2>4. CASE CreateTokenMetadata(r) \/ CreateMetadata(r) \/ RequestFails(r)
    <3>1. req' = [req EXCEPT ![r] = NoReq]
      BY <2>4 DEF CreateTokenMetadata, CreateMetadata, RequestFails, Answered
    <3>2. req[r].op \in {"updateMetadata", "updateCollection"} => req[r].slug \in halfUpdated'
      BY <2>4 DEF CreateTokenMetadata, CreateMetadata, RequestFails
    <3> QED BY <2>1, <3>1, <3>2, RequestDone
  <2> QED BY <2>2, <2>3, <2>4
<1>3. \A a \in Addresses :
         contractTask'[a].at = "create" /\ contractTask'[a].slug \in Slugs => CopiesLogo(a)
  BY <1>1 DEF CopiesLogo
<1> QED BY <1>1, <1>2, <1>3 DEF LogosKept

(* The contract listener, up to a collection that is created.              *)
LEMMA ContractListenerKeepsLogos ==
    ASSUME Typed, Attachments,
           \/ StartContracts \/ IncreaseContractJob \/ ContractListenerFails
           \/ \E a \in Addresses : \/ FindContractMetadata(a) \/ AttachTokenCollection(a)
                                   \/ CreateCollection(a) /\ UNCHANGED tokenCollections
    PROVE  LogosKept
<1>1. /\ UNCHANGED <<tokenCollections, files, uploads, overlapped, req>>
      /\ halfUpdated \subseteq halfUpdated'
  BY DEF StartContracts, IncreaseContractJob, ContractListenerFails, FindContractMetadata,
         AttachTokenCollection, CreateCollection, store, history
<1>2. \A x \in Requests : SameLogos(x) \/ NoLogos(x)
  BY <1>1 DEF SameLogos
<1>3. \A s \in Slugs :
         /\ contractMetadata'[s] # None <=> contractMetadata[s] # None
         /\ contractMetadata[s] # None => contractMetadata'[s].logo = contractMetadata[s].logo
  <2>1. CASE \E a \in Addresses : AttachTokenCollection(a)
    <3>1. PICK a \in Addresses : AttachTokenCollection(a)
      BY <2>1
    <3> DEFINE x   == contractTask[a].slug
               doc == [contractMetadata[x] EXCEPT !.tokenCollection = a]
    <3>2. x \in Slugs /\ contractMetadata[x] # None
      BY <3>1, NamesAssumption
         DEF AttachTokenCollection, Attachments, Attaching, MetadataBehind
    <3>3. contractMetadata[x] \in MetadataDocs /\ doc \in MetadataDocs
          /\ doc.logo = contractMetadata[x].logo
      BY <3>2, LogoOfMetadata DEF MetadataDocs
    <3>4. contractMetadata' = [contractMetadata EXCEPT ![x] = doc]
      BY <3>1 DEF AttachTokenCollection
    <3>5. doc # None
      BY <3>3, DocsAssumption
    <3> HIDE DEF doc
    <3> QED BY <3>2, <3>3, <3>4, <3>5 DEF Typed, StoreTyped
  <2>2. CASE ~\E a \in Addresses : AttachTokenCollection(a)
    <3>1. UNCHANGED contractMetadata
      BY <2>2 DEF StartContracts, IncreaseContractJob, ContractListenerFails,
                  FindContractMetadata, CreateCollection, store
    <3> QED BY <3>1
  <2> QED BY <2>1, <2>2
<1>4. \A a \in Addresses :
         contractTask'[a].at = "create" /\ contractTask'[a].slug \in Slugs => CopiesLogo(a)
  <2>1. CASE StartContracts
    <3> DEFINE task == [NoTask EXCEPT !.at = "find"]
    <3>1. task.at = "find"
      BY DEF NoTask
    <3>2. contractTask' = [a \in Addresses |->
             IF \E e \in ContractsAt(contractJob) : e.address = a THEN task ELSE NoTask]
      BY <2>1 DEF StartContracts
    <3> HIDE DEF task
    <3> QED BY <3>1, <3>2, NoTaskTyped
  <2>2. CASE IncreaseContractJob \/ ContractListenerFails
    BY <2>2, NoTaskTyped DEF IncreaseContractJob, ContractListenerFails, NoTasks
  <2>3. CASE \E a \in Addresses : FindContractMetadata(a)
    <3>1. PICK a \in Addresses : FindContractMetadata(a)
      BY <2>3
    <3> DEFINE uri  == ContractEvent(a).uri
               task == CASE uri.kind = "none" -> [NoTask EXCEPT !.at = "create"]
                         [] uri.kind = "ours" /\ FindMetadata(uri.user, uri.slug) ->
                              [NoTask EXCEPT !.at = "create", !.slug = uri.slug,
                                             !.logo = contractMetadata[uri.slug].logo]
                         [] OTHER -> [NoTask EXCEPT !.at = "done"]
    <3>2. contractTask' = [contractTask EXCEPT ![a] = task]
      BY <3>1 DEF FindContractMetadata
    <3>3. task.at = "create" /\ task.slug \in Slugs =>
             contractMetadata[task.slug] # None /\ task.logo = contractMetadata[task.slug].logo
      <4>1. CASE uri.kind = "none"
        BY <4>1, NamesAssumption DEF NoTask
      <4>2. CASE uri.kind = "ours" /\ FindMetadata(uri.user, uri.slug)
        BY <4>2 DEF NoTask, FindMetadata
      <4>3. CASE uri.kind # "none" /\ ~(uri.kind = "ours" /\ FindMetadata(uri.user, uri.slug))
        BY <4>3 DEF NoTask
      <4> QED BY <4>1, <4>2, <4>3
    <3> HIDE DEF task
    <3>4. \A b \in Addresses : contractTask'[b] = IF b = a THEN task ELSE contractTask[b]
      BY <3>2 DEF Typed, TasksTyped
    <3> QED BY <3>3, <3>4 DEF CopiesLogo
  <2>4. CASE \E a \in Addresses : \/ AttachTokenCollection(a)
                                  \/ CreateCollection(a) /\ UNCHANGED tokenCollections
    <3>1. PICK a \in Addresses : \/ AttachTokenCollection(a)
                                 \/ CreateCollection(a) /\ UNCHANGED tokenCollections
      BY <2>4
    <3>2. \A b \in Addresses \ {a} : contractTask'[b] = contractTask[b]
      BY <3>1 DEF AttachTokenCollection, CreateCollection, Typed, TasksTyped
    <3>3. contractTask'[a].at # "create"
      <4>1. contractTask[a] \in TaskRecords({"none", "find", "create", "attach", "done"})
        BY DEF Typed, TasksTyped
      <4>2. \/ contractTask' = [contractTask EXCEPT ![a].at = "done"]
            \/ contractTask' = [contractTask EXCEPT ![a].at = "attach"]
        BY <3>1 DEF AttachTokenCollection, CreateCollection
      <4> QED BY <4>1, <4>2 DEF Typed, TasksTyped, TaskRecords
    <3> QED BY <3>2, <3>3 DEF CopiesLogo
  <2> QED BY <2>1, <2>2, <2>3, <2>4
<1> QED BY <1>1, <1>2, <1>3, <1>4 DEF LogosKept

LEMMA OthersKeepLogos ==
    ASSUME \/ \E blk \in BlockChoices : NewBlock(blk)
           \/ TokenListener \/ TokenListenerFails \/ UNCHANGED vars
    PROVE  LogosKept
<1>1. UNCHANGED <<contractMetadata, tokenCollections, files, uploads, contractTask, req,
                  overlapped, halfUpdated>>
  <2>1. CASE \E blk \in BlockChoices : NewBlock(blk)
    BY <2>1 DEF NewBlock, store, history
  <2>2. CASE TokenListener
    BY <2>2 DEF TokenListener, StartTokens, IncreaseTokenJob, TokenTask, FindTokenMetadata,
                TokenUriThrows, CreateCards, store, history
  <2>3. CASE TokenListenerFails \/ UNCHANGED vars
    BY <2>3 DEF TokenListenerFails, store, history, vars
  <2> QED BY <2>1, <2>2, <2>3
<1> QED BY <1>1 DEF LogosKept, SameLogos, CopiesLogo

(* A request begins: it may have uploaded a logo, which is nobody else's.  *)
LEMMA BeginningUpdates ==
    ASSUME Typed, Typed', Attachments, Updates, NEW r \in Requests, NEW q,
           req[r].op = "idle", req' = [req EXCEPT ![r] = q], q.slug \in Slugs,
           UNCHANGED <<contractMetadata, tokenCollections, contractTask, halfUpdated>>,
           \/ q.logo = NoLogo /\ UNCHANGED <<files, uploads>>
           \/ q.logo = uploads + 1 /\ uploads' = uploads + 1 /\ files' = files \cup {uploads + 1},
           q.old = NoLogo \/ \E a \in CollectionsOf(q.slug) : tokenCollections[a].logo = q.old,
           q.op \in {"createMetadata", "removeLogo", "updateMetadata"},
           overlapped \subseteq overlapped',
           q.op \in UpdateOps /\ Updating(q.slug) => q.slug \in overlapped'
    PROVE  Updates'
<1> USE DEF Updates
<1>1. \A x \in Requests : req'[x] = IF x = r THEN q ELSE req[x]
  BY DEF Typed, RequestsTyped
<1>2. \A s : CollectionsOf(s)' = CollectionsOf(s)
  BY DEF CollectionsOf
<1>3. uploads \in Nat /\ uploads + 1 # NoLogo /\ files \subseteq files'
  BY NamesAssumption DEF Typed, StoreTyped
<1>4. req[r].logo = NoLogo /\ req[r].old = NoLogo
  BY DEF Typed, RequestsTyped, UpdateOps
<1>5. \A s \in Slugs, l \in Nat :
         Claims(s, l)' => \/ Claims(s, l)
                          \/ s = q.slug /\ l = uploads + 1 /\ uploads' = uploads + 1
  <2> SUFFICES ASSUME NEW s \in Slugs, NEW l \in Nat, Claims(s, l)', ~Claims(s, l)
               PROVE  s = q.slug /\ l = uploads + 1 /\ uploads' = uploads + 1
    OBVIOUS
  <2>1. PICK x \in Requests : req'[x].slug = s /\ l \in {req'[x].logo, req'[x].old}
    BY <1>2 DEF Claims
  <2>2. x = r
    BY <1>1, <2>1 DEF Claims
  <2>3. l # NoLogo
    BY NamesAssumption
  <2> QED BY <1>1, <2>1, <2>2, <2>3 DEF Claims
<1>6. OneOwner'
  BY <1>5, OneOwnerKept
<1>7. FreshLogos'
  <2>1. \A s \in Slugs, l \in Nat : Claims(s, l) => l # uploads + 1
    BY <1>3 DEF OneOwner
  <2>2. \A x \in Requests : req[x].logo # uploads + 1 /\ req[x].old # uploads + 1
    BY <1>3, <2>1, RequestClaims
  <2>3. \A s \in Slugs :
           /\ \A a \in CollectionsOf(s) : tokenCollections[a].logo # uploads + 1
           /\ contractMetadata[s] # None => contractMetadata[s].logo # uploads + 1
    BY <1>3, <2>1 DEF Claims
  <2>4. q.old # uploads + 1
    BY <1>3, <2>3
  <2> SUFFICES ASSUME NEW x \in Requests, req'[x].logo # NoLogo
               PROVE  /\ req'[x].logo \in files'
                      /\ \A y \in Requests : req'[y].old # req'[x].logo
                                             /\ (y # x => req'[y].logo # req'[x].logo)
                      /\ \A s \in Slugs :
                           /\ \A a \in CollectionsOf(s)' : tokenCollections'[a].logo # req'[x].logo
                           /\ contractMetadata'[s] # None /\ contractMetadata'[s].logo = req'[x].logo
                                => req'[x].op = "updateCollection"
    BY DEF FreshLogos
  <2>5. CASE x = r
    <3>1. req'[x].logo = uploads + 1 /\ uploads + 1 \in files'
      BY <1>1, <2>5
    <3>2. \A y \in Requests : req'[y].old # uploads + 1 /\ (y # x => req'[y].logo # uploads + 1)
      BY <1>1, <2>2, <2>4, <2>5
    <3> QED BY <1>2, <2>3, <3>1, <3>2
  <2>6. CASE x # r
    <3>1. req'[x] = req[x] /\ req[x].logo \in files
      BY <1>1, <2>6 DEF FreshLogos
    <3>2. q.logo # req[x].logo /\ q.old # req[x].logo
      BY <2>2, <2>6, <3>1 DEF FreshLogos
    <3>3. \A y \in Requests : req'[y].old # req[x].logo /\ (y # x => req'[y].logo # req[x].logo)
      BY <1>1, <3>1, <3>2 DEF FreshLogos
    <3> QED BY <1>2, <1>3, <3>1, <3>3 DEF FreshLogos
  <2> QED BY <2>5, <2>6
<1>8. TasksUpToDate'
  BY <1>2 DEF TasksUpToDate
<1>9. \A s \in Slugs, ops \in SUBSET {"updateMetadata", "updateCollection"} :
         Overwriting(s, ops) => Overwriting(s, ops)'
  BY <1>1, <1>4 DEF Overwriting
<1>10. StoredOrOverwritten'
  <2> SUFFICES ASSUME NEW s \in Slugs, s \notin halfUpdated
               PROVE  /\ \/ contractMetadata[s] = None
                         \/ contractMetadata[s].logo \in files' \cup {NoLogo}
                         \/ Overwriting(s, {"updateMetadata"})'
                      /\ \A a \in CollectionsOf(s) :
                           \/ tokenCollections[a].logo \in files' \cup {NoLogo}
                           \/ Overwriting(s, {"updateMetadata", "updateCollection"})'
    BY <1>2 DEF StoredOrOverwritten
  <2>1. /\ Overwriting(s, {"updateMetadata"}) => Overwriting(s, {"updateMetadata"})'
        /\ Overwriting(s, {"updateMetadata", "updateCollection"})
             => Overwriting(s, {"updateMetadata", "updateCollection"})'
    BY <1>9
  <2> QED BY <1>3, <2>1 DEF StoredOrOverwritten
<1>11. OneUpdate'
  BY <1>1 DEF OneUpdate, Updating, UpdateOps
<1>12. MetadataWritten'
  BY <1>1 DEF MetadataWritten
<1>13. AgreeOrOverwritten'
  <2> SUFFICES ASSUME NEW s \in Slugs, s \notin overlapped', s \notin halfUpdated',
                      NEW a \in CollectionsOf(s)
               PROVE  \/ contractMetadata[s].logo = tokenCollections[a].logo
                      \/ Overwriting(s, {"updateCollection"})'
    BY <1>2 DEF AgreeOrOverwritten
  <2> QED BY <1>9 DEF AgreeOrOverwritten
<1> QED BY <1>6, <1>7, <1>8, <1>10, <1>11, <1>12, <1>13

LEMMA StoreContractMetadataUpdates ==
    ASSUME Typed, Typed', Attachments, Updates, NEW r \in Requests,
           NEW u \in Users, NEW s \in Slugs, StoreContractMetadata(r, u, s)
    PROVE  Updates'
<1>1. PICK logo \in {NoLogo, uploads + 1} :
         /\ IF logo = NoLogo THEN UNCHANGED <<files, uploads>> ELSE Upload(logo)
         /\ req' = [req EXCEPT ![r] =
                     [NoReq EXCEPT !.op = "createMetadata", !.user = u, !.slug = s, !.logo = logo]]
  BY DEF StoreContractMetadata
<1> DEFINE q == [NoReq EXCEPT !.op = "createMetadata", !.user = u, !.slug = s, !.logo = logo]
<1>2. q.op = "createMetadata" /\ q.slug = s /\ q.logo = logo /\ q.old = NoLogo
  BY DEF NoReq
<1>3. \/ logo = NoLogo /\ UNCHANGED <<files, uploads>>
      \/ logo = uploads + 1 /\ uploads' = uploads + 1 /\ files' = files \cup {uploads + 1}
  BY <1>1 DEF Upload
<1>4. /\ req[r].op = "idle"
      /\ UNCHANGED <<contractMetadata, tokenCollections, contractTask, halfUpdated, overlapped>>
  BY DEF StoreContractMetadata, history
<1>5. req' = [req EXCEPT ![r] = q]
  BY <1>1
<1> HIDE DEF q
<1> QED BY <1>2, <1>3, <1>4, <1>5, BeginningUpdates DEF UpdateOps

LEMMA UpdateCollectionUpdates ==
    ASSUME Typed, Typed', Attachments, Updates, NEW r \in Requests,
           NEW u \in Users, NEW a \in Addresses, UpdateCollection(r, u, a)
    PROVE  Updates'
<1> DEFINE s == tokenCollections[a].slug
<1>1. PICK logo \in {NoLogo, uploads + 1} :
         /\ IF logo = NoLogo THEN UNCHANGED <<files, uploads>> ELSE Upload(logo)
         /\ req' = [req EXCEPT ![r] =
                     [NoReq EXCEPT !.op = IF logo = NoLogo THEN "updateMetadata" ELSE "removeLogo",
                                   !.slug = s, !.logo = logo,
                                   !.old = IF logo = NoLogo THEN NoLogo
                                           ELSE tokenCollections[a].logo]]
  BY DEF UpdateCollection
<1> DEFINE op  == IF logo = NoLogo THEN "updateMetadata" ELSE "removeLogo"
           old == IF logo = NoLogo THEN NoLogo ELSE tokenCollections[a].logo
           q   == [NoReq EXCEPT !.op = op, !.slug = s, !.logo = logo, !.old = old]
<1>2. q.op = op /\ q.slug = s /\ q.logo = logo /\ q.old = old
  BY DEF NoReq
<1>3. \/ logo = NoLogo /\ UNCHANGED <<files, uploads>>
      \/ logo = uploads + 1 /\ uploads' = uploads + 1 /\ files' = files \cup {uploads + 1}
  BY <1>1 DEF Upload
<1>4. /\ req[r].op = "idle"
      /\ UNCHANGED <<contractMetadata, tokenCollections, contractTask, halfUpdated>>
  BY DEF UpdateCollection
<1>5. req' = [req EXCEPT ![r] = q]
  BY <1>1
<1>6. s \in Slugs /\ a \in CollectionsOf(s)
  BY DEF UpdateCollection, FindMetadata, CollectionsOf
<1>7. old = NoLogo \/ \E b \in CollectionsOf(s) : tokenCollections[b].logo = old
  BY <1>6
<1>8. overlapped' = overlapped \cup {x \in {s} : Updating(x)}
  BY DEF UpdateCollection
<1>9. op \in {"createMetadata", "removeLogo", "updateMetadata"}
  OBVIOUS
<1>10. overlapped \subseteq overlapped' /\ (Updating(s) => s \in overlapped')
  BY <1>8
<1> HIDE DEF q, s, op, old
<1> QED BY <1>2, <1>3, <1>4, <1>5, <1>6, <1>7, <1>9, <1>10, BeginningUpdates

(* A metadata is created: nothing else of its slug is there yet.           *)
LEMMA CreateMetadataUpdates ==
    ASSUME Typed, Typed', Attachments, Updates, NEW r \in Requests, CreateMetadata(r)
    PROVE  Updates'
<1> USE DEF Updates
<1> DEFINE s   == req[r].slug
           doc == [userId |-> req[r].user, tokenCollection |-> None, logo |-> req[r].logo]
<1>1. CASE contractMetadata[s] # None
  BY <1>1, RequestKeepsLogos, UpdatesKeptByOthers DEF CreateMetadata
<1>2. CASE contractMetadata[s] = None
  <2>1. /\ contractMetadata' = [contractMetadata EXCEPT ![s] = doc]
        /\ req[r].op = "createMetadata" /\ req' = [req EXCEPT ![r] = NoReq]
        /\ UNCHANGED <<tokenCollections, files, uploads, contractTask, overlapped, halfUpdated>>
    BY <1>2 DEF CreateMetadata, Answered, history
  <2>2. s \in Slugs /\ s # NoSlug /\ doc.logo = req[r].logo
    BY <2>1, NamesAssumption DEF Typed, RequestsTyped
  <2>3. \A t \in Slugs : contractMetadata'[t] = IF t = s THEN doc ELSE contractMetadata[t]
    BY <2>1 DEF Typed, StoreTyped
  <2>4. \A x \in Requests : req'[x] = IF x = r THEN NoReq ELSE req[x]
    BY <2>1 DEF Typed, RequestsTyped
  <2> HIDE DEF doc
  <2>5. NoReq.logo = NoLogo /\ NoReq.old = NoLogo /\ NoReq.op = "idle"
    BY DEF NoReq
  <2>6. \A t : CollectionsOf(t)' = CollectionsOf(t)
    BY <2>1 DEF CollectionsOf
  <2>7. CollectionsOf(s) = {}
    BY <1>2, <2>2 DEF CollectionsOf, Attachments, MetadataBehind
  <2>8. \A x \in Requests : req[x].op \in UpdateOps => req[x].slug \in Slugs /\ req[x].slug # s
    BY <2>7, LogoOfRequest DEF Attachments, MetadataBehind
  <2>9. \A a \in Addresses : contractTask[a].at = "create" => contractTask[a].slug # s
    BY <1>2, <2>2 DEF Attachments, MetadataBehind
  <2>10. OneOwner'
    <3>1. ASSUME NEW t \in Slugs, NEW l \in Nat, Claims(t, l)'
          PROVE  Claims(t, l)
      <4>1. CASE contractMetadata'[t] # None /\ contractMetadata'[t].logo = l
        BY <2>2, <2>3, <4>1 DEF Claims
      <4>2. CASE \E x \in Requests : req'[x].slug = t /\ l \in {req'[x].logo, req'[x].old}
        BY <2>4, <2>5, <4>2, NamesAssumption DEF Claims
      <4>3. CASE \/ \E a \in CollectionsOf(t)' : tokenCollections'[a].logo = l
                 \/ \E a \in Addresses : /\ contractTask'[a].at = "create"
                                         /\ contractTask'[a].slug = t
                                         /\ contractTask'[a].logo = l
        BY <2>1, <2>6, <4>3 DEF Claims
      <4> QED BY <3>1, <4>1, <4>2, <4>3 DEF Claims
    <3> QED BY <2>1, <3>1, OneOwnerKept
  <2>11. FreshLogos'
    BY <2>1, <2>2, <2>3, <2>4, <2>5, <2>6 DEF FreshLogos
  <2>12. TasksUpToDate'
    BY <2>1, <2>2, <2>3, <2>6, <2>9, SlugOfTask DEF TasksUpToDate
  <2>13. \A t \in Slugs, ops \in SUBSET {"updateMetadata", "updateCollection"} :
            Overwriting(t, ops) => Overwriting(t, ops)'
    BY <2>1, <2>4 DEF Overwriting
  <2>14. StoredOrOverwritten'
    <3> SUFFICES ASSUME NEW t \in Slugs, t \notin halfUpdated
                 PROVE  /\ \/ contractMetadata'[t] = None
                           \/ contractMetadata'[t].logo \in files \cup {NoLogo}
                           \/ Overwriting(t, {"updateMetadata"})'
                        /\ \A a \in CollectionsOf(t) :
                             \/ tokenCollections[a].logo \in files \cup {NoLogo}
                             \/ Overwriting(t, {"updateMetadata", "updateCollection"})'
      BY <2>1, <2>6 DEF StoredOrOverwritten
    <3>1. /\ Overwriting(t, {"updateMetadata"}) => Overwriting(t, {"updateMetadata"})'
          /\ Overwriting(t, {"updateMetadata", "updateCollection"})
               => Overwriting(t, {"updateMetadata", "updateCollection"})'
      BY <2>13
    <3>2. req[r].logo \in files \cup {NoLogo}
      BY DEF FreshLogos
    <3> QED BY <2>2, <2>3, <3>1, <3>2 DEF StoredOrOverwritten
  <2>15. OneUpdate'
    BY <2>1, <2>4, <2>5 DEF OneUpdate, UpdateOps
  <2>16. MetadataWritten'
    BY <2>1, <2>3, <2>4, <2>5, <2>8 DEF MetadataWritten, UpdateOps
  <2>17. AgreeOrOverwritten'
    <3> SUFFICES ASSUME NEW t \in Slugs, t \notin overlapped, t \notin halfUpdated,
                        NEW a \in CollectionsOf(t)
                 PROVE  \/ contractMetadata'[t].logo = tokenCollections[a].logo
                        \/ Overwriting(t, {"updateCollection"})'
      BY <2>1, <2>6 DEF AgreeOrOverwritten
    <3> QED BY <2>3, <2>7, <2>13 DEF AgreeOrOverwritten
  <2> QED BY <2>10, <2>11, <2>12, <2>14, <2>15, <2>16, <2>17
<1> QED BY <1>1, <1>2

(* The old logo is removed: whoever shows it is of the request's slug, and *)
(* the request is about to write its own.                                  *)
LEMMA RemoveLogoUpdates ==
    ASSUME Typed, Typed', Attachments, Updates, NEW r \in Requests, RemoveLogo(r)
    PROVE  Updates'
<1> USE DEF Updates
<1> DEFINE s == req[r].slug
           q == [req[r] EXCEPT !.op = "updateMetadata", !.old = NoLogo]
<1>1. /\ req[r].op = "removeLogo" /\ req' = [req EXCEPT ![r] = q]
      /\ files' = files \ {req[r].old}
      /\ UNCHANGED <<contractMetadata, tokenCollections, uploads, contractTask,
                     overlapped, halfUpdated>>
  BY DEF RemoveLogo, history
<1>2. req[r].logo # NoLogo /\ req[r] \in RequestRecords /\ s \in Slugs
  BY <1>1 DEF Typed, RequestsTyped
<1>3. q.op = "updateMetadata" /\ q.slug = s /\ q.logo = req[r].logo /\ q.old = NoLogo
  BY <1>2 DEF RequestRecords
<1>4. \A x \in Requests : req'[x] = IF x = r THEN q ELSE req[x]
  BY <1>1 DEF Typed, RequestsTyped
<1> HIDE DEF q
<1>5. \A t : CollectionsOf(t)' = CollectionsOf(t)
  BY <1>1 DEF CollectionsOf
<1>6. OneOwner'
  <2>1. ASSUME NEW t \in Slugs, NEW l \in Nat, Claims(t, l)'
        PROVE  Claims(t, l)
    <3>1. CASE \E x \in Requests : req'[x].slug = t /\ l \in {req'[x].logo, req'[x].old}
      BY <1>3, <1>4, <3>1, NamesAssumption DEF Claims
    <3>2. CASE ~\E x \in Requests : req'[x].slug = t /\ l \in {req'[x].logo, req'[x].old}
      BY <1>1, <1>5, <2>1, <3>2 DEF Claims
    <3> QED BY <3>1, <3>2
  <2> QED BY <1>1, <2>1, OneOwnerKept
<1>7. FreshLogos'
  <2> SUFFICES ASSUME NEW x \in Requests, req'[x].logo # NoLogo
               PROVE  /\ req'[x].logo \in files'
                      /\ \A y \in Requests : req'[y].old # req'[x].logo
                                             /\ (y # x => req'[y].logo # req'[x].logo)
                      /\ \A t \in Slugs :
                           /\ \A a \in CollectionsOf(t)' : tokenCollections'[a].logo # req'[x].logo
                           /\ contractMetadata'[t] # None /\ contractMetadata'[t].logo = req'[x].logo
                                => req'[x].op = "updateCollection"
    BY DEF FreshLogos
  <2>1. req'[x].logo = req[x].logo
    BY <1>3, <1>4
  <2>2. req'[x].logo \in files'
    BY <1>1, <2>1 DEF FreshLogos
  <2>3. \A y \in Requests : req'[y].old # req'[x].logo /\ (y # x => req'[y].logo # req'[x].logo)
    BY <1>3, <1>4, <2>1 DEF FreshLogos
  <2>4. req[x].op = "updateCollection" => req'[x].op = "updateCollection"
    BY <1>1, <1>4
  <2> QED BY <1>1, <1>5, <2>1, <2>2, <2>3, <2>4 DEF FreshLogos
<1>8. TasksUpToDate'
  BY <1>1, <1>5 DEF TasksUpToDate
<1>9. \A t \in Slugs, ops \in SUBSET {"updateMetadata", "updateCollection"} :
         Overwriting(t, ops) => Overwriting(t, ops)'
  BY <1>1, <1>4 DEF Overwriting
<1>10. StoredOrOverwritten'
  <2> SUFFICES ASSUME NEW t \in Slugs, t \notin halfUpdated
               PROVE  /\ \/ contractMetadata[t] = None
                         \/ contractMetadata[t].logo \in files' \cup {NoLogo}
                         \/ Overwriting(t, {"updateMetadata"})'
                      /\ \A a \in CollectionsOf(t) :
                           \/ tokenCollections[a].logo \in files' \cup {NoLogo}
                           \/ Overwriting(t, {"updateMetadata", "updateCollection"})'
    BY <1>1, <1>5 DEF StoredOrOverwritten
  <2>1. /\ Overwriting(t, {"updateMetadata"}) => Overwriting(t, {"updateMetadata"})'
        /\ Overwriting(t, {"updateMetadata", "updateCollection"})
             => Overwriting(t, {"updateMetadata", "updateCollection"})'
    BY <1>9
  <2>2. t = s => /\ Overwriting(t, {"updateMetadata"})'
                 /\ Overwriting(t, {"updateMetadata", "updateCollection"})'
    BY <1>2, <1>3, <1>4 DEF Overwriting
  <2>3. \A l \in Nat : Claims(t, l) /\ t # s => l # req[r].old
    <3> SUFFICES ASSUME NEW l \in Nat, Claims(t, l), l = req[r].old
                 PROVE  t = s
      OBVIOUS
    <3>1. Claims(s, l)
      BY <1>2 DEF Claims
    <3> QED BY <1>2, <3>1 DEF OneOwner
  <2>4. /\ contractMetadata[t] # None /\ contractMetadata[t].logo # NoLogo
             => contractMetadata[t].logo \in Nat /\ Claims(t, contractMetadata[t].logo)
        /\ \A a \in CollectionsOf(t) : tokenCollections[a].logo # NoLogo
             => tokenCollections[a].logo \in Nat /\ Claims(t, tokenCollections[a].logo)
    BY LogoOfMetadata, LogoOfCollection DEF Claims, Logos
  <2> QED BY <1>1, <2>1, <2>2, <2>3, <2>4 DEF StoredOrOverwritten
<1>11. OneUpdate'
  BY <1>1, <1>3, <1>4 DEF OneUpdate, UpdateOps
<1>12. MetadataWritten'
  BY <1>1, <1>3, <1>4 DEF MetadataWritten
<1>13. AgreeOrOverwritten'
  <2> SUFFICES ASSUME NEW t \in Slugs, t \notin overlapped, t \notin halfUpdated,
                      NEW a \in CollectionsOf(t)
               PROVE  \/ contractMetadata[t].logo = tokenCollections[a].logo
                      \/ Overwriting(t, {"updateCollection"})'
    BY <1>1, <1>5 DEF AgreeOrOverwritten
  <2> QED BY <1>9 DEF AgreeOrOverwritten
<1> QED BY <1>6, <1>7, <1>8, <1>10, <1>11, <1>12, <1>13

(* The first write of an update: the metadata is ahead of the collection   *)
(* until the second.                                                       *)
LEMMA UpdateMetadataUpdates ==
    ASSUME Typed, Typed', Attachments, Updates, NEW r \in Requests, UpdateMetadata(r)
    PROVE  Updates'
<1> USE DEF Updates
<1> DEFINE s   == req[r].slug
           q   == [req[r] EXCEPT !.op = "updateCollection"]
           doc == Updated(contractMetadata[s], r)
<1>1. /\ req[r].op = "updateMetadata" /\ req' = [req EXCEPT ![r] = q]
      /\ contractMetadata' = [contractMetadata EXCEPT ![s] = doc]
      /\ UNCHANGED <<tokenCollections, files, uploads, contractTask, overlapped, halfUpdated>>
  BY DEF UpdateMetadata, history
<1>2. /\ req[r] \in RequestRecords /\ s \in Slugs /\ req[r].old = NoLogo
      /\ req[r].logo \in Logos /\ req[r].op \in UpdateOps
  BY <1>1, LogoOfRequest DEF Typed, RequestsTyped, UpdateOps
<1>3. q.op = "updateCollection" /\ q.slug = s /\ q.logo = req[r].logo /\ q.old = NoLogo
  BY <1>2 DEF RequestRecords
<1>4. \A x \in Requests : req'[x] = IF x = r THEN q ELSE req[x]
  BY <1>1 DEF Typed, RequestsTyped
<1>5. CollectionsOf(s) # {} /\ contractMetadata[s] # None
  BY <1>2, NamesAssumption DEF Attachments, MetadataBehind, CollectionsOf
<1>6. doc # None /\ doc.logo = IF req[r].logo = NoLogo THEN contractMetadata[s].logo
                                                       ELSE req[r].logo
  BY <1>2, <1>5, LogoOfMetadata, UpdatedMetadata, DocsAssumption
<1> HIDE DEF q, doc
<1>7. \A t \in Slugs : contractMetadata'[t] = IF t = s THEN doc ELSE contractMetadata[t]
  BY <1>1 DEF Typed, StoreTyped
<1>8. \A t : CollectionsOf(t)' = CollectionsOf(t)
  BY <1>1 DEF CollectionsOf
<1>9. OneOwner'
  <2>1. ASSUME NEW t \in Slugs, NEW l \in Nat, Claims(t, l)'
        PROVE  Claims(t, l)
    <3>1. CASE \E x \in Requests : req'[x].slug = t /\ l \in {req'[x].logo, req'[x].old}
      BY <1>3, <1>4, <3>1, NamesAssumption DEF Claims
    <3>2. CASE contractMetadata'[t] # None /\ contractMetadata'[t].logo = l
      BY <1>5, <1>6, <1>7, <3>2 DEF Claims
    <3>3. CASE \/ \E a \in CollectionsOf(t)' : tokenCollections'[a].logo = l
               \/ \E a \in Addresses : /\ contractTask'[a].at = "create"
                                       /\ contractTask'[a].slug = t /\ contractTask'[a].logo = l
      BY <1>1, <1>8, <3>3 DEF Claims
    <3> QED BY <2>1, <3>1, <3>2, <3>3 DEF Claims
  <2> QED BY <1>1, <2>1, OneOwnerKept
<1>10. FreshLogos'
  <2> SUFFICES ASSUME NEW x \in Requests, req'[x].logo # NoLogo
               PROVE  /\ req'[x].logo \in files'
                      /\ \A y \in Requests : req'[y].old # req'[x].logo
                                             /\ (y # x => req'[y].logo # req'[x].logo)
                      /\ \A t \in Slugs :
                           /\ \A a \in CollectionsOf(t)' : tokenCollections'[a].logo # req'[x].logo
                           /\ contractMetadata'[t] # None /\ contractMetadata'[t].logo = req'[x].logo
                                => req'[x].op = "updateCollection"
    BY DEF FreshLogos
  <2>1. req'[x].logo = req[x].logo /\ req[x].logo # NoLogo
    BY <1>3, <1>4
  <2>2. req'[x].logo \in files'
    BY <1>1, <2>1 DEF FreshLogos
  <2>3. \A y \in Requests : req'[y].old # req'[x].logo /\ (y # x => req'[y].logo # req'[x].logo)
    BY <1>3, <1>4, <2>1 DEF FreshLogos
  <2>4. \A t \in Slugs : contractMetadata'[t] # None /\ contractMetadata'[t].logo = req'[x].logo
                               => req'[x].op = "updateCollection"
    <3> SUFFICES ASSUME NEW t \in Slugs, contractMetadata'[t] # None,
                        contractMetadata'[t].logo = req[x].logo
                 PROVE  req'[x].op = "updateCollection"
      BY <2>1
    <3>1. CASE x = r
      BY <1>3, <1>4, <3>1
    <3>2. CASE x # r
      <4>1. req[r].logo # req[x].logo
        BY <2>1, <3>2 DEF FreshLogos
      <4>2. contractMetadata[t] # None /\ contractMetadata[t].logo = req[x].logo
        BY <1>5, <1>6, <1>7, <4>1
      <4> QED BY <1>4, <2>1, <3>2, <4>2 DEF FreshLogos
    <3> QED BY <3>1, <3>2
  <2> QED BY <1>1, <1>8, <2>1, <2>2, <2>3, <2>4 DEF FreshLogos
<1>11. TasksUpToDate'
  BY <1>1, <1>5, <1>7, <1>8, SlugOfTask DEF TasksUpToDate
<1>12. \A t \in Slugs :
          /\ Overwriting(t, {"updateMetadata", "updateCollection"})
               => Overwriting(t, {"updateMetadata", "updateCollection"})'
          /\ Overwriting(t, {"updateCollection"}) => Overwriting(t, {"updateCollection"})'
          /\ t # s \/ req[r].logo = NoLogo
               => (Overwriting(t, {"updateMetadata"}) => Overwriting(t, {"updateMetadata"})')
  BY <1>3, <1>4 DEF Overwriting
<1>13. StoredOrOverwritten'
  <2> SUFFICES ASSUME NEW t \in Slugs, t \notin halfUpdated
               PROVE  /\ \/ contractMetadata'[t] = None
                         \/ contractMetadata'[t].logo \in files \cup {NoLogo}
                         \/ Overwriting(t, {"updateMetadata"})'
                      /\ \A a \in CollectionsOf(t) :
                           \/ tokenCollections[a].logo \in files \cup {NoLogo}
                           \/ Overwriting(t, {"updateMetadata", "updateCollection"})'
    BY <1>1, <1>8 DEF StoredOrOverwritten
  <2>1. req[r].logo \in files \cup {NoLogo}
    BY DEF FreshLogos
  <2>2. CASE t = s /\ req[r].logo # NoLogo
    BY <1>6, <1>7, <1>12, <2>1, <2>2 DEF StoredOrOverwritten
  <2>3. CASE t # s \/ req[r].logo = NoLogo
    <3>1. contractMetadata'[t] = None <=> contractMetadata[t] = None
      BY <1>5, <1>6, <1>7
    <3>2. contractMetadata'[t].logo = contractMetadata[t].logo
      BY <1>6, <1>7, <2>3
    <3> QED BY <1>12, <2>3, <3>1, <3>2 DEF StoredOrOverwritten
  <2> QED BY <2>2, <2>3
<1>14. OneUpdate'
  BY <1>1, <1>2, <1>3, <1>4 DEF OneUpdate, UpdateOps
<1>15. MetadataWritten'
  <2> SUFFICES ASSUME NEW x \in Requests, req'[x].op = "updateCollection",
                      req'[x].logo # NoLogo, req'[x].slug \notin overlapped
               PROVE  contractMetadata'[req'[x].slug].logo = req'[x].logo
    BY <1>1 DEF MetadataWritten
  <2>1. CASE x = r
    BY <1>2, <1>3, <1>4, <1>6, <1>7, <2>1
  <2>2. CASE x # r
    <3>1. req'[x] = req[x] /\ req[x].slug \in Slugs
      BY <1>4, <2>2, LogoOfRequest DEF UpdateOps
    <3>2. req[x].slug # s
      BY <1>2, <2>2, <3>1 DEF OneUpdate, UpdateOps
    <3> QED BY <1>7, <3>1, <3>2 DEF MetadataWritten
  <2> QED BY <2>1, <2>2
<1>16. AgreeOrOverwritten'
  <2> SUFFICES ASSUME NEW t \in Slugs, t \notin overlapped, t \notin halfUpdated,
                      NEW a \in CollectionsOf(t)
               PROVE  \/ contractMetadata'[t].logo = tokenCollections[a].logo
                      \/ Overwriting(t, {"updateCollection"})'
    BY <1>1, <1>8 DEF AgreeOrOverwritten
  <2>1. CASE t = s /\ req[r].logo # NoLogo
    BY <1>3, <1>4, <2>1 DEF Overwriting
  <2>2. CASE t # s \/ req[r].logo = NoLogo
    BY <1>6, <1>7, <1>12, <2>2 DEF AgreeOrOverwritten
  <2> QED BY <2>1, <2>2
<1> QED BY <1>9, <1>10, <1>11, <1>13, <1>14, <1>15, <1>16

(* The second write: unless another update overlapped, the metadata has    *)
(* the same logo.                                                          *)
LEMMA UpdateTokenCollectionUpdates ==
    ASSUME Typed, Typed', Attachments, Updates, NEW r \in Requests, UpdateTokenCollection(r)
    PROVE  Updates'
<1> USE DEF Updates
<1> DEFINE s == req[r].slug
<1>1. /\ req[r].op = "updateCollection" /\ req' = [req EXCEPT ![r] = NoReq]
      /\ tokenCollections' = [a \in Addresses |->
           IF a \in CollectionsOf(s) THEN Updated(tokenCollections[a], r)
                                     ELSE tokenCollections[a]]
      /\ UNCHANGED <<contractMetadata, files, uploads, contractTask, overlapped, halfUpdated>>
  BY DEF UpdateTokenCollection, Answered, history
<1>2. s \in Slugs /\ req[r].logo \in Logos
  BY <1>1, LogoOfRequest DEF UpdateOps
<1>3. NoReq.op = "idle" /\ NoReq.logo = NoLogo /\ NoReq.old = NoLogo
  BY DEF NoReq
<1>4. \A x \in Requests : req'[x] = IF x = r THEN NoReq ELSE req[x]
  BY <1>1 DEF Typed, RequestsTyped
<1>5. \A a \in CollectionsOf(s) :
         /\ tokenCollections'[a] # None /\ tokenCollections'[a].slug = tokenCollections[a].slug
         /\ tokenCollections'[a].logo = IF req[r].logo = NoLogo THEN tokenCollections[a].logo
                                                                ELSE req[r].logo
  BY <1>1, <1>2, LogoOfCollection, UpdatedCollection, DocsAssumption
<1>6. \A a \in Addresses : a \notin CollectionsOf(s) => tokenCollections'[a] = tokenCollections[a]
  BY <1>1
<1>7. \A t : CollectionsOf(t)' = CollectionsOf(t)
  BY <1>5, <1>6 DEF CollectionsOf
<1>8. \A t \in Slugs : \A a \in CollectionsOf(t) :
         /\ a \in Addresses
         /\ t = s => a \in CollectionsOf(s)
         /\ t # s => tokenCollections'[a] = tokenCollections[a]
  BY <1>6 DEF CollectionsOf
<1>9. OneOwner'
  <2>1. ASSUME NEW t \in Slugs, NEW l \in Nat, Claims(t, l)'
        PROVE  Claims(t, l)
    <3>1. CASE \E x \in Requests : req'[x].slug = t /\ l \in {req'[x].logo, req'[x].old}
      BY <1>3, <1>4, <3>1, NamesAssumption DEF Claims
    <3>2. CASE \E a \in CollectionsOf(t)' : tokenCollections'[a].logo = l
      BY <1>5, <1>7, <1>8, <3>2 DEF Claims
    <3>3. CASE \/ contractMetadata'[t] # None /\ contractMetadata'[t].logo = l
               \/ \E a \in Addresses : /\ contractTask'[a].at = "create"
                                       /\ contractTask'[a].slug = t /\ contractTask'[a].logo = l
      BY <1>1, <3>3 DEF Claims
    <3> QED BY <2>1, <3>1, <3>2, <3>3 DEF Claims
  <2> QED BY <1>1, <2>1, OneOwnerKept
<1>10. FreshLogos'
  <2> SUFFICES ASSUME NEW x \in Requests, req'[x].logo # NoLogo
               PROVE  /\ req'[x].logo \in files'
                      /\ \A y \in Requests : req'[y].old # req'[x].logo
                                             /\ (y # x => req'[y].logo # req'[x].logo)
                      /\ \A t \in Slugs :
                           /\ \A a \in CollectionsOf(t)' : tokenCollections'[a].logo # req'[x].logo
                           /\ contractMetadata'[t] # None /\ contractMetadata'[t].logo = req'[x].logo
                                => req'[x].op = "updateCollection"
    BY DEF FreshLogos
  <2>1. x # r /\ req'[x] = req[x]
    BY <1>3, <1>4
  <2>2. req[x].logo \in files /\ req[r].logo # req[x].logo
    BY <2>1 DEF FreshLogos
  <2>3. \A y \in Requests : req'[y].old # req'[x].logo /\ (y # x => req'[y].logo # req'[x].logo)
    BY <1>3, <1>4, <2>1 DEF FreshLogos
  <2>4. \A t \in Slugs : \A a \in CollectionsOf(t) : tokenCollections'[a].logo # req[x].logo
    BY <1>5, <1>8, <2>1, <2>2 DEF FreshLogos
  <2> QED BY <1>1, <1>7, <2>1, <2>2, <2>3, <2>4 DEF FreshLogos
<1>11. TasksUpToDate'
  BY <1>1, <1>7 DEF TasksUpToDate
<1>12. \A t \in Slugs :
          /\ Overwriting(t, {"updateMetadata"}) => Overwriting(t, {"updateMetadata"})'
          /\ t # s \/ req[r].logo = NoLogo =>
               /\ Overwriting(t, {"updateMetadata", "updateCollection"})
                    => Overwriting(t, {"updateMetadata", "updateCollection"})'
               /\ Overwriting(t, {"updateCollection"}) => Overwriting(t, {"updateCollection"})'
  BY <1>1, <1>4 DEF Overwriting
<1>13. StoredOrOverwritten'
  <2> SUFFICES ASSUME NEW t \in Slugs, t \notin halfUpdated
               PROVE  /\ \/ contractMetadata[t] = None
                         \/ contractMetadata[t].logo \in files \cup {NoLogo}
                         \/ Overwriting(t, {"updateMetadata"})'
                      /\ \A a \in CollectionsOf(t) :
                           \/ tokenCollections'[a].logo \in files \cup {NoLogo}
                           \/ Overwriting(t, {"updateMetadata", "updateCollection"})'
    BY <1>1, <1>7 DEF StoredOrOverwritten
  <2>1. req[r].logo \in files \cup {NoLogo}
    BY DEF FreshLogos
  <2>2. CASE t = s /\ req[r].logo # NoLogo
    BY <1>5, <1>12, <2>1, <2>2 DEF StoredOrOverwritten
  <2>3. CASE t # s \/ req[r].logo = NoLogo
    <3>1. \A a \in CollectionsOf(t) : tokenCollections'[a].logo = tokenCollections[a].logo
      BY <1>5, <1>8, <2>3
    <3> QED BY <1>12, <2>3, <3>1 DEF StoredOrOverwritten
  <2> QED BY <2>2, <2>3
<1>14. OneUpdate'
  BY <1>1, <1>3, <1>4 DEF OneUpdate, UpdateOps
<1>15. MetadataWritten'
  BY <1>1, <1>3, <1>4 DEF MetadataWritten
<1>16. AgreeOrOverwritten'
  <2> SUFFICES ASSUME NEW t \in Slugs, t \notin overlapped, t \notin halfUpdated,
                      NEW a \in CollectionsOf(t)
               PROVE  \/ contractMetadata[t].logo = tokenCollections'[a].logo
                      \/ Overwriting(t, {"updateCollection"})'
    BY <1>1, <1>7 DEF AgreeOrOverwritten
  <2>1. CASE t = s /\ req[r].logo # NoLogo
    BY <1>1, <1>5, <2>1 DEF MetadataWritten
  <2>2. CASE t # s \/ req[r].logo = NoLogo
    BY <1>5, <1>8, <1>12, <2>2 DEF AgreeOrOverwritten
  <2> QED BY <2>1, <2>2
<1> QED BY <1>9, <1>10, <1>11, <1>13, <1>14, <1>15, <1>16

(* A collection is created: the logo its task read is still that of the    *)
(* metadata, which no update could change without a collection.            *)
LEMMA CreateCollectionUpdates ==
    ASSUME Typed, Typed', Attachments, Updates, NEW a \in Addresses, CreateCollection(a)
    PROVE  Updates'
<1> USE DEF Updates
<1> DEFINE s   == contractTask[a].slug
           doc == [userId |-> ContractEvent(a).creator, slug |-> s, logo |-> contractTask[a].logo]
<1>1. CASE CollectionCollides(a, s)
  <2>1. UNCHANGED tokenCollections
    BY <1>1 DEF CreateCollection
  <2>2. LogosKept
    BY <2>1, ContractListenerKeepsLogos
  <2> QED BY <2>2, UpdatesKeptByOthers
<1>2. CASE ~CollectionCollides(a, s)
  <2>1. /\ contractTask[a].at = "create" /\ tokenCollections[a] = None
        /\ tokenCollections' = [tokenCollections EXCEPT ![a] = doc]
        /\ UNCHANGED <<contractMetadata, req, files, uploads, overlapped, halfUpdated>>
    BY <1>2 DEF CreateCollection, CollectionCollides, history
  <2>2. doc.slug = s /\ doc.logo = contractTask[a].logo
    OBVIOUS
  <2> HIDE DEF doc
  <2>3. \A b \in Addresses : tokenCollections'[b] = IF b = a THEN doc ELSE tokenCollections[b]
    BY <2>1 DEF Typed, StoreTyped
  <2>4. \A t \in Slugs : \A b \in CollectionsOf(t)' :
           \/ b \in CollectionsOf(t) /\ tokenCollections'[b] = tokenCollections[b]
           \/ b = a /\ t = s /\ tokenCollections'[b] = doc
    BY <2>1, <2>2, <2>3 DEF CollectionsOf
  <2>5. \A t : CollectionsOf(t) \subseteq CollectionsOf(t)'
    BY <2>1, <2>3 DEF CollectionsOf
  <2>6. s \in Slugs => /\ CollectionsOf(s) = {} /\ contractMetadata[s] # None
                       /\ doc.logo = contractMetadata[s].logo
    BY <1>2, <2>1, <2>2, NamesAssumption
       DEF CollectionCollides, Attachments, MetadataBehind, TasksUpToDate
  <2>7. /\ \A b \in Addresses \ {a} : contractTask'[b] = contractTask[b]
        /\ contractTask'[a].at # "create"
    <3>1. contractTask[a] \in TaskRecords({"none", "find", "create", "attach", "done"})
      BY DEF Typed, TasksTyped
    <3>2. \/ contractTask' = [contractTask EXCEPT ![a].at = "done"]
          \/ contractTask' = [contractTask EXCEPT ![a].at = "attach"]
      BY <1>2 DEF CreateCollection
    <3> QED BY <3>1, <3>2 DEF Typed, TasksTyped, TaskRecords
  <2>8. OneOwner'
    <3>1. ASSUME NEW t \in Slugs, NEW l \in Nat, Claims(t, l)'
          PROVE  Claims(t, l)
      <4>1. CASE \E b \in CollectionsOf(t)' : tokenCollections'[b].logo = l
        BY <2>1, <2>2, <2>4, <4>1 DEF Claims
      <4>2. CASE \E b \in Addresses : /\ contractTask'[b].at = "create"
                                      /\ contractTask'[b].slug = t /\ contractTask'[b].logo = l
        BY <2>7, <4>2 DEF Claims
      <4>3. CASE \/ contractMetadata'[t] # None /\ contractMetadata'[t].logo = l
                 \/ \E x \in Requests : req'[x].slug = t /\ l \in {req'[x].logo, req'[x].old}
        BY <2>1, <4>3 DEF Claims
      <4> QED BY <3>1, <4>1, <4>2, <4>3 DEF Claims
    <3> QED BY <2>1, <3>1, OneOwnerKept
  <2>9. \A x \in Requests : s \in Slugs /\ req[x].logo # NoLogo => doc.logo # req[x].logo
    <3> SUFFICES ASSUME NEW x \in Requests, s \in Slugs, req[x].logo # NoLogo,
                        doc.logo = req[x].logo
                 PROVE  FALSE
      OBVIOUS
    <3>1. req[x].op = "updateCollection"
      BY <2>6 DEF FreshLogos
    <3>2. req[x].logo \in Nat /\ req[x].slug \in Slugs
      BY LogoOfRequest
    <3>3. Claims(req[x].slug, req[x].logo) /\ Claims(s, req[x].logo)
      BY <2>6 DEF Claims
    <3>4. req[x].slug = s
      BY <3>2, <3>3 DEF OneOwner
    <3>5. CollectionsOf(s) # {}
      BY <3>1, <3>4 DEF Attachments, MetadataBehind, UpdateOps
    <3> QED BY <2>6, <3>5
  <2>10. FreshLogos'
    <3>1. \A x \in Requests : req[x].logo # NoLogo =>
             \A t \in Slugs : \A b \in CollectionsOf(t)' : tokenCollections'[b].logo # req[x].logo
      BY <2>4, <2>9 DEF FreshLogos
    <3> QED BY <2>1, <3>1 DEF FreshLogos
  <2>11. TasksUpToDate'
    <3> SUFFICES ASSUME NEW b \in Addresses, contractTask'[b].at = "create",
                        contractTask'[b].slug # NoSlug,
                        CollectionsOf(contractTask[b].slug)' = {}
                 PROVE  contractTask'[b].logo = contractMetadata'[contractTask'[b].slug].logo
      BY DEF TasksUpToDate
    <3>1. contractTask'[b] = contractTask[b]
      BY <2>7
    <3>2. CollectionsOf(contractTask[b].slug) = {}
      BY <2>3, <2>1, <3>1 DEF CollectionsOf
    <3> QED BY <2>1, <3>1, <3>2 DEF TasksUpToDate
  <2>12. \A t, ops : Overwriting(t, ops)' = Overwriting(t, ops)
    BY <2>1 DEF Overwriting
  <2>13. StoredOrOverwritten'
    <3> SUFFICES ASSUME NEW t \in Slugs, t \notin halfUpdated
                 PROVE  /\ \/ contractMetadata[t] = None
                           \/ contractMetadata[t].logo \in files \cup {NoLogo}
                           \/ Overwriting(t, {"updateMetadata"})
                        /\ \A b \in CollectionsOf(t)' :
                             \/ tokenCollections'[b].logo \in files \cup {NoLogo}
                             \/ Overwriting(t, {"updateMetadata", "updateCollection"})
      BY <2>1, <2>12 DEF StoredOrOverwritten
    <3>1. Overwriting(t, {"updateMetadata"})
            => Overwriting(t, {"updateMetadata", "updateCollection"})
      BY DEF Overwriting
    <3> QED BY <2>4, <2>6, <3>1 DEF StoredOrOverwritten
  <2>14. OneUpdate' /\ MetadataWritten'
    BY <2>1 DEF OneUpdate, MetadataWritten
  <2>15. AgreeOrOverwritten'
    <3> SUFFICES ASSUME NEW t \in Slugs, t \notin overlapped, t \notin halfUpdated,
                        NEW b \in CollectionsOf(t)'
                 PROVE  \/ contractMetadata[t].logo = tokenCollections'[b].logo
                        \/ Overwriting(t, {"updateCollection"})
      BY <2>1, <2>12 DEF AgreeOrOverwritten
    <3> QED BY <2>4, <2>6 DEF AgreeOrOverwritten
  <2> QED BY <2>8, <2>10, <2>11, <2>13, <2>14, <2>15
<1> QED BY <1>1, <1>2

LEMMA NextUpdates ==
    ASSUME Typed, Typed', Attachments, Updates, [Next]_vars
    PROVE  Updates'
<1>1. CASE \E r \in Requests : Request(r)
  <2>1. PICK r \in Requests : Request(r)
    BY <1>1
  <2>2. CASE \/ \E u \in Users, s \in Slugs : StoreContractMetadata(r, u, s)
             \/ \E u \in Users, a \in Addresses : UpdateCollection(r, u, a)
    BY <2>2, StoreContractMetadataUpdates, UpdateCollectionUpdates
  <2>3. CASE CreateMetadata(r) \/ RemoveLogo(r) \/ UpdateMetadata(r) \/ UpdateTokenCollection(r)
    BY <2>3, CreateMetadataUpdates, RemoveLogoUpdates, UpdateMetadataUpdates,
       UpdateTokenCollectionUpdates
  <2>4. CASE \/ \E u \in Users, a \in Addresses : StoreTokenMetadata(r, u, a)
             \/ GetNextTokenIdentifier(r) \/ CreateTokenMetadata(r)
    BY <2>4, RequestKeepsLogos, UpdatesKeptByOthers
  <2> QED BY <2>1, <2>2, <2>3, <2>4 DEF Request
<1>2. CASE \E a \in Addresses : CreateCollection(a)
  BY <1>2, CreateCollectionUpdates
<1>3. CASE \/ StartContracts \/ IncreaseContractJob \/ ContractListenerFails
           \/ \E a \in Addresses : FindContractMetadata(a) \/ AttachTokenCollection(a)
  BY <1>3, ContractListenerKeepsLogos, UpdatesKeptByOthers
<1>4. CASE \E r \in Requests : RequestFails(r)
  BY <1>4, RequestKeepsLogos, UpdatesKeptByOthers
<1>5. CASE \/ \E blk \in BlockChoices : NewBlock(blk)
           \/ TokenListener \/ TokenListenerFails \/ UNCHANGED vars
  BY <1>5, OthersKeepLogos, UpdatesKeptByOthers
<1> QED BY <1>1, <1>2, <1>3, <1>4, <1>5 DEF Next, ContractListener, ContractTask, Failure

(* However the updates of a collection overlap, each removing the logo it  *)
(* read before it writes its own, and wherever one ends half-way: what is  *)
(* shown is in S3 and the two copies agree, but for the collections with   *)
(* such an update, and no update ever harms a collection of another slug.  *)
THEOREM UpdatesStayConfined == Spec => []UpdatesConfined
<1> DEFINE Inv == IInv /\ Typed /\ Attachments /\ Updates
<1>1. Init => Inv
  BY InitHolds, InitTyped, InitAttachments, InitUpdates
<1>2. Inv /\ [Next]_vars => Inv'
  BY NextKeeps, NextTyped, NextAttachments, NextUpdates
<1>3. Inv => UpdatesConfined
  <2> SUFFICES ASSUME Inv PROVE CopiesAgree /\ LogoStored
    BY DEF UpdatesConfined
  <2>1. \A s, ops : ops \subseteq UpdateOps /\ Overwriting(s, ops) => Updating(s)
    BY DEF Overwriting, Updating, UpdateOps
  <2>2. \A s : /\ Overwriting(s, {"updateMetadata"}) => Updating(s)
               /\ Overwriting(s, {"updateCollection"}) => Updating(s)
               /\ Overwriting(s, {"updateMetadata", "updateCollection"}) => Updating(s)
    BY <2>1 DEF UpdateOps
  <2>3. CopiesAgree
    BY <2>2, SlugOfCollection DEF CopiesAgree, Updates, AgreeOrOverwritten, CollectionsOf
  <2>4. LogoStored
    BY <2>2 DEF LogoStored, Updates, StoredOrOverwritten
  <2> QED BY <2>3, <2>4
<1> QED BY <1>1, <1>2, <1>3, PTL DEF Spec
=============================================================================
