----------------------------- MODULE Catalogue -----------------------------
(***************************************************************************)
(* How collections and cards come to be.  A client stores the metadata of  *)
(* a collection and gets a URI; deploys a contract with that URI; the      *)
(* created-contract listener creates the collection; the client stores the *)
(* metadata of tokens, each under the next identifier; mints them; the     *)
(* created-token listener creates the cards.  Requests, listeners and the  *)
(* tasks a listener runs with Promise.all interleave at every await.       *)
(*                                                                         *)
(* A contract metadata is named by its slug, a collection by its contract  *)
(* address, a card by contract address and identifier.  Of the fields the  *)
(* collection copies from its metadata the model has the logo, which is a  *)
(* file of S3 besides.                                                     *)
(***************************************************************************)
EXTENDS Integers, FiniteSets, SequencesExt, FiniteSetsExt

CONSTANTS
    Users, Slugs, Addresses,
    NoSlug, None, NoLogo,
    BlockChoices,   \* what a block may hold: [contracts, tokens]
    Requests,       \* bound: API requests served at once
    MaxTokens,      \* bound: no storeTokenMetadata is begun beyond this
    MaxUploads,     \* bound: logos uploaded in all; no update begins after that
    MaxBlocks,      \* bound: blocks of the chain
    MaxFailures     \* bound: requests and invocations that fail half-way

(* The names that stand for nothing are none of the things; an event of a  *)
(* new contract is of one user's.                                          *)
ASSUME NamesAssumption == NoSlug \notin Slugs /\ None \notin Addresses /\ NoLogo \notin Nat

ASSUME CreatorsAssumption == \A blk \in BlockChoices : \A e \in blk.contracts : e.creator \in Users

VARIABLES
    contractMetadata,   \* slug -> [userId, tokenCollection, logo] or None
    tokenMetadata,      \* slug -> the token_identifiers in insertion order
    tokenCollections,   \* address -> [userId, slug, logo] or None
    cards,              \* pairs of address and identifier
    files, uploads,     \* the logos in S3; how many were ever uploaded
    chain,              \* the blocks the subgraph has indexed
    contractJob, contractTask,  \* createdContractListener: cursor, tasks
    tokenJob, tokenTask,        \* createdTokenListener: cursor, tasks
    req,                \* the API requests
    failures,           \* history: requests and invocations that failed
    overlapped,         \* history: slugs updated by two requests at once
    halfUpdated,        \* history: slugs with an update that failed half-way
    unattached,         \* history: contracts whose task ended before attach
    halfCreated         \* history: token blocks cut short after an insert

store   == <<contractMetadata, tokenMetadata, tokenCollections, cards, files, uploads>>
history == <<failures, overlapped, halfUpdated, unattached, halfCreated>>
vars    == <<store, chain, contractJob, contractTask, tokenJob, tokenTask, req, history>>

NoReq   == [op |-> "idle", user |-> None, slug |-> NoSlug, logo |-> NoLogo,
            old |-> NoLogo, id |-> 0]
NoTask  == [at |-> "none", slug |-> NoSlug, logo |-> NoLogo, found |-> {}]
NoTasks == [a \in Addresses |-> NoTask]

Init ==
    /\ contractMetadata = [s \in Slugs |-> None]
    /\ tokenMetadata = [s \in Slugs |-> <<>>]
    /\ tokenCollections = [a \in Addresses |-> None]
    /\ cards = {}
    /\ files = {} /\ uploads = 0
    /\ chain = <<>>
    /\ contractJob = 1 /\ contractTask = NoTasks
    /\ tokenJob = 1 /\ tokenTask = NoTasks
    /\ req = [r \in Requests |-> NoReq]
    /\ failures = 0
    /\ overlapped = {} /\ halfUpdated = {} /\ unattached = {} /\ halfCreated = {}

-----------------------------------------------------------------------------
(* The chain (external).  A contract event is [address, creator, uri], at  *)
(* most one per address; a token event [address, identifier, uri], minted  *)
(* once.  A uri is [kind] and, when it is of the marketplace's own domain  *)
(* ("ours"), the user and slug of its path.                                *)
ContractsAt(b) == IF b \in DOMAIN chain THEN chain[b].contracts ELSE {}
TokensAt(b)    == IF b \in DOMAIN chain THEN chain[b].tokens ELSE {}

Deployed == UNION {{e.address : e \in ContractsAt(b)} : b \in DOMAIN chain}
Minted   == UNION {{<<t.address, t.identifier>> : t \in TokensAt(b)} : b \in DOMAIN chain}

NewBlock(blk) ==
    /\ Len(chain) < MaxBlocks
    /\ \A e \in blk.contracts : e.address \notin Deployed
    /\ \A t \in blk.tokens :
         t.address \in Deployed /\ <<t.address, t.identifier>> \notin Minted
    /\ chain' = Append(chain, blk)
    /\ UNCHANGED <<store, contractJob, contractTask, tokenJob, tokenTask, req, history>>

-----------------------------------------------------------------------------
(* The queries and the unique indexes of the collections.                  *)
(* findMetadataByUserIdAndSlug.                                            *)
FindMetadata(u, s) ==
    s \in Slugs /\ contractMetadata[s] # None /\ contractMetadata[s].userId = u

CollectionsOf(s) ==
    {a \in Addresses : tokenCollections[a] # None /\ tokenCollections[a].slug = s}

(* Mutant: only the address is unique.                                     *)
CollectionCollidesOnAddress(a, s) == tokenCollections[a] # None

(* contractId and, when there is one, slug are unique.                     *)
CollectionCollides(a, s) ==
    \/ tokenCollections[a] # None
    \/ s # NoSlug /\ CollectionsOf(s) # {}

(* getNextTokenIdentifier: the largest one stored plus one, from 1.        *)
NextTokenIdentifier(s) ==
    IF tokenMetadata[s] = <<>> THEN 1 ELSE Max(Range(tokenMetadata[s])) + 1

(* The identifiers whose metadata has the contract's address: it is that   *)
(* of the collection they were stored for.                                 *)
DescribedTokens(a) ==
    IF tokenCollections[a] = None \/ tokenCollections[a].slug = NoSlug
      THEN {} ELSE Range(tokenMetadata[tokenCollections[a].slug])

-----------------------------------------------------------------------------
(* The API requests.                                                       *)
Answered(r) == req' = [req EXCEPT ![r] = NoReq]

Upload(logo) ==
    /\ uploads < MaxUploads
    /\ uploads' = uploads + 1
    /\ logo = uploads'
    /\ files' = files \cup {logo}

Updating(s) ==
    \E r \in Requests : req[r].op \in {"removeLogo", "updateMetadata", "updateCollection"}
                          /\ req[r].slug = s

(* POST metadata/collections: a slug that exists is refused, else the logo *)
(* is uploaded, if one was sent.                                           *)
StoreContractMetadata(r, u, s) ==
    /\ req[r].op = "idle"
    /\ contractMetadata[s] = None
    /\ \E logo \in {NoLogo, uploads + 1} :
         /\ IF logo = NoLogo THEN UNCHANGED <<files, uploads>> ELSE Upload(logo)
         /\ req' = [req EXCEPT ![r] =
                     [NoReq EXCEPT !.op = "createMetadata", !.user = u, !.slug = s, !.logo = logo]]
    /\ UNCHANGED <<contractMetadata, tokenMetadata, tokenCollections, cards, chain,
                   contractJob, contractTask, tokenJob, tokenTask, history>>

(* contractMetadataModel.create; the loser of two requests for one slug    *)
(* gets a duplicate key error.                                             *)
CreateMetadata(r) ==
    LET s == req[r].slug
    IN  /\ req[r].op = "createMetadata"
        /\ IF contractMetadata[s] # None
             THEN UNCHANGED contractMetadata
             ELSE contractMetadata' = [contractMetadata EXCEPT ![s] =
                    [userId |-> req[r].user, tokenCollection |-> None, logo |-> req[r].logo]]
        /\ Answered(r)
        /\ UNCHANGED <<tokenMetadata, tokenCollections, cards, files, uploads, chain,
                       contractJob, contractTask, tokenJob, tokenTask, history>>

(* POST collections/:tokenCollectionId/cards: the owner of the collection, *)
(* which has metadata of the same owner and slug.  The token's files are   *)
(* stored before the identifier is read.                                   *)
StoreTokenMetadata(r, u, a) ==
    /\ req[r].op = "idle"
    /\ tokenCollections[a] # None
    /\ tokenCollections[a].userId = u
    /\ LET s == tokenCollections[a].slug
       IN  /\ FindMetadata(u, s)
           /\ Len(tokenMetadata[s]) < MaxTokens
           /\ req' = [req EXCEPT ![r] =
                       [NoReq EXCEPT !.op = "nextIdentifier", !.slug = s]]
    /\ UNCHANGED <<store, chain, contractJob, contractTask, tokenJob, tokenTask, history>>

GetNextTokenIdentifier(r) ==
    /\ req[r].op = "nextIdentifier"
    /\ req' = [req EXCEPT ![r].op = "createToken",
                          ![r].id = NextTokenIdentifier(req[r].slug)]
    /\ UNCHANGED <<store, chain, contractJob, contractTask, tokenJob, tokenTask, history>>

(* Mutant: no unique index on contractMetadataId and token_identifier.     *)
CreateTokenMetadataTwice(r) ==
    /\ req[r].op = "createToken"
    /\ tokenMetadata' = [tokenMetadata EXCEPT ![req[r].slug] = Append(@, req[r].id)]
    /\ Answered(r)
    /\ UNCHANGED <<contractMetadata, tokenCollections, cards, files, uploads, chain,
                   contractJob, contractTask, tokenJob, tokenTask, history>>

(* tokenMetadataModel.create; a request that read the same identifier gets *)
(* a duplicate key error.                                                  *)
CreateTokenMetadata(r) ==
    LET s == req[r].slug
    IN  /\ req[r].op = "createToken"
        /\ IF req[r].id \in Range(tokenMetadata[s])
             THEN UNCHANGED tokenMetadata
             ELSE tokenMetadata' = [tokenMetadata EXCEPT ![s] = Append(@, req[r].id)]
        /\ Answered(r)
        /\ UNCHANGED <<contractMetadata, tokenCollections, cards, files, uploads, chain,
                       contractJob, contractTask, tokenJob, tokenTask, history>>

(* PUT users/collections/:tokenCollectionId: the owner of the metadata of  *)
(* the collection's slug.  The collection as it is now is what the request *)
(* will take the old logo from; a new one, if sent, is uploaded.           *)
UpdateCollection(r, u, a) ==
    /\ req[r].op = "idle"
    /\ tokenCollections[a] # None
    /\ FindMetadata(u, tokenCollections[a].slug)
    /\ uploads < MaxUploads
    /\ \E logo \in {NoLogo, uploads + 1} :
         /\ IF logo = NoLogo THEN UNCHANGED <<files, uploads>> ELSE Upload(logo)
         /\ req' = [req EXCEPT ![r] =
                     [NoReq EXCEPT !.op = IF logo = NoLogo THEN "updateMetadata" ELSE "removeLogo",
                                   !.slug = tokenCollections[a].slug,
                                   !.logo = logo,
                                   !.old = IF logo = NoLogo THEN NoLogo
                                           ELSE tokenCollections[a].logo]]
    /\ overlapped' = overlapped \cup {s \in {tokenCollections[a].slug} : Updating(s)}
    /\ UNCHANGED <<contractMetadata, tokenMetadata, tokenCollections, cards, chain,
                   contractJob, contractTask, tokenJob, tokenTask,
                   failures, halfUpdated, unattached, halfCreated>>

(* storageService.remove of the logo the collection had, if it had one.    *)
RemoveLogo(r) ==
    /\ req[r].op = "removeLogo"
    /\ files' = files \ {req[r].old}
    /\ req' = [req EXCEPT ![r].op = "updateMetadata", ![r].old = NoLogo]
    /\ UNCHANGED <<contractMetadata, tokenMetadata, tokenCollections, cards, uploads, chain,
                   contractJob, contractTask, tokenJob, tokenTask, history>>

(* An update without a logo leaves the logo alone.                         *)
Updated(doc, r) == IF req[r].logo = NoLogo THEN doc ELSE [doc EXCEPT !.logo = req[r].logo]

(* Mutant: the metadata is not updated along with the collection.          *)
UpdateMetadataSkipped(r) ==
    /\ req[r].op = "updateMetadata"
    /\ req' = [req EXCEPT ![r].op = "updateCollection"]
    /\ UNCHANGED <<store, chain, contractJob, contractTask, tokenJob, tokenTask, history>>

(* updateCollectionBySlug: first the metadata ...                          *)
UpdateMetadata(r) ==
    /\ req[r].op = "updateMetadata"
    /\ contractMetadata' = [contractMetadata EXCEPT ![req[r].slug] = Updated(@, r)]
    /\ req' = [req EXCEPT ![r].op = "updateCollection"]
    /\ UNCHANGED <<tokenMetadata, tokenCollections, cards, files, uploads, chain,
                   contractJob, contractTask, tokenJob, tokenTask, history>>

(* ... then the collection of the slug.                                    *)
UpdateTokenCollection(r) ==
    /\ req[r].op = "updateCollection"
    /\ tokenCollections' = [a \in Addresses |->
           IF a \in CollectionsOf(req[r].slug)
             THEN Updated(tokenCollections[a], r) ELSE tokenCollections[a]]
    /\ Answered(r)
    /\ UNCHANGED <<contractMetadata, tokenMetadata, cards, files, uploads, chain,
                   contractJob, contractTask, tokenJob, tokenTask, history>>

(* A rejected call, or the end of the process, between two awaits.         *)
RequestFails(r) ==
    /\ req[r].op # "idle"
    /\ failures < MaxFailures
    /\ failures' = failures + 1
    /\ halfUpdated' = IF req[r].op \in {"updateMetadata", "updateCollection"}
                        THEN halfUpdated \cup {req[r].slug} ELSE halfUpdated
    /\ Answered(r)
    /\ UNCHANGED <<store, chain, contractJob, contractTask, tokenJob, tokenTask,
                   overlapped, unattached, halfCreated>>

-----------------------------------------------------------------------------
(* processCreatedContracts: one task per contract of the block.            *)
Rests(task) == task = NoTasks
AllDone(task) == \A a \in Addresses : task[a].at \in {"none", "done"}

ContractEvent(a) == CHOOSE e \in ContractsAt(contractJob) : e.address = a

StartContracts ==
    /\ Rests(contractTask)
    /\ ContractsAt(contractJob) # {}
    /\ contractTask' = [a \in Addresses |->
           IF \E e \in ContractsAt(contractJob) : e.address = a
             THEN [NoTask EXCEPT !.at = "find"] ELSE NoTask]
    /\ UNCHANGED <<store, chain, contractJob, tokenJob, tokenTask, req, history>>

(* createCollection up to the await on its metadata.  A uri that is no     *)
(* link ("none") gives a collection without metadata; a link out of the    *)
(* domain, with a wrong path or without its metadata gives none at all.    *)
FindContractMetadata(a) ==
    LET uri == ContractEvent(a).uri
    IN  /\ contractTask[a].at = "find"
        /\ contractTask' = [contractTask EXCEPT ![a] =
             CASE uri.kind = "none" -> [NoTask EXCEPT !.at = "create"]
               [] uri.kind = "ours" /\ FindMetadata(uri.user, uri.slug) ->
                    [NoTask EXCEPT !.at = "create", !.slug = uri.slug,
                                   !.logo = contractMetadata[uri.slug].logo]
               [] OTHER -> [NoTask EXCEPT !.at = "done"]]
        /\ UNCHANGED <<store, chain, contractJob, tokenJob, tokenTask, req, history>>

(* tokenCollectionModel.create; every exception is caught and returned as  *)
(* null, which ends the task.                                              *)
CreateCollection(a) ==
    LET t == contractTask[a]
    IN  /\ t.at = "create"
        /\ IF CollectionCollides(a, t.slug)
             THEN /\ contractTask' = [contractTask EXCEPT ![a].at = "done"]
                  /\ UNCHANGED tokenCollections
             ELSE /\ tokenCollections' = [tokenCollections EXCEPT ![a] =
                       [userId |-> ContractEvent(a).creator, slug |-> t.slug, logo |-> t.logo]]
                  /\ contractTask' = [contractTask EXCEPT
                                        ![a].at = IF t.slug = NoSlug THEN "done" ELSE "attach"]
        /\ UNCHANGED <<contractMetadata, tokenMetadata, cards, files, uploads, chain,
                       contractJob, tokenJob, tokenTask, req, history>>

(* attachTokenCollection.                                                  *)
AttachTokenCollection(a) ==
    /\ contractTask[a].at = "attach"
    /\ contractMetadata' = [contractMetadata EXCEPT ![contractTask[a].slug].tokenCollection = a]
    /\ contractTask' = [contractTask EXCEPT ![a].at = "done"]
    /\ UNCHANGED <<tokenMetadata, tokenCollections, cards, files, uploads, chain,
                   contractJob, tokenJob, tokenTask, req, history>>

(* Mutant: the cursor moves before the tasks are done.                     *)
IncreaseContractJobEarly ==
    /\ contractJob <= Len(chain)
    /\ Rests(contractTask) => ContractsAt(contractJob) = {}
    /\ contractJob' = contractJob + 1
    /\ contractTask' = NoTasks
    /\ UNCHANGED <<store, chain, tokenJob, tokenTask, req, history>>

(* increaseJobBlockNumber, after the tasks or at once on an empty block.   *)
IncreaseContractJob ==
    /\ contractJob <= Len(chain)
    /\ AllDone(contractTask)
    /\ Rests(contractTask) => ContractsAt(contractJob) = {}
    /\ contractJob' = contractJob + 1
    /\ contractTask' = NoTasks
    /\ UNCHANGED <<store, chain, tokenJob, tokenTask, req, history>>

(* The invocation throws or is killed; the next one starts the block anew. *)
ContractListenerFails ==
    /\ ~Rests(contractTask)
    /\ failures < MaxFailures
    /\ failures' = failures + 1
    /\ unattached' = unattached \cup {a \in Addresses : contractTask[a].at = "attach"}
    /\ contractTask' = NoTasks
    /\ UNCHANGED <<store, chain, contractJob, tokenJob, tokenTask, req,
                   overlapped, halfUpdated, halfCreated>>

-----------------------------------------------------------------------------
(* processCreatedTokens: one task per contract with tokens in the block.   *)
TokensOf(a) == {t \in TokensAt(tokenJob) : t.address = a}

StartTokens ==
    /\ Rests(tokenTask)
    /\ TokensAt(tokenJob) # {}
    /\ tokenTask' = [a \in Addresses |->
           IF TokensOf(a) # {} THEN [NoTask EXCEPT !.at = "find"] ELSE NoTask]
    /\ UNCHANGED <<store, chain, contractJob, contractTask, tokenJob, req, history>>

TokenInvocationEnds ==
    /\ tokenTask' = NoTasks
    /\ halfCreated' = IF \E a \in Addresses : tokenTask[a].at = "done" /\ tokenTask[a].found # {}
                        THEN halfCreated \cup {tokenJob} ELSE halfCreated

(* new URL(token.uri) of a malformed uri throws.                           *)
TokenUriThrows(a) ==
    /\ tokenTask[a].at = "find"
    /\ \E t \in TokensOf(a) : t.uri = "malformed"
    /\ TokenInvocationEnds
    /\ UNCHANGED <<store, chain, contractJob, contractTask, tokenJob, req,
                   failures, overlapped, halfUpdated, unattached>>

(* Mutant: one token of a contract is looked for and not all of them.      *)
FindTokenMetadataOfOne(a) ==
    /\ tokenTask[a].at = "find"
    /\ \A t \in TokensOf(a) : t.uri # "malformed"
    /\ LET found == {t.identifier : t \in {t \in TokensOf(a) : t.uri = "ours"}}
                      \cap DescribedTokens(a)
       IN  tokenTask' = [tokenTask EXCEPT ![a].found = {i \in found : \A j \in found : i <= j},
                                          ![a].at = IF found = {} THEN "done" ELSE "insert"]
    /\ UNCHANGED <<store, chain, contractJob, contractTask, tokenJob, req, history>>

(* createTokensByContract up to the await: the tokens of the domain whose  *)
(* metadata is stored.                                                     *)
FindTokenMetadata(a) ==
    /\ tokenTask[a].at = "find"
    /\ \A t \in TokensOf(a) : t.uri # "malformed"
    /\ LET found == {t.identifier : t \in {t \in TokensOf(a) : t.uri = "ours"}}
                      \cap DescribedTokens(a)
       IN  tokenTask' = [tokenTask EXCEPT ![a].found = found,
                                          ![a].at = IF found = {} THEN "done" ELSE "insert"]
    /\ UNCHANGED <<store, chain, contractJob, contractTask, tokenJob, req, history>>

(* Mutant: a duplicate key error is ignored.                               *)
CreateCardsUpsert(a) ==
    /\ tokenTask[a].at = "insert"
    /\ cards' = cards \cup {<<a, i>> : i \in tokenTask[a].found}
    /\ tokenTask' = [tokenTask EXCEPT ![a].at = "done"]
    /\ UNCHANGED <<contractMetadata, tokenMetadata, tokenCollections, files, uploads, chain,
                   contractJob, contractTask, tokenJob, req, history>>

(* insertMany, in the order of the identifiers: it stops at the first      *)
(* tokenId that exists and throws.                                         *)
CreateCards(a) ==
    LET found == tokenTask[a].found
        twice == {i \in found : <<a, i>> \in cards}
        fresh == {i \in found : \A j \in twice : i < j}
    IN  /\ tokenTask[a].at = "insert"
        /\ cards' = cards \cup {<<a, i>> : i \in fresh}
        /\ IF twice = {}
             THEN /\ tokenTask' = [tokenTask EXCEPT ![a].at = "done"]
                  /\ UNCHANGED halfCreated
             ELSE TokenInvocationEnds
        /\ UNCHANGED <<contractMetadata, tokenMetadata, tokenCollections, files, uploads, chain,
                       contractJob, contractTask, tokenJob, req,
                       failures, overlapped, halfUpdated, unattached>>

IncreaseTokenJob ==
    /\ tokenJob <= Len(chain)
    /\ AllDone(tokenTask)
    /\ Rests(tokenTask) => TokensAt(tokenJob) = {}
    /\ tokenJob' = tokenJob + 1
    /\ tokenTask' = NoTasks
    /\ UNCHANGED <<store, chain, contractJob, contractTask, req, history>>

TokenListenerFails ==
    /\ ~Rests(tokenTask)
    /\ failures < MaxFailures
    /\ failures' = failures + 1
    /\ TokenInvocationEnds
    /\ UNCHANGED <<store, chain, contractJob, contractTask, tokenJob, req,
                   overlapped, halfUpdated, unattached>>

-----------------------------------------------------------------------------
Request(r) ==
    \/ \E u \in Users, s \in Slugs : StoreContractMetadata(r, u, s)
    \/ \E u \in Users, a \in Addresses : StoreTokenMetadata(r, u, a)
    \/ \E u \in Users, a \in Addresses : UpdateCollection(r, u, a)
    \/ CreateMetadata(r)
    \/ GetNextTokenIdentifier(r)
    \/ CreateTokenMetadata(r)
    \/ RemoveLogo(r)
    \/ UpdateMetadata(r)
    \/ UpdateTokenCollection(r)

ContractTask(a) == FindContractMetadata(a) \/ CreateCollection(a) \/ AttachTokenCollection(a)
TokenTask(a)    == FindTokenMetadata(a) \/ TokenUriThrows(a) \/ CreateCards(a)

ContractListener == StartContracts \/ IncreaseContractJob \/ \E a \in Addresses : ContractTask(a)
TokenListener    == StartTokens \/ IncreaseTokenJob \/ \E a \in Addresses : TokenTask(a)

Failure == ContractListenerFails \/ TokenListenerFails \/ \E r \in Requests : RequestFails(r)

Next ==
    \/ \E blk \in BlockChoices : NewBlock(blk)
    \/ \E r \in Requests : Request(r)
    \/ ContractListener
    \/ TokenListener
    \/ Failure

Spec == Init /\ [][Next]_vars

(* The schedule starts both listeners every minute; nothing forces the     *)
(* chain or a client on.                                                   *)
FairSpec == Spec /\ WF_vars(ContractListener) /\ WF_vars(TokenListener)

-----------------------------------------------------------------------------
MetadataDocs ==
    [userId : Users, tokenCollection : Addresses \cup {None}, logo : Nat \cup {NoLogo}]
CollectionDocs ==
    [userId : Users, slug : Slugs \cup {NoSlug}, logo : Nat \cup {NoLogo}]

ASSUME DocsAssumption == None \notin MetadataDocs \cup CollectionDocs

TypeOK ==
    /\ contractMetadata \in [Slugs -> MetadataDocs \cup {None}]
    /\ tokenMetadata \in [Slugs -> Seq(Nat)]
    /\ tokenCollections \in [Addresses -> CollectionDocs \cup {None}]
    /\ cards \subseteq Addresses \X Nat
    /\ files \subseteq 1..uploads
    /\ uploads \in Nat
    /\ chain \in Seq(BlockChoices)
    /\ contractJob \in Nat \ {0} /\ tokenJob \in Nat \ {0}
    /\ \A a \in Addresses :
         /\ contractTask[a].at \in {"none", "find", "create", "attach", "done"}
         /\ tokenTask[a].at \in {"none", "find", "insert", "done"}
    /\ \A r \in Requests :
         req[r].op # "idle" => req[r].slug \in Slugs

(* The identifiers handed out for a collection are 1, 2, 3, ... in the     *)
(* order of the insertions, however the requests that read the maximum and *)
(* then insert interleave: a URI is given to one token only and none is    *)
(* left out (getNextTokenIdentifier against the unique index).             *)
IdentifiersInOrder ==
    \A s \in Slugs : \A i \in DOMAIN tokenMetadata[s] : tokenMetadata[s][i] = i

(* A slug belongs to one collection, and a metadata that is attached is    *)
(* attached to the collection of its slug, also when two contracts of one  *)
(* block name the same metadata and both find it.                          *)
AttachedToItsCollection ==
    \A s \in Slugs :
        /\ Cardinality(CollectionsOf(s)) <= 1
        /\ contractMetadata[s] # None /\ contractMetadata[s].tokenCollection # None
             => CollectionsOf(s) = {contractMetadata[s].tokenCollection}

(* A collection that was made from a metadata is attached to it once its   *)
(* block is done.  Only a task that ended between the two writes leaves it *)
(* unattached, and then for ever: the replayed task finds the collection   *)
(* and stops.                                                              *)
AttachedUnlessCutShort ==
    \A a \in Addresses :
        tokenCollections[a] # None =>
            LET s == tokenCollections[a].slug
            IN  \/ s = NoSlug
                \/ contractTask[a].at = "attach"
                \/ IF a \in unattached
                     THEN contractMetadata[s].tokenCollection = None
                     ELSE contractMetadata[s].tokenCollection = a

(* A collection and its metadata name one another, or the code explains    *)
(* why not, under two contracts of one block and a failure anywhere.       *)
AttachmentsSound == TypeOK /\ AttachedToItsCollection /\ AttachedUnlessCutShort

(* The collection's copy of the metadata agrees with the metadata when no  *)
(* update is under way, unless two updates overlapped or one ended between *)
(* its two writes.                                                         *)
CopiesAgree ==
    \A a \in Addresses :
        tokenCollections[a] # None =>
            LET s == tokenCollections[a].slug
            IN  s = NoSlug \/ s \in overlapped \cup halfUpdated \/ Updating(s)
                  \/ contractMetadata[s].logo = tokenCollections[a].logo

(* A logo that a metadata or a collection shows is in S3, even when        *)
(* several updates each remove the logo they read before they write their  *)
(* own.  Only an update under way, or one that ended after the removal,    *)
(* shows a logo that is gone.                                              *)
LogoStored ==
    \A s \in Slugs \ halfUpdated :
        Updating(s) \/
            /\ contractMetadata[s] = None \/ contractMetadata[s].logo \in files \cup {NoLogo}
            /\ \A a \in CollectionsOf(s) : tokenCollections[a].logo \in files \cup {NoLogo}

(* What overlapping and failing updates may do to the logo of a collection *)
(* is confined to those collections.                                       *)
UpdatesConfined == CopiesAgree /\ LogoStored

(* A card has a collection, a minted token and stored metadata behind it:  *)
(* no token of a foreign contract, uri or identifier becomes a card.       *)
CardsDescribed ==
    \A c \in cards :
        /\ c \in Minted
        /\ c[2] \in DescribedTokens(c[1])
        /\ \E b \in DOMAIN chain : \E t \in TokensAt(b) :
               <<t.address, t.identifier>> = c /\ t.uri = "ours"

(* An invocation that ends after it inserted the cards of a block and      *)
(* before it moved the cursor stops the listener for good: every replay    *)
(* inserts them again and throws on the unique tokenId.                    *)
HalfCreatedNeverPassed == \A b \in halfCreated : tokenJob = b

(* Cards come from described tokens only, and a block that was cut short   *)
(* is never passed.                                                        *)
CardsSound == CardsDescribed /\ HalfCreatedNeverPassed

(* A deployed contract whose metadata is stored when the listener gets to  *)
(* its block has a collection of that slug in the end, whatever fails on   *)
(* the way: its own, or that of the contract that was faster.              *)
EveryDescribedContractListed ==
    \A s \in Slugs, u \in Users :
        (\E b \in DOMAIN chain :
            /\ b > contractJob \/ (b = contractJob /\ Rests(contractTask))
            /\ \E e \in ContractsAt(b) :
                 e.uri.kind = "ours" /\ e.uri.slug = s /\ e.uri.user = u
            /\ FindMetadata(u, s))
        ~> CollectionsOf(s) # {}

(* A minted token whose metadata is stored when the listener gets to its   *)
(* block becomes a card, unless the listener is stopped at this block or   *)
(* before it, by a malformed uri or by an invocation cut short.            *)
Stopped(b) ==
    \/ b \in halfCreated
    \/ \E t \in TokensAt(b) : t.uri = "malformed"

EveryDescribedTokenListed ==
    \A b \in 1..MaxBlocks, a \in Addresses, i \in 1..MaxTokens :
        (/\ b > tokenJob \/ (b = tokenJob /\ Rests(tokenTask))
         /\ \E t \in TokensAt(b) : t.address = a /\ t.identifier = i /\ t.uri = "ours"
         /\ i \in DescribedTokens(a))
        ~> (<<a, i>> \in cards \/ \E k \in 1..b : Stopped(k))
=============================================================================
