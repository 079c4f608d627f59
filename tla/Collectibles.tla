---------------------------- MODULE Collectibles ----------------------------
(***************************************************************************)
(* The collectibles of external clients.  A client, a program that signs   *)
(* its requests, hands in a collectible of its own with a picture and a    *)
(* name.  One request makes, one after another and each when it is not     *)
(* there yet, the user of the marketplace (Members), the contract metadata *)
(* of the client's slug, the metadata of a token under the next            *)
(* identifier, and the collectible that refers to it.                      *)
(*                                                                         *)
(* The slug of a client holds its id, so clients have different slugs; the *)
(* metadata of a slug is named by its client.  A client retries, so two    *)
(* requests for one collectible may be under way.                          *)
(***************************************************************************)
EXTENDS Members, FiniteSetsExt

CONSTANTS
    Clients, ExternalIds,
    MarketAddress,  \* the address of the marketplace's own key
    ClientRequests, \* bound: requests of clients served at once
    NoClient, NoExternal

ASSUME ClientsAssumption ==
    MarketAddress \in Addresses /\ NoClient \notin Clients /\ NoExternal \notin ExternalIds

VARIABLES
    contractMetadata,   \* client -> the user of the metadata of its slug, or 0
    tokenMetadata,      \* client -> the token identifiers under that metadata
    collectibles,       \* the documents [client, external, token]
    creq,               \* the requests of the clients
    cutShort, outrun    \* history: [client, external, token] of requests that ended
                        \*   before they stored the collectible, or that lost to another

catalogue == <<contractMetadata, tokenMetadata, collectibles>>
spent     == <<cutShort, outrun>>
cvars     == <<catalogue, creq, spent>>

NoAsk == [at |-> "idle", client |-> NoClient, external |-> NoExternal, owner |-> 0, token |-> 0]

CollectiblesInit ==
    /\ contractMetadata = [c \in Clients |-> 0]
    /\ tokenMetadata = [c \in Clients |-> <<>>]
    /\ collectibles = {}
    /\ creq = [q \in ClientRequests |-> NoAsk]
    /\ cutShort = {} /\ outrun = {}

-----------------------------------------------------------------------------
Replied(q)       == creq' = [creq EXCEPT ![q] = NoAsk]
Proceeds(q, step) == creq' = [creq EXCEPT ![q].at = step]

Stored(q) == [client |-> creq[q].client, external |-> creq[q].external, token |-> creq[q].token]

Identifiers(c) == {tokenMetadata[c][i] : i \in DOMAIN tokenMetadata[c]}

(* The unique index on clientId and externalCollectibleId.                 *)
HasCollectible(c, x) == \E d \in collectibles : d.client = c /\ d.external = x

(* Another user stores the metadata of his collection under the slug.      *)
StoreContractMetadata(c, u) ==
    /\ contractMetadata[c] = 0
    /\ users[u].ethAddress # MarketAddress
    /\ contractMetadata' = [contractMetadata EXCEPT ![c] = u]
    /\ UNCHANGED <<vars, tokenMetadata, collectibles, creq, spent>>

(* POST external/collectibles: one that exists is refused.                 *)
ExistsCollectible(q, c, x) ==
    /\ creq[q].at = "idle"
    /\ begun < MaxBegun
    /\ begun' = begun + 1
    /\ ~HasCollectible(c, x)
    /\ creq' = [creq EXCEPT ![q] = [NoAsk EXCEPT !.at = "findOwner", !.client = c, !.external = x]]
    /\ UNCHANGED <<accounts, engagement, now, req, failures, history, catalogue, spent>>

(* findOrCreateUserByEthAddress, in its two calls.                         *)
FindMarketUser(q) ==
    LET found == WithAddress(MarketAddress)
    IN  /\ creq[q].at = "findOwner"
        /\ \/ found = {} /\ Proceeds(q, "createOwner")
           \/ \E u \in found : creq' = [creq EXCEPT ![q].at = "findMetadata", ![q].owner = u]
        /\ UNCHANGED <<vars, catalogue, spent>>

CreateMarketUser(q) ==
    /\ creq[q].at = "createOwner"
    /\ IF WithAddress(MarketAddress) # {}
         THEN UNCHANGED users /\ Replied(q)
         ELSE /\ Len(users) < MaxUsers
              /\ users' = Append(users, NewUser(MarketAddress))
              /\ creq' = [creq EXCEPT ![q].at = "findMetadata", ![q].owner = Len(users) + 1]
    /\ UNCHANGED <<sessions, signatures, engagement, now, req, begun, failures, history,
                   catalogue, spent>>

-----------------------------------------------------------------------------
(* findMetadataByUserIdAndSlug, of the marketplace's user.                 *)
FindClientMetadata(q) ==
    /\ creq[q].at = "findMetadata"
    /\ Proceeds(q, IF contractMetadata[creq[q].client] = creq[q].owner
                     THEN "storeFile" ELSE "existsMetadata")
    /\ UNCHANGED <<vars, catalogue, spent>>

(* existsMetadataBySlug: the metadata of another user turns the client     *)
(* away, and so does one that the marketplace stored since.                *)
ExistsMetadataBySlug(q) ==
    /\ creq[q].at = "existsMetadata"
    /\ IF contractMetadata[creq[q].client] # 0 THEN Replied(q) ELSE Proceeds(q, "storeMetadata")
    /\ UNCHANGED <<vars, catalogue, spent>>

(* storeMetadata: a slug that was stored meanwhile throws.                 *)
StoreClientMetadata(q) ==
    /\ creq[q].at = "storeMetadata"
    /\ IF contractMetadata[creq[q].client] # 0
         THEN Replied(q) /\ UNCHANGED contractMetadata
         ELSE /\ contractMetadata' = [contractMetadata EXCEPT ![creq[q].client] = creq[q].owner]
              /\ Proceeds(q, "storeFile")
    /\ UNCHANGED <<vars, tokenMetadata, collectibles, spent>>

-----------------------------------------------------------------------------
(* The picture is fetched and stored; what is no picture is removed again  *)
(* and turns the client away.                                              *)
StoreTokenFileFromUrl(q) ==
    /\ creq[q].at = "storeFile"
    /\ Proceeds(q, "nextToken") \/ Replied(q)
    /\ UNCHANGED <<vars, catalogue, spent>>

GetNextTokenIdentifier(q) ==
    /\ creq[q].at = "nextToken"
    /\ creq' = [creq EXCEPT ![q].at = "storeToken",
                            ![q].token = Max(Identifiers(creq[q].client) \cup {0}) + 1]
    /\ UNCHANGED <<vars, catalogue, spent>>

(* The identifier of a metadata is unique: the loser throws.               *)
StoreTokenMetadata(q) ==
    LET c == creq[q].client
    IN  /\ creq[q].at = "storeToken"
        /\ IF creq[q].token \in Identifiers(c)
             THEN Replied(q) /\ UNCHANGED tokenMetadata
             ELSE /\ tokenMetadata' = [tokenMetadata EXCEPT ![c] = Append(@, creq[q].token)]
                  /\ Proceeds(q, "store")
        /\ UNCHANGED <<vars, contractMetadata, collectibles, spent>>

(* Mutant: a collectible that exists is stored again.                      *)
StoreCollectibleTwice(q) ==
    /\ creq[q].at = "store"
    /\ collectibles' = collectibles \cup {Stored(q)}
    /\ Replied(q)
    /\ UNCHANGED <<vars, contractMetadata, tokenMetadata, spent>>

(* The loser of two requests for one collectible throws and leaves its     *)
(* token metadata behind.                                                  *)
StoreCollectible(q) ==
    /\ creq[q].at = "store"
    /\ IF HasCollectible(creq[q].client, creq[q].external)
         THEN outrun' = outrun \cup {Stored(q)} /\ UNCHANGED collectibles
         ELSE collectibles' = collectibles \cup {Stored(q)} /\ UNCHANGED outrun
    /\ Replied(q)
    /\ UNCHANGED <<vars, contractMetadata, tokenMetadata, cutShort>>

(* A rejected call, or the end of the process, between two awaits.         *)
ClientRequestFails(q) ==
    /\ creq[q].at # "idle"
    /\ failures < MaxFailures
    /\ failures' = failures + 1
    /\ cutShort' = IF creq[q].at = "store" THEN cutShort \cup {Stored(q)} ELSE cutShort
    /\ Replied(q)
    /\ UNCHANGED <<accounts, engagement, now, req, begun, history, catalogue, outrun>>

ClientStep(q) ==
    \/ FindMarketUser(q) \/ CreateMarketUser(q)
    \/ FindClientMetadata(q) \/ ExistsMetadataBySlug(q) \/ StoreClientMetadata(q)
    \/ StoreTokenFileFromUrl(q) \/ GetNextTokenIdentifier(q)
    \/ StoreTokenMetadata(q) \/ StoreCollectible(q)

CollectiblesNext ==
    \/ Next /\ UNCHANGED cvars
    \/ \E c \in Clients, u \in DOMAIN users : StoreContractMetadata(c, u)
    \/ \E q \in ClientRequests :
         \/ \E c \in Clients, x \in ExternalIds : ExistsCollectible(q, c, x)
         \/ ClientStep(q) \/ ClientRequestFails(q)

(* The members and the clients together, from the start of both.          *)
CollectiblesSpec == Init /\ CollectiblesInit /\ [][CollectiblesNext]_<<vars, cvars>>

-----------------------------------------------------------------------------
Storing  == {q \in ClientRequests : creq[q].at = "store"}
Underway == {Stored(q) : q \in Storing}
Taken    == collectibles \cup Underway \cup cutShort \cup outrun

(* However requests race and fail: a client has a collectible once, under  *)
(* the metadata of the marketplace's user; its tokens count up from 1; and *)
(* a token belongs to one collectible, or to one request about to store    *)
(* it, or it is left over from one that was cut short or found the         *)
(* collectible stored by another.                                          *)
CollectiblesSound ==
    /\ \A d, e \in collectibles : d.client = e.client /\ d.external = e.external => d = e
    /\ \A c \in Clients :
         /\ tokenMetadata[c] # <<>> => contractMetadata[c] \in WithAddress(MarketAddress)
         /\ \A i \in DOMAIN tokenMetadata[c] : tokenMetadata[c][i] = i
         /\ {d.token : d \in {e \in Taken : e.client = c}} = DOMAIN tokenMetadata[c]
    /\ \A d, e \in Taken : d.client = e.client /\ d.token = e.token => d = e
    /\ \A p, q \in Storing : Stored(p) = Stored(q) => p = q
    /\ collectibles \cap (Underway \cup cutShort \cup outrun) = {}
    /\ Underway \cap (cutShort \cup outrun) = {} /\ cutShort \cap outrun = {}
    /\ \A d \in outrun : HasCollectible(d.client, d.external)
=============================================================================
