------------------------------- MODULE Members -------------------------------
(***************************************************************************)
(* The users: they ask for a text to sign and sign in with it, which makes *)
(* the user on the first time; a session lasts until they sign out.  With  *)
(* a session they edit their profile, react to cards, view them and follow *)
(* one another.  A request runs from one await to the next; requests of    *)
(* all users interleave, and the listeners make users as well.             *)
(*                                                                         *)
(* A user, a session and a text to sign are named by the order in which    *)
(* they were made.  Of a profile the model has the slug.  What a client    *)
(* asks for is a member of Bodies.                                         *)
(***************************************************************************)
EXTENDS Integers, Sequences, FiniteSets

CONSTANTS
    Addresses, Slugs, Cards, Requests,
    NoSlug, NoAddress, NoCard,
    SameSlug,       \* a profile that leaves its field slug out
    Bodies,         \* what the clients ask for
    SignatureExpiresIn,
    MaxUsers,       \* bound: users
    MaxBegun,       \* bound: requests in all
    MaxTime,        \* bound: the clock
    MaxFailures     \* bound: requests that end half-way

ASSUME MembersAssumption ==
    /\ NoSlug \notin Slugs /\ SameSlug \notin Slugs \cup {NoSlug} /\ NoAddress \notin Addresses
    /\ SignatureExpiresIn \in Nat /\ MaxUsers \in Nat
    /\ IsFiniteSet(Requests)

Reactions == {"like", "dislike"}
Kinds == {"none", "login", "creator", "logout", "profile", "view", "follow", "unfollow"} \cup Reactions

(* What a request may say: a signer gives his address and a visitor of a   *)
(* card its id; a session or a user may be anything.  An empty slug is     *)
(* NoSlug, which is null in the documents.                                 *)
AskedSlugs == Slugs \cup {NoSlug, SameSlug}

ASSUME BodiesAssumption ==
    /\ Bodies \subseteq [kind : Kinds, address : Addresses \cup {NoAddress}, signature : Nat,
                         session : Nat, slug : AskedSlugs, card : Cards \cup {NoCard},
                         whom : Nat]
    /\ \A b \in Bodies :
         /\ b.kind \in {"login", "creator"} => b.address \in Addresses
         /\ b.kind \in Reactions \cup {"view"} => b.card \in Cards

VARIABLES
    users,          \* the documents [ethAddress, slug]
    sessions,       \* the documents [userId, open, signer]; signer is history
    signatures,     \* expireAt of the texts to sign
    likes, dislikes,    \* card -> user -> how often he is in the array
    viewers,        \* card -> the users that have a card viewer
    viewersCount,   \* card -> the counter of the card
    follows,        \* pair of users -> how many documents it has
    now, req, begun, failures,
    signedOut,      \* history: sessions whose sign-out was answered
    refused,        \* history: addresses that signed and were refused
    reactedTwice,   \* history: user, card and reaction he asked for twice at once
    uncounted       \* history: card -> the viewers whose request was cut short

UserIds == 1..MaxUsers
Pairs   == UserIds \X UserIds

engagement == <<likes, dislikes, viewers, viewersCount, follows>>
accounts   == <<users, sessions, signatures>>
history    == <<signedOut, refused, reactedTwice, uncounted>>
vars       == <<accounts, engagement, now, req, begun, failures, history>>

NoReq == [at |-> "idle", kind |-> "none", address |-> NoAddress, user |-> 0, session |-> 0,
          slug |-> NoSlug, card |-> NoCard, whom |-> 0, listed |-> FALSE]

Init ==
    /\ users = <<>> /\ sessions = <<>> /\ signatures = <<>>
    /\ likes = [c \in Cards |-> [u \in UserIds |-> 0]]
    /\ dislikes = [c \in Cards |-> [u \in UserIds |-> 0]]
    /\ viewers = [c \in Cards |-> {}]
    /\ viewersCount = [c \in Cards |-> 0]
    /\ follows = [p \in Pairs |-> 0]
    /\ now = 0
    /\ req = [r \in Requests |-> NoReq]
    /\ begun = 0 /\ failures = 0
    /\ signedOut = {} /\ refused = {} /\ reactedTwice = {}
    /\ uncounted = [c \in Cards |-> {}]

-----------------------------------------------------------------------------
Answered(r)   == req' = [req EXCEPT ![r] = NoReq]
Goes(r, step) == req' = [req EXCEPT ![r].at = step]

Begins(r, first) ==
    /\ req[r].at = "idle"
    /\ begun < MaxBegun
    /\ begun' = begun + 1
    /\ req' = [req EXCEPT ![r] = first]

Tick ==
    /\ now < MaxTime
    /\ now' = now + 1
    /\ UNCHANGED <<accounts, engagement, req, begun, failures, history>>

(* The unique indexes on ethAddress, and on slug where there is one.       *)
WithAddress(a) == {u \in DOMAIN users : users[u].ethAddress = a}
WithSlug(s)    == {u \in DOMAIN users : s # NoSlug /\ users[u].slug = s}

NewUser(a) == [ethAddress |-> a, slug |-> NoSlug]

(* syncUsers: a listener upserts the address of a token owner or taker.    *)
SyncUser(a) ==
    /\ Len(users) < MaxUsers
    /\ WithAddress(a) = {}
    /\ users' = Append(users, NewUser(a))
    /\ UNCHANGED <<sessions, signatures, engagement, now, req, begun, failures, history>>

-----------------------------------------------------------------------------
(* GET auth/signature/:walletType.                                         *)
RequestSignature ==
    /\ begun < MaxBegun
    /\ begun' = begun + 1
    /\ signatures' = Append(signatures, now + SignatureExpiresIn)
    /\ UNCHANGED <<users, sessions, engagement, now, req, failures, history>>

ActualSignature(id) == id \in DOMAIN signatures /\ signatures[id] >= now

(* POST auth/login, validateUser up to the search of the user: the text is *)
(* found, and signed by the address.  Anything else is refused.            *)
Login(r, b) ==
    /\ b.kind = "login"
    /\ ActualSignature(b.signature)
    /\ Begins(r, [NoReq EXCEPT !.at = "findUser", !.kind = "login", !.address = b.address])
    /\ UNCHANGED <<accounts, engagement, now, failures, history>>

(* findOrCreateUserByEthAddress of a listener takes the same two steps.    *)
FindOrCreateUser(r, b) ==
    /\ b.kind = "creator"
    /\ Begins(r, [NoReq EXCEPT !.at = "findUser", !.kind = "creator", !.address = b.address])
    /\ UNCHANGED <<accounts, engagement, now, failures, history>>

AfterUser(r, u) ==
    IF req[r].kind = "login"
      THEN req' = [req EXCEPT ![r].at = "createSession", ![r].user = u]
      ELSE Answered(r)

FindUser(r) ==
    LET found == WithAddress(req[r].address)
    IN  /\ req[r].at = "findUser"
        /\ IF found = {} THEN Goes(r, "createUser")
             ELSE \E u \in found : AfterUser(r, u)
        /\ UNCHANGED <<accounts, engagement, now, begun, failures, history>>

(* Mutant: when the address exists, the user made last is taken.           *)
CreateUserOrLast(r) ==
    LET a == req[r].address
    IN  /\ req[r].at = "createUser"
        /\ Len(users) < MaxUsers \/ WithAddress(a) # {}
        /\ IF WithAddress(a) = {}
             THEN users' = Append(users, NewUser(a)) /\ AfterUser(r, Len(users) + 1)
             ELSE UNCHANGED users /\ AfterUser(r, Len(users))
        /\ UNCHANGED <<sessions, signatures, engagement, now, begun, failures, history>>

(* createUser: an address that was created meanwhile throws, and a login   *)
(* answers 401.                                                            *)
CreateUser(r) ==
    LET a == req[r].address
    IN  /\ req[r].at = "createUser"
        /\ IF WithAddress(a) = {}
             THEN /\ Len(users) < MaxUsers
                  /\ users' = Append(users, NewUser(a))
                  /\ AfterUser(r, Len(users) + 1)
                  /\ UNCHANGED refused
             ELSE /\ refused' = IF req[r].kind = "login" THEN refused \cup {a} ELSE refused
                  /\ Answered(r)
                  /\ UNCHANGED users
        /\ UNCHANGED <<sessions, signatures, engagement, now, begun, failures,
                       signedOut, reactedTwice, uncounted>>

CreateUserSession(r) ==
    /\ req[r].at = "createSession"
    /\ sessions' = Append(sessions, [userId |-> req[r].user, open |-> TRUE,
                                     signer |-> req[r].address])
    /\ Answered(r)
    /\ UNCHANGED <<users, signatures, engagement, now, begun, failures, history>>

-----------------------------------------------------------------------------
(* JwtStrategy.validate of the token's session: it exists and is active.   *)
(* (Its user exists: no user is ever deleted.)                             *)
Authenticated(b) ==
    /\ b.session \in DOMAIN sessions
    /\ sessions[b.session].open

Asks(r, b, kind, first) ==
    /\ b.kind = kind
    /\ Authenticated(b)
    /\ Begins(r, [first EXCEPT !.kind = kind, !.session = b.session,
                               !.user = sessions[b.session].userId])

Logout(r, b) ==
    /\ Asks(r, b, "logout", [NoReq EXCEPT !.at = "deleteSession"])
    /\ UNCHANGED <<accounts, engagement, now, failures, history>>

DeleteSession(r) ==
    /\ req[r].at = "deleteSession"
    /\ sessions' = [sessions EXCEPT ![req[r].session].open = FALSE]
    /\ signedOut' = signedOut \cup {req[r].session}
    /\ Answered(r)
    /\ UNCHANGED <<users, signatures, engagement, now, begun, failures,
                   refused, reactedTwice, uncounted>>

(* PUT users/:id up to the upload of the avatar: a slug of another user is *)
(* refused.                                                                *)
UpdateProfile(r, b) ==
    /\ Asks(r, b, "profile", [NoReq EXCEPT !.at = "storeProfile", !.slug = b.slug])
    /\ WithSlug(b.slug) \subseteq {sessions[b.session].userId}
    /\ UNCHANGED <<accounts, engagement, now, failures, history>>

(* updateUserById: an empty slug clears the one there was, and a slug that *)
(* was taken meanwhile throws.                                             *)
StoreProfile(r) ==
    LET q == req[r]
    IN  /\ q.at = "storeProfile"
        /\ IF q.slug = SameSlug \/ ~(WithSlug(q.slug) \subseteq {q.user})
             THEN UNCHANGED users
             ELSE users' = [users EXCEPT ![q.user].slug = q.slug]
        /\ Answered(r)
        /\ UNCHANGED <<sessions, signatures, engagement, now, begun, failures, history>>

-----------------------------------------------------------------------------
(* PUT cards/:cardId/like and /dislike, and toggleLikeOrDislike up to its  *)
(* write: is the user in the array of the reaction?                        *)
ReadReaction(r, b) ==
    /\ b.kind \in Reactions
    /\ Authenticated(b)
    /\ LET u       == sessions[b.session].userId
           array   == IF b.kind = "like" THEN likes ELSE dislikes
           listed  == array[b.card][u] > 0
           another == \E q \in Requests :
                        /\ req[q].at = "react" /\ req[q].kind = b.kind /\ ~req[q].listed
                        /\ req[q].user = u /\ req[q].card = b.card
       IN  /\ Asks(r, b, b.kind, [NoReq EXCEPT !.at = "react", !.card = b.card, !.listed = listed])
           /\ reactedTwice' = IF another /\ ~listed THEN reactedTwice \cup {<<u, b.card, b.kind>>}
                                ELSE reactedTwice
    /\ UNCHANGED <<accounts, engagement, now, failures, signedOut, refused, uncounted>>

(* Mutant: the other reaction stays.                                       *)
ReactLeavesOther(r) ==
    LET q == req[r]
    IN  /\ q.at = "react"
        /\ IF q.kind = "like"
             THEN /\ likes' = [likes EXCEPT ![q.card][q.user] = IF q.listed THEN 0 ELSE @ + 1]
                  /\ UNCHANGED dislikes
             ELSE /\ dislikes' = [dislikes EXCEPT ![q.card][q.user] = IF q.listed THEN 0 ELSE @ + 1]
                  /\ UNCHANGED likes
        /\ Answered(r)
        /\ UNCHANGED <<accounts, viewers, viewersCount, follows, now, begun, failures, history>>

(* One update: $pull of all his entries, or $push here and $pull there.    *)
Toggled(array, other, q) ==
    /\ array' = [array EXCEPT ![q.card][q.user] = IF q.listed THEN 0 ELSE @ + 1]
    /\ other' = IF q.listed THEN other ELSE [other EXCEPT ![q.card][q.user] = 0]

React(r) ==
    LET q == req[r]
    IN  /\ q.at = "react"
        /\ \/ q.kind = "like"    /\ Toggled(likes, dislikes, q)
           \/ q.kind = "dislike" /\ Toggled(dislikes, likes, q)
        /\ Answered(r)
        /\ UNCHANGED <<accounts, viewers, viewersCount, follows, now, begun, failures, history>>

-----------------------------------------------------------------------------
(* GET cards/:cardId with a session, processViewersCount: a user who is a  *)
(* viewer is not counted again.                                            *)
ViewCard(r, b) ==
    /\ Asks(r, b, "view", [NoReq EXCEPT !.at = "storeViewer", !.card = b.card])
    /\ sessions[b.session].userId \notin viewers[b.card]
    /\ UNCHANGED <<accounts, engagement, now, failures, history>>

(* Mutant: the pair of user and card has no unique index.                  *)
StoreViewerTwice(r) ==
    LET q == req[r]
    IN  /\ q.at = "storeViewer"
        /\ viewers' = [viewers EXCEPT ![q.card] = @ \cup {q.user}]
        /\ Goes(r, "countViewer")
        /\ UNCHANGED <<accounts, likes, dislikes, viewersCount, follows, now, begun, failures, history>>

(* The loser of two requests of a new viewer throws on the unique index.   *)
StoreViewer(r) ==
    LET q == req[r]
    IN  /\ q.at = "storeViewer"
        /\ IF q.user \in viewers[q.card]
             THEN Answered(r) /\ UNCHANGED viewers
             ELSE /\ viewers' = [viewers EXCEPT ![q.card] = @ \cup {q.user}]
                  /\ Goes(r, "countViewer")
        /\ UNCHANGED <<accounts, likes, dislikes, viewersCount, follows, now, begun, failures, history>>

IncreaseViewersCount(r) ==
    /\ req[r].at = "countViewer"
    /\ viewersCount' = [viewersCount EXCEPT ![req[r].card] = @ + 1]
    /\ Answered(r)
    /\ UNCHANGED <<accounts, likes, dislikes, viewers, follows, now, begun, failures, history>>

-----------------------------------------------------------------------------
(* POST and DELETE follows/users/:userId; the user exists.                 *)
Follow(r, b) ==
    /\ Asks(r, b, "follow", [NoReq EXCEPT !.at = "storeFollow", !.whom = b.whom])
    /\ b.whom \in DOMAIN users
    /\ follows[<<sessions[b.session].userId, b.whom>>] = 0
    /\ UNCHANGED <<accounts, engagement, now, failures, history>>

StoreNewFollow(r) ==
    LET p == <<req[r].user, req[r].whom>>
    IN  /\ req[r].at = "storeFollow"
        /\ follows' = IF follows[p] > 0 THEN follows ELSE [follows EXCEPT ![p] = 1]
        /\ Answered(r)
        /\ UNCHANGED <<accounts, likes, dislikes, viewers, viewersCount, now, begun, failures, history>>

Unfollow(r, b) ==
    /\ Asks(r, b, "unfollow", [NoReq EXCEPT !.at = "removeFollow", !.whom = b.whom])
    /\ b.whom \in DOMAIN users
    /\ follows[<<sessions[b.session].userId, b.whom>>] > 0
    /\ UNCHANGED <<accounts, engagement, now, failures, history>>

RemoveFollow(r) ==
    /\ req[r].at = "removeFollow"
    /\ follows' = [follows EXCEPT ![<<req[r].user, req[r].whom>>] = 0]
    /\ Answered(r)
    /\ UNCHANGED <<accounts, likes, dislikes, viewers, viewersCount, now, begun, failures, history>>

-----------------------------------------------------------------------------
(* A rejected call, or the end of the process, between two awaits.         *)
RequestFails(r) ==
    /\ req[r].at # "idle"
    /\ failures < MaxFailures
    /\ failures' = failures + 1
    /\ uncounted' = IF req[r].at = "countViewer"
                      THEN [uncounted EXCEPT ![req[r].card] = @ \cup {req[r].user}]
                      ELSE uncounted
    /\ Answered(r)
    /\ UNCHANGED <<accounts, engagement, now, begun, signedOut, refused, reactedTwice>>

Begin(r, b) ==
    \/ Login(r, b) \/ FindOrCreateUser(r, b) \/ Logout(r, b) \/ UpdateProfile(r, b)
    \/ ReadReaction(r, b) \/ ViewCard(r, b) \/ Follow(r, b) \/ Unfollow(r, b)

Continue(r) ==
    \/ FindUser(r) \/ CreateUser(r) \/ CreateUserSession(r) \/ DeleteSession(r)
    \/ StoreProfile(r) \/ React(r)
    \/ StoreViewer(r) \/ IncreaseViewersCount(r)
    \/ StoreNewFollow(r) \/ RemoveFollow(r)

Next ==
    \/ Tick \/ RequestSignature
    \/ \E a \in Addresses : SyncUser(a)
    \/ \E r \in Requests, b \in Bodies : Begin(r, b)
    \/ \E r \in Requests : Continue(r) \/ RequestFails(r)

Spec == Init /\ [][Next]_vars

-----------------------------------------------------------------------------
Steps == {"idle", "findUser", "createUser", "createSession", "deleteSession", "storeProfile",
          "react", "storeViewer", "countViewer", "storeFollow", "removeFollow"}

TypeOK ==
    /\ users \in Seq([ethAddress : Addresses, slug : Slugs \cup {NoSlug}])
    /\ sessions \in Seq([userId : UserIds, open : BOOLEAN, signer : Addresses])
    /\ signatures \in Seq(Nat)
    /\ likes \in [Cards -> [UserIds -> Nat]] /\ dislikes \in [Cards -> [UserIds -> Nat]]
    /\ viewers \in [Cards -> SUBSET UserIds] /\ viewersCount \in [Cards -> Nat]
    /\ follows \in [Pairs -> Nat]
    /\ now \in Nat
    /\ req \in [Requests -> [at : Steps, kind : Kinds, address : Addresses \cup {NoAddress},
                             user : UserIds \cup {0}, session : Nat, slug : AskedSlugs,
                             card : Cards \cup {NoCard}, whom : UserIds \cup {0},
                             listed : BOOLEAN]]

(* An address has one user and a slug one user, however many logins and    *)
(* listeners find at once that the address is new, and however many        *)
(* profiles that the slug is free.                                         *)
OneUserPerName ==
    \A u, v \in DOMAIN users : u # v =>
        /\ users[u].ethAddress # users[v].ethAddress
        /\ users[u].slug = users[v].slug => users[u].slug = NoSlug

(* A session belongs to the user of the address that signed, also when     *)
(* several addresses sign in for the first time at once.                   *)
SessionOfItsSigner ==
    \A s \in DOMAIN sessions :
        /\ sessions[s].userId \in DOMAIN users
        /\ users[sessions[s].userId].ethAddress = sessions[s].signer

(* A login with a good signature is refused only when its user was created *)
(* while it ran: the user is there, and the next login finds him.          *)
RefusedOnlyIfKnown == \A a \in refused : WithAddress(a) # {}

(* Once a sign-out is answered its session lets no request in any more.    *)
SignedOutStaysOut == \A s \in signedOut : ~sessions[s].open

(* A user never both likes and dislikes a card, whatever his requests read *)
(* before they write.                                                      *)
NeverBothReactions ==
    \A c \in Cards, u \in UserIds : likes[c][u] = 0 \/ dislikes[c][u] = 0

(* He is in an array once, unless two of his likes of the card, or two of  *)
(* his dislikes, were under way at once and neither found him in it        *)
(* (countLikes then counts him twice).                                     *)
OneReactionPerUser ==
    \A c \in Cards, u \in UserIds :
        /\ likes[c][u] <= 1    \/ <<u, c, "like">> \in reactedTwice
        /\ dislikes[c][u] <= 1 \/ <<u, c, "dislike">> \in reactedTwice

(* The counter of a card is the number of its viewers, but for those whose *)
(* request has yet to count them or was cut short before it did: nobody is *)
(* counted twice, and nobody else is missed.                               *)
Counting(c) == {r \in Requests : req[r].at = "countViewer" /\ req[r].card = c}

ViewersCounted ==
    \A c \in Cards :
        viewersCount[c] + Cardinality(Counting(c)) + Cardinality(uncounted[c])
          = Cardinality(viewers[c])

(* A user follows another with one document, also when he asked twice at   *)
(* once: countFollowers counts him once.                                   *)
OneFollowPerPair == \A p \in Pairs : follows[p] <= 1

(* Who somebody is: one user for an address, a session of the user who     *)
(* signed, which ends when he signs out, and no address locked out.        *)
AccountsSound ==
    /\ TypeOK
    /\ OneUserPerName /\ SessionOfItsSigner
    /\ RefusedOnlyIfKnown /\ SignedOutStaysOut

(* What a card tells of a user's reaction, under any requests of his.      *)
ReactionsSound == NeverBothReactions /\ OneReactionPerUser

(* Those who are counted, the viewers of a card and the followers of a     *)
(* user, are counted once.                                                 *)
CountedOnce == ViewersCounted /\ OneFollowPerPair
=============================================================================
