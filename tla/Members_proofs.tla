--------------------------- MODULE Members_proofs ---------------------------
(***************************************************************************)
(* Proofs about Members and Collectibles, for any addresses, cards,        *)
(* clients, requests and bounds: the state keeps its type and a request    *)
(* what its next step relies on; a user has one reaction to a card, but    *)
(* for reactions at once; the viewers of a card and the followers of a     *)
(* user are counted once; clients disturb none of this, and a token of     *)
(* theirs is of one collectible or left over.                              *)
(***************************************************************************)
EXTENDS Collectibles, SequenceTheorems, FiniteSetTheorems, TLAPS

USE MembersAssumption DEF UserIds, Pairs

(* What the later steps of a request take for granted of the users and the *)
(* sessions there are.                                                     *)
Relies(q, us, ss) ==
    /\ q.at \in {"findUser", "createUser", "createSession"} => q.address \in Addresses
    /\ q.at \in {"createSession", "storeProfile", "react", "storeViewer", "countViewer",
                 "storeFollow", "removeFollow"} => q.user \in us
    /\ q.at = "deleteSession" => q.session \in ss
    /\ q.at \in {"react", "storeViewer", "countViewer"} => q.card \in Cards
    /\ q.at = "react" => q.kind \in Reactions
    /\ q.at \in {"storeFollow", "removeFollow"} => q.whom \in UserIds

TInv ==
    /\ TypeOK
    /\ Len(users) <= MaxUsers
    /\ \A s \in DOMAIN sessions : sessions[s].userId \in DOMAIN users
    /\ \A r \in Requests : Relies(req[r], DOMAIN users, DOMAIN sessions)

UserDocs    == [ethAddress : Addresses, slug : Slugs \cup {NoSlug}]
SessionDocs == [userId : UserIds, open : BOOLEAN, signer : Addresses]
ReqDocs     == [at : Steps, kind : Kinds, address : Addresses \cup {NoAddress},
                user : UserIds \cup {0}, session : Nat, slug : AskedSlugs,
                card : Cards \cup {NoCard}, whom : UserIds \cup {0}, listed : BOOLEAN]

-----------------------------------------------------------------------------
(* What a request is after a step of it, and that the others stay.         *)
LEMMA OneRequestChanges ==
    ASSUME NEW r \in Requests, NEW q, req \in [Requests -> ReqDocs],
           req' = [req EXCEPT ![r] = q]
    PROVE  req'[r] = q /\ \A p \in Requests \ {r} : req'[p] = req[p]
OBVIOUS

LEMMA NoReqTyped == NoReq \in ReqDocs /\ \A us, ss : Relies(NoReq, us, ss)
BY DEF NoReq, ReqDocs, Relies, Steps, Kinds, AskedSlugs

(* Accounts that only grow, and sessions that stay their users'.           *)
AccountsGrow ==
    /\ users' \in Seq(UserDocs) /\ DOMAIN users \subseteq DOMAIN users' /\ Len(users') <= MaxUsers
    /\ sessions' \in Seq(SessionDocs) /\ DOMAIN sessions \subseteq DOMAIN sessions'
    /\ \A s \in DOMAIN sessions' : sessions'[s].userId \in DOMAIN users'

(* A step of one request keeps what all of them rely on, if it leaves a    *)
(* request that may rely on what is there.                                 *)
LEMMA StepOfOne ==
    ASSUME TInv, AccountsGrow, NEW r \in Requests, NEW q \in ReqDocs, Relies(q, DOMAIN users', DOMAIN sessions'),
           req' = [req EXCEPT ![r] = q]
    PROVE  req' \in [Requests -> ReqDocs] /\ \A p \in Requests : Relies(req'[p], DOMAIN users', DOMAIN sessions')
<1>1. req \in [Requests -> ReqDocs]
  BY DEF TInv, TypeOK, ReqDocs
<1>2. req' \in [Requests -> ReqDocs]
  BY <1>1
<1>3. \A p \in Requests : req'[p] = IF p = r THEN q ELSE req[p]
  BY <1>1
<1>4. \A p \in Requests : Relies(req[p], DOMAIN users, DOMAIN sessions)
  BY DEF TInv
<1>5. ASSUME NEW p \in Requests PROVE Relies(req'[p], DOMAIN users', DOMAIN sessions')
  BY <1>3, <1>4, <1>5 DEF Relies, AccountsGrow
<1> QED BY <1>2, <1>5

EngagementTyped ==
    /\ likes \in [Cards -> [UserIds -> Nat]] /\ dislikes \in [Cards -> [UserIds -> Nat]]
    /\ viewers \in [Cards -> SUBSET UserIds] /\ viewersCount \in [Cards -> Nat]
    /\ follows \in [Pairs -> Nat]
    /\ signatures \in Seq(Nat) /\ now \in Nat

LEMMA Assemble ==
    ASSUME AccountsGrow, EngagementTyped',
           req' \in [Requests -> ReqDocs], \A p \in Requests : Relies(req'[p], DOMAIN users', DOMAIN sessions')
    PROVE  TInv'
BY DEF AccountsGrow, EngagementTyped, TInv, TypeOK, ReqDocs, UserDocs, SessionDocs

LEMMA Unfold ==
    ASSUME TInv
    PROVE  /\ users \in Seq(UserDocs) /\ DOMAIN users = 1..Len(users) /\ Len(users) \in 0..MaxUsers
           /\ DOMAIN users \subseteq UserIds
           /\ sessions \in Seq(SessionDocs) /\ DOMAIN sessions = 1..Len(sessions)
           /\ \A s \in DOMAIN sessions : sessions[s] \in SessionDocs
           /\ \A s \in DOMAIN sessions : sessions[s].userId \in DOMAIN users
           /\ req \in [Requests -> ReqDocs] /\ \A r \in Requests : req[r] \in ReqDocs
           /\ \A r \in Requests : Relies(req[r], DOMAIN users, DOMAIN sessions)
           /\ EngagementTyped
<1>1. /\ users \in Seq(UserDocs) /\ sessions \in Seq(SessionDocs)
      /\ req \in [Requests -> ReqDocs] /\ EngagementTyped
  BY DEF TInv, TypeOK, UserDocs, SessionDocs, ReqDocs, EngagementTyped
<1>2. /\ Len(users) \in Nat /\ DOMAIN users = 1..Len(users)
      /\ DOMAIN sessions = 1..Len(sessions)
      /\ \A s \in DOMAIN sessions : sessions[s] \in SessionDocs
  BY <1>1, LenProperties, ElementOfSeq
<1> QED BY <1>1, <1>2 DEF TInv

LEMMA AccountsStay ==
    ASSUME TInv, UNCHANGED <<users, sessions>>
    PROVE  AccountsGrow
BY Unfold DEF AccountsGrow, TInv

(* A step that begins or ends a request, or moves it on, and no more.      *)
LEMMA OnlyRequest ==
    ASSUME TInv, UNCHANGED <<accounts, engagement, now>>, NEW r \in Requests, NEW q \in ReqDocs,
           Relies(q, DOMAIN users, DOMAIN sessions), req' = [req EXCEPT ![r] = q]
    PROVE  TInv'
<1>1. AccountsGrow
  BY AccountsStay DEF accounts
<1>2. Relies(q, DOMAIN users', DOMAIN sessions')
  BY DEF Relies, accounts
<1>3. EngagementTyped'
  BY Unfold DEF EngagementTyped, accounts, engagement
<1> QED BY <1>1, <1>2, <1>3, StepOfOne, Assemble

LEMMA SessionsUser ==
    ASSUME TInv, NEW b \in Bodies, Authenticated(b)
    PROVE  /\ b.session \in DOMAIN sessions /\ b.session \in Nat
           /\ sessions[b.session].userId \in DOMAIN users
           /\ sessions[b.session].userId \in UserIds
<1>1. b.session \in DOMAIN sessions
  BY DEF Authenticated
<1>2. DOMAIN sessions \subseteq Nat
  BY Unfold
<1> QED BY <1>1, <1>2, Unfold

(* A request that begins is typed and has what it relies on.               *)
LEMMA BeginTyped ==
    ASSUME TInv, NEW r \in Requests, NEW b \in Bodies, Begin(r, b)
    PROVE  TInv'
<1> USE DEF Begins
<1>0. /\ b.kind \in Kinds /\ b.address \in Addresses \cup {NoAddress}
      /\ b.slug \in AskedSlugs /\ NoSlug \in AskedSlugs /\ b.card \in Cards \cup {NoCard}
      /\ b.kind \in {"login", "creator"} => b.address \in Addresses
      /\ b.kind \in Reactions \cup {"view"} => b.card \in Cards
  BY BodiesAssumption DEF AskedSlugs
<1>1. CASE Login(r, b)
  <2> DEFINE q == [NoReq EXCEPT !.at = "findUser", !.kind = "login", !.address = b.address]
  <2>1. q \in ReqDocs /\ Relies(q, DOMAIN users, DOMAIN sessions)
    BY <1>0, <1>1 DEF Login, NoReq, ReqDocs, Relies, Steps, Kinds
  <2> QED BY <2>1, <1>1, OnlyRequest DEF Login, accounts, engagement
<1>2. CASE FindOrCreateUser(r, b)
  <2> DEFINE q == [NoReq EXCEPT !.at = "findUser", !.kind = "creator", !.address = b.address]
  <2>1. q \in ReqDocs /\ Relies(q, DOMAIN users, DOMAIN sessions)
    BY <1>0, <1>2 DEF FindOrCreateUser, NoReq, ReqDocs, Relies, Steps, Kinds
  <2> QED BY <2>1, <1>2, OnlyRequest DEF FindOrCreateUser, accounts, engagement
<1>3. CASE Logout(r, b)
  <2> DEFINE q == [[NoReq EXCEPT !.at = "deleteSession"] EXCEPT !.kind = "logout",
                     !.session = b.session, !.user = sessions[b.session].userId]
  <2>1. Authenticated(b) /\ b.kind = "logout"
    BY <1>3 DEF Logout, Asks
  <2>3. q \in ReqDocs /\ Relies(q, DOMAIN users, DOMAIN sessions)
    BY <1>0, <2>1, SessionsUser DEF NoReq, ReqDocs, Relies, Steps, Kinds
  <2> QED BY <2>3, <1>3, OnlyRequest DEF Logout, Asks, accounts, engagement
<1>4. CASE UpdateProfile(r, b)
  <2> DEFINE q == [[NoReq EXCEPT !.at = "storeProfile", !.slug = b.slug] EXCEPT !.kind = "profile",
                     !.session = b.session, !.user = sessions[b.session].userId]
  <2>1. Authenticated(b) /\ b.kind = "profile"
    BY <1>4 DEF UpdateProfile, Asks
  <2>3. q \in ReqDocs /\ Relies(q, DOMAIN users, DOMAIN sessions)
    BY <1>0, <2>1, SessionsUser DEF NoReq, ReqDocs, Relies, Steps, Kinds
  <2> QED BY <2>3, <1>4, OnlyRequest DEF UpdateProfile, Asks, accounts, engagement
<1>5. CASE ReadReaction(r, b)
  <2> DEFINE array == IF b.kind = "like" THEN likes ELSE dislikes
             listed == array[b.card][sessions[b.session].userId] > 0
             first == [NoReq EXCEPT !.at = "react", !.card = b.card, !.listed = listed]
             q == [first EXCEPT !.kind = b.kind, !.session = b.session,
                                !.user = sessions[b.session].userId]
  <2>1. Authenticated(b) /\ b.kind \in Reactions
    BY <1>5 DEF ReadReaction
  <2>2. q \in ReqDocs /\ Relies(q, DOMAIN users, DOMAIN sessions)
    <3>1. listed \in BOOLEAN
      OBVIOUS
    <3> HIDE DEF listed
    <3> QED BY <1>0, <2>1, <3>1, SessionsUser DEF NoReq, ReqDocs, Relies, Steps, Kinds
  <2> QED BY <2>2, <1>5, OnlyRequest DEF ReadReaction, Asks, accounts, engagement
<1>6. CASE ViewCard(r, b)
  <2> DEFINE q == [[NoReq EXCEPT !.at = "storeViewer", !.card = b.card] EXCEPT !.kind = "view",
                     !.session = b.session, !.user = sessions[b.session].userId]
  <2>1. Authenticated(b) /\ b.kind = "view"
    BY <1>6 DEF ViewCard, Asks
  <2>3. q \in ReqDocs /\ Relies(q, DOMAIN users, DOMAIN sessions)
    BY <1>0, <2>1, SessionsUser DEF NoReq, ReqDocs, Relies, Steps, Kinds
  <2> QED BY <2>3, <1>6, OnlyRequest DEF ViewCard, Asks, accounts, engagement
<1>7. CASE Follow(r, b)
  <2> DEFINE q == [[NoReq EXCEPT !.at = "storeFollow", !.whom = b.whom] EXCEPT !.kind = "follow",
                     !.session = b.session, !.user = sessions[b.session].userId]
  <2>1. Authenticated(b) /\ b.kind = "follow"
    BY <1>7 DEF Follow, Asks
  <2>2. b.whom \in UserIds
    BY <1>7, Unfold DEF Follow
  <2>3. q \in ReqDocs /\ Relies(q, DOMAIN users, DOMAIN sessions)
    BY <1>0, <2>1, <2>2, SessionsUser DEF NoReq, ReqDocs, Relies, Steps, Kinds
  <2> QED BY <2>3, <1>7, OnlyRequest DEF Follow, Asks, accounts, engagement
<1>8. CASE Unfollow(r, b)
  <2> DEFINE q == [[NoReq EXCEPT !.at = "removeFollow", !.whom = b.whom] EXCEPT !.kind = "unfollow",
                     !.session = b.session, !.user = sessions[b.session].userId]
  <2>1. Authenticated(b) /\ b.kind = "unfollow"
    BY <1>8 DEF Unfollow, Asks
  <2>2. b.whom \in UserIds
    BY <1>8, Unfold DEF Unfollow
  <2>3. q \in ReqDocs /\ Relies(q, DOMAIN users, DOMAIN sessions)
    BY <1>0, <2>1, <2>2, SessionsUser DEF NoReq, ReqDocs, Relies, Steps, Kinds
  <2> QED BY <2>3, <1>8, OnlyRequest DEF Unfollow, Asks, accounts, engagement
<1> QED BY <1>1, <1>2, <1>3, <1>4, <1>5, <1>6, <1>7, <1>8 DEF Begin

-----------------------------------------------------------------------------
LEMMA NewUserGrows ==
    ASSUME TInv, NEW a \in Addresses, Len(users) < MaxUsers,
           users' = Append(users, NewUser(a)), sessions' = sessions
    PROVE  /\ AccountsGrow
           /\ DOMAIN users' = 1..(Len(users) + 1)
           /\ users'[Len(users) + 1] = NewUser(a)
           /\ \A u \in DOMAIN users : users'[u] = users[u]
<1>1. NewUser(a) \in UserDocs
  BY DEF NewUser, UserDocs
<1>2. /\ users' \in Seq(UserDocs) /\ Len(users') = Len(users) + 1
      /\ \A u \in 1..Len(users) : users'[u] = users[u]
      /\ users'[Len(users) + 1] = NewUser(a)
  BY <1>1, Unfold, AppendProperties
<1>3. DOMAIN users' = 1..(Len(users) + 1)
  BY <1>2, LenProperties
<1> QED BY <1>2, <1>3, Unfold DEF AccountsGrow

LEMMA NewSessionGrows ==
    ASSUME TInv, NEW d \in SessionDocs, d.userId \in DOMAIN users,
           sessions' = Append(sessions, d), users' = users
    PROVE  /\ AccountsGrow
           /\ DOMAIN sessions' = 1..(Len(sessions) + 1)
           /\ sessions'[Len(sessions) + 1] = d
           /\ \A s \in DOMAIN sessions : sessions'[s] = sessions[s]
<1>1. /\ sessions' \in Seq(SessionDocs) /\ Len(sessions') = Len(sessions) + 1
      /\ \A s \in 1..Len(sessions) : sessions'[s] = sessions[s]
      /\ sessions'[Len(sessions) + 1] = d
  BY Unfold, AppendProperties
<1>2. DOMAIN sessions' = 1..(Len(sessions) + 1)
  BY <1>1, LenProperties
<1>3. users' \in Seq(UserDocs) /\ Len(users') <= MaxUsers
  BY Unfold
<1>4. ASSUME NEW s \in DOMAIN sessions' PROVE sessions'[s].userId \in DOMAIN users'
  <2>1. CASE s = Len(sessions) + 1
    BY <1>1, <2>1
  <2>2. CASE s \in 1..Len(sessions)
    BY <1>1, <2>2, Unfold
  <2> QED BY <1>2, <2>1, <2>2, Unfold
<1>5. DOMAIN sessions \subseteq DOMAIN sessions'
  BY <1>2, Unfold
<1> QED BY <1>1, <1>2, <1>3, <1>4, <1>5, Unfold DEF AccountsGrow

LEMMA SessionsMarked ==
    ASSUME TInv, NEW k \in DOMAIN sessions, users' = users,
           sessions' = [sessions EXCEPT ![k].open = FALSE]
    PROVE  AccountsGrow
<1>1. sessions' \in Seq(SessionDocs) /\ DOMAIN sessions' = DOMAIN sessions
  <2>1. [sessions[k] EXCEPT !.open = FALSE] \in SessionDocs
    BY Unfold DEF SessionDocs
  <2>2. sessions' = [sessions EXCEPT ![k] = [sessions[k] EXCEPT !.open = FALSE]]
    OBVIOUS
  <2>3. k \in 1..Len(sessions)
    BY Unfold
  <2> HIDE DEF SessionDocs
  <2> QED BY <2>1, <2>2, <2>3, Unfold, ExceptSeq
<1>2. \A s \in DOMAIN sessions' : sessions'[s].userId = sessions[s].userId
  BY Unfold DEF SessionDocs
<1> QED BY <1>1, <1>2, Unfold DEF AccountsGrow

LEMMA ProfileStored ==
    ASSUME TInv, NEW u \in DOMAIN users, NEW slug \in Slugs \cup {NoSlug}, sessions' = sessions,
           users' = [users EXCEPT ![u].slug = slug]
    PROVE  AccountsGrow /\ DOMAIN users' = DOMAIN users
<1>1. users[u] \in UserDocs
  BY Unfold, ElementOfSeq
<1>2. [users[u] EXCEPT !.slug = slug] \in UserDocs
  BY <1>1 DEF UserDocs
<1>3. users' = [users EXCEPT ![u] = [users[u] EXCEPT !.slug = slug]]
  OBVIOUS
<1>4. users' \in Seq(UserDocs) /\ Len(users') = Len(users) /\ DOMAIN users' = DOMAIN users
  BY <1>2, <1>3, Unfold, ExceptSeq
<1> QED BY <1>4, Unfold DEF AccountsGrow

-----------------------------------------------------------------------------
(* The later steps.                                                        *)
LEMMA Ends ==
    ASSUME TInv, AccountsGrow, EngagementTyped', NEW r \in Requests, Answered(r)
    PROVE  TInv'
BY StepOfOne, Assemble, NoReqTyped DEF Answered

LEMMA GoesOn ==
    ASSUME TInv, AccountsGrow, EngagementTyped', NEW r \in Requests, NEW step \in Steps,
           Goes(r, step), Relies([req[r] EXCEPT !.at = step], DOMAIN users', DOMAIN sessions')
    PROVE  TInv'
<1> DEFINE q == [req[r] EXCEPT !.at = step]
<1>1. q \in ReqDocs
  BY Unfold DEF ReqDocs
<1>2. req' = [req EXCEPT ![r] = q]
  BY DEF Goes
<1> QED BY <1>1, <1>2, StepOfOne, Assemble

LEMMA AfterUserTyped ==
    ASSUME TInv, AccountsGrow, EngagementTyped', NEW r \in Requests,
           NEW u \in DOMAIN users', DOMAIN users' \subseteq UserIds, AfterUser(r, u),
           req[r].address \in Addresses
    PROVE  TInv'
<1>1. CASE req[r].kind = "login"
  <2> DEFINE q == [req[r] EXCEPT !.at = "createSession", !.user = u]
  <2>1. q \in ReqDocs
    BY Unfold DEF ReqDocs, Steps
  <2>2. Relies(q, DOMAIN users', DOMAIN sessions')
    BY Unfold DEF Relies, ReqDocs
  <2>3. req' = [req EXCEPT ![r] = q]
    BY <1>1 DEF AfterUser
  <2> QED BY <2>1, <2>2, <2>3, StepOfOne, Assemble
<1>2. CASE req[r].kind # "login"
  BY <1>2, Ends DEF AfterUser
<1> QED BY <1>1, <1>2

LEMMA EngagementStays ==
    ASSUME TInv, UNCHANGED <<engagement, signatures, now>>
    PROVE  EngagementTyped'
BY Unfold DEF EngagementTyped, engagement

(* One update of both arrays of a card.                                    *)
Counts(array, other, array2, other2, q) ==
    /\ array2 = [array EXCEPT ![q.card][q.user] = IF q.listed THEN 0 ELSE @ + 1]
    /\ other2 = IF q.listed THEN other ELSE [other EXCEPT ![q.card][q.user] = 0]

Arrays == [Cards -> [UserIds -> Nat]]

LEMMA CountsTyped ==
    ASSUME NEW array \in Arrays, NEW other \in Arrays, NEW array2, NEW other2, NEW q,
           q.card \in Cards, q.user \in UserIds, Counts(array, other, array2, other2, q)
    PROVE  /\ array2 \in Arrays /\ other2 \in Arrays
           /\ array2[q.card][q.user] = IF q.listed THEN 0 ELSE array[q.card][q.user] + 1
           /\ other2[q.card][q.user] = IF q.listed THEN other[q.card][q.user] ELSE 0
           /\ \A c \in Cards, u \in UserIds : c # q.card \/ u # q.user =>
                array2[c][u] = array[c][u] /\ other2[c][u] = other[c][u]
<1> DEFINE n == IF q.listed THEN 0 ELSE array[q.card][q.user] + 1
<1>1. n \in Nat
  <2>1. array[q.card] \in [UserIds -> Nat]
    BY DEF Arrays
  <2>2. array[q.card][q.user] \in Nat
    BY <2>1
  <2> QED BY <2>2
<1>2. array2 = [array EXCEPT ![q.card] = [array[q.card] EXCEPT ![q.user] = n]]
  BY DEF Counts
<1> HIDE DEF n
<1>3. [array[q.card] EXCEPT ![q.user] = n] \in [UserIds -> Nat]
  <2>1. array[q.card] \in [UserIds -> Nat]
    BY DEF Arrays
  <2> QED BY <1>1, <2>1
<1>4. /\ array2 \in Arrays
      /\ array2[q.card][q.user] = n
      /\ \A c \in Cards, u \in UserIds : c # q.card \/ u # q.user => array2[c][u] = array[c][u]
  BY <1>2, <1>3 DEF Arrays
<1>5. CASE q.listed
  BY <1>4, <1>5 DEF Counts, n
<1>6. CASE ~q.listed
  <2>1. other2 = [other EXCEPT ![q.card] = [other[q.card] EXCEPT ![q.user] = 0]]
    BY <1>6 DEF Counts
  <2>2. [other[q.card] EXCEPT ![q.user] = 0] \in [UserIds -> Nat]
    <3>1. other[q.card] \in [UserIds -> Nat]
      BY DEF Arrays
    <3> QED BY <3>1
  <2>3. /\ other2 \in Arrays
        /\ other2[q.card][q.user] = 0
        /\ \A c \in Cards, u \in UserIds : c # q.card \/ u # q.user => other2[c][u] = other[c][u]
    BY <2>1, <2>2 DEF Arrays
  <2> QED BY <1>4, <1>6, <2>3 DEF n
<1> QED BY <1>5, <1>6

LEMMA ContinueTyped ==
    ASSUME TInv, NEW r \in Requests, Continue(r)
    PROVE  TInv'
<1>1. CASE FindUser(r)
  <2>1. AccountsGrow /\ EngagementTyped'
    BY <1>1, AccountsStay, EngagementStays DEF FindUser, accounts
  <2>2. req[r].at = "findUser" /\ req[r].address \in Addresses
    BY <1>1, Unfold DEF FindUser, Relies
  <2>3. CASE WithAddress(req[r].address) = {}
    <3>1. Goes(r, "createUser")
      BY <1>1, <2>3 DEF FindUser
    <3>2. Relies([req[r] EXCEPT !.at = "createUser"], DOMAIN users', DOMAIN sessions')
      BY <2>2, Unfold DEF Relies, ReqDocs
    <3> QED BY <2>1, <3>1, <3>2, GoesOn DEF Steps
  <2>4. CASE WithAddress(req[r].address) # {}
    <3>1. PICK u \in WithAddress(req[r].address) : AfterUser(r, u)
      BY <1>1, <2>4 DEF FindUser
    <3>2. u \in DOMAIN users' /\ DOMAIN users' \subseteq UserIds
      BY <1>1, <3>1, Unfold DEF FindUser, WithAddress, accounts
    <3> QED BY <2>1, <2>2, <3>1, <3>2, AfterUserTyped
  <2> QED BY <2>3, <2>4
<1>2. CASE CreateUser(r)
  <2>1. EngagementTyped' /\ sessions' = sessions
    BY <1>2, EngagementStays DEF CreateUser
  <2>2. req[r].address \in Addresses
    BY <1>2, Unfold DEF CreateUser, Relies
  <2>3. CASE WithAddress(req[r].address) = {}
    <3>1. /\ Len(users) < MaxUsers /\ users' = Append(users, NewUser(req[r].address))
          /\ AfterUser(r, Len(users) + 1)
      BY <1>2, <2>3 DEF CreateUser
    <3>2. AccountsGrow /\ Len(users) + 1 \in DOMAIN users' /\ DOMAIN users' \subseteq UserIds
      BY <2>1, <2>2, <3>1, NewUserGrows, Unfold
    <3> QED BY <2>1, <2>2, <3>1, <3>2, AfterUserTyped
  <2>4. CASE WithAddress(req[r].address) # {}
    BY <1>2, <2>1, <2>4, AccountsStay, Ends DEF CreateUser
  <2> QED BY <2>3, <2>4
<1>3. CASE CreateUserSession(r)
  <2> DEFINE d == [userId |-> req[r].user, open |-> TRUE, signer |-> req[r].address]
  <2>1. d \in SessionDocs /\ d.userId \in DOMAIN users
    BY <1>3, Unfold DEF CreateUserSession, Relies, SessionDocs
  <2>2. EngagementTyped' /\ Answered(r) /\ sessions' = Append(sessions, d) /\ users' = users
    BY <1>3, EngagementStays DEF CreateUserSession
  <2> HIDE DEF d
  <2> QED BY <2>1, <2>2, NewSessionGrows, Ends
<1>4. CASE DeleteSession(r)
  <2>1. req[r].session \in DOMAIN sessions
    BY <1>4, Unfold DEF DeleteSession, Relies
  <2> QED BY <1>4, <2>1, SessionsMarked, EngagementStays, Ends DEF DeleteSession
<1>5. CASE StoreProfile(r)
  <2>1. EngagementTyped' /\ Answered(r) /\ sessions' = sessions
    BY <1>5, EngagementStays DEF StoreProfile
  <2>2. CASE users' = users
    BY <2>1, <2>2, AccountsStay, Ends
  <2>3. CASE users' # users
    <3>1. req[r].user \in DOMAIN users /\ req[r].slug \in Slugs \cup {NoSlug}
      BY <1>5, <2>3, Unfold DEF StoreProfile, Relies, ReqDocs, AskedSlugs
    <3>2. users' = [users EXCEPT ![req[r].user].slug = req[r].slug]
      BY <1>5, <2>3 DEF StoreProfile
    <3> QED BY <2>1, <3>1, <3>2, ProfileStored, Ends
  <2> QED BY <2>2, <2>3
<1>6. CASE React(r)
  <2>1. AccountsGrow /\ Answered(r)
    BY <1>6, AccountsStay DEF React, accounts
  <2>2. req[r].card \in Cards /\ req[r].user \in UserIds
    BY <1>6, Unfold DEF React, Relies
  <2>3. /\ Counts(likes, dislikes, likes', dislikes', req[r]) \/ Counts(dislikes, likes, dislikes', likes', req[r])
        /\ UNCHANGED <<viewers, viewersCount, follows, signatures, now>>
    BY <1>6 DEF React, Toggled, Counts, accounts
  <2>4. likes' \in [Cards -> [UserIds -> Nat]] /\ dislikes' \in [Cards -> [UserIds -> Nat]]
    BY <2>2, <2>3, CountsTyped, Unfold DEF EngagementTyped, Arrays
  <2>5. EngagementTyped'
    BY <2>3, <2>4, Unfold DEF EngagementTyped
  <2> QED BY <2>1, <2>5, Ends
<1>7. CASE StoreViewer(r)
  <2>1. AccountsGrow
    BY <1>7, AccountsStay DEF StoreViewer, accounts
  <2>2. /\ req[r].at = "storeViewer" /\ req[r].card \in Cards
        /\ req[r].user \in DOMAIN users /\ req[r].user \in UserIds
    BY <1>7, Unfold DEF StoreViewer, Relies
  <2>3. EngagementTyped'
    <3>1. \/ viewers' = viewers
          \/ viewers' = [viewers EXCEPT ![req[r].card] = @ \cup {req[r].user}]
      BY <1>7 DEF StoreViewer
    <3>2. viewers[req[r].card] \cup {req[r].user} \in SUBSET UserIds
      BY <2>2, Unfold DEF EngagementTyped
    <3>4. viewers' \in [Cards -> SUBSET UserIds]
      BY <3>1, <3>2, Unfold DEF EngagementTyped
    <3>3. UNCHANGED <<likes, dislikes, viewersCount, follows, signatures, now>>
      BY <1>7 DEF StoreViewer, accounts
    <3> QED BY <3>3, <3>4, Unfold DEF EngagementTyped
  <2>4. CASE Answered(r)
    BY <2>1, <2>3, <2>4, Ends
  <2>5. CASE Goes(r, "countViewer")
    <3>1. Relies([req[r] EXCEPT !.at = "countViewer"], DOMAIN users', DOMAIN sessions')
      BY <1>7, <2>2, Unfold DEF StoreViewer, Relies, ReqDocs, accounts
    <3> QED BY <2>1, <2>3, <2>5, <3>1, GoesOn DEF Steps
  <2> QED BY <1>7, <2>4, <2>5 DEF StoreViewer
<1>8. CASE IncreaseViewersCount(r)
  <2>1. EngagementTyped'
    BY <1>8, Unfold DEF IncreaseViewersCount, Relies, EngagementTyped, accounts
  <2> QED BY <1>8, <2>1, AccountsStay, Ends DEF IncreaseViewersCount, accounts
<1>9. CASE StoreNewFollow(r)
  <2>1. EngagementTyped'
    BY <1>9, Unfold DEF StoreNewFollow, Relies, EngagementTyped, accounts
  <2> QED BY <1>9, <2>1, AccountsStay, Ends DEF StoreNewFollow, accounts
<1>10. CASE RemoveFollow(r)
  <2>1. EngagementTyped'
    BY <1>10, Unfold DEF RemoveFollow, Relies, EngagementTyped, accounts
  <2> QED BY <1>10, <2>1, AccountsStay, Ends DEF RemoveFollow, accounts
<1> QED BY <1>1, <1>2, <1>3, <1>4, <1>5, <1>6, <1>7, <1>8, <1>9, <1>10 DEF Continue

(* The state keeps its type, and every request has what it relies on.      *)
LEMMA TypeInductive ==
    /\ Init => TInv
    /\ TInv /\ [Next]_vars => TInv'
<1>1. ASSUME Init PROVE TInv
  <2>1. users = <<>> /\ sessions = <<>> /\ signatures = <<>> /\ EngagementTyped
    BY <1>1 DEF Init, EngagementTyped
  <2>2. \A r \in Requests : req[r] = NoReq
    BY <1>1 DEF Init
  <2>3. req \in [Requests -> ReqDocs]
    BY <1>1, NoReqTyped DEF Init
  <2>4. \A r \in Requests : Relies(req[r], DOMAIN users, DOMAIN sessions)
    BY <2>2, NoReqTyped
  <2>5. users \in Seq(UserDocs) /\ sessions \in Seq(SessionDocs) /\ DOMAIN sessions = {} /\ Len(users) = 0
    BY <2>1
  <2> QED BY <2>1, <2>3, <2>4, <2>5
          DEF TInv, TypeOK, EngagementTyped, ReqDocs, UserDocs, SessionDocs
<1>2. ASSUME TInv, Next PROVE TInv'
  <2>1. CASE Tick
    <3>1. AccountsGrow
      BY <1>2, <2>1, AccountsStay DEF Tick, accounts
    <3>2. EngagementTyped'
      <4>1. now' \in Nat /\ UNCHANGED <<engagement, signatures>>
        BY <1>2, <2>1, Unfold DEF Tick, EngagementTyped, accounts
      <4> QED BY <1>2, <4>1, Unfold DEF EngagementTyped, engagement
    <3>3. UNCHANGED <<req, users, sessions>>
      BY <2>1 DEF Tick, accounts
    <3> QED BY <1>2, <3>1, <3>2, <3>3, Unfold, Assemble
  <2>2. CASE RequestSignature
    <3>1. AccountsGrow
      BY <1>2, <2>2, AccountsStay DEF RequestSignature
    <3>2. EngagementTyped'
      <4>1. Append(signatures, now + SignatureExpiresIn) \in Seq(Nat)
        <5>1. now + SignatureExpiresIn \in Nat /\ signatures \in Seq(Nat)
          BY <1>2, Unfold DEF EngagementTyped
        <5> QED BY <5>1, AppendProperties
      <4> QED BY <4>1, <1>2, <2>2, Unfold DEF RequestSignature, EngagementTyped, engagement
    <3> QED BY <1>2, <2>2, <3>1, <3>2, Unfold, Assemble DEF RequestSignature
  <2>3. ASSUME NEW a \in Addresses, SyncUser(a) PROVE TInv'
    <3>1. AccountsGrow
      BY <1>2, <2>3, NewUserGrows DEF SyncUser
    <3>2. EngagementTyped'
      BY <1>2, <2>3, EngagementStays DEF SyncUser
    <3>3. \A r \in Requests : Relies(req'[r], DOMAIN users', DOMAIN sessions')
      BY <1>2, <2>3, <3>1, Unfold DEF SyncUser, Relies, AccountsGrow
    <3> QED BY <1>2, <2>3, <3>1, <3>2, <3>3, Unfold, Assemble DEF SyncUser
  <2>4. ASSUME NEW r \in Requests, NEW b \in Bodies, Begin(r, b) PROVE TInv'
    BY <1>2, <2>4, BeginTyped
  <2>5. ASSUME NEW r \in Requests, Continue(r) PROVE TInv'
    BY <1>2, <2>5, ContinueTyped
  <2>6. ASSUME NEW r \in Requests, RequestFails(r) PROVE TInv'
    BY <1>2, <2>6, AccountsStay, EngagementStays, Ends DEF RequestFails, accounts
  <2> QED BY <1>2, <2>1, <2>2, <2>3, <2>4, <2>5, <2>6 DEF Next
<1>3. ASSUME TInv, UNCHANGED vars PROVE TInv'
  BY <1>3 DEF vars, accounts, engagement, TInv, TypeOK, Relies
<1> QED BY <1>1, <1>2, <1>3

LEMMA TypedAlways == Spec => []TInv
BY TypeInductive, PTL DEF Spec

(* The state of the users and of what they do keeps its type.              *)
THEOREM MembersTyped == Spec => []TypeOK
<1>1. TInv => TypeOK
  BY DEF TInv
<1> QED BY <1>1, TypedAlways, PTL

-----------------------------------------------------------------------------
(* Reactions.  Most steps touch neither the arrays nor a request that has  *)
(* read them.                                                              *)
Twice(u, c, kind) == <<u, c, kind>> \in reactedTwice

Reacting(r) == req[r].at = "react"

Pushing(r) == Reacting(r) /\ ~req[r].listed

SameReaction(r, p) ==
    req[r].user = req[p].user /\ req[r].card = req[p].card /\ req[r].kind = req[p].kind

(* Of two likes, or dislikes, of a card that are both about to add the     *)
(* user the history knows; a request that found no entry of its user finds *)
(* none when it writes, or there are two.                                  *)
RInv ==
    /\ ReactionsSound
    /\ \A r, p \in Requests : r # p /\ Pushing(r) /\ Pushing(p) /\ SameReaction(r, p) =>
         Twice(req[r].user, req[r].card, req[r].kind)
    /\ \A r \in Requests : Pushing(r) =>
         \/ Twice(req[r].user, req[r].card, req[r].kind)
         \/ req[r].kind = "like" /\ likes[req[r].card][req[r].user] = 0
         \/ req[r].kind = "dislike" /\ dislikes[req[r].card][req[r].user] = 0

Quiet ==
    /\ UNCHANGED <<likes, dislikes, reactedTwice>>
    /\ \A r \in Requests : req'[r].at = "react" => req'[r] = req[r]

LEMMA QuietKeeps ==
    ASSUME RInv, Quiet
    PROVE  RInv'
BY DEF RInv, Quiet, ReactionsSound, NeverBothReactions, OneReactionPerUser, Reacting,
       Pushing, SameReaction, Twice

LEMMA BeginsOne ==
    ASSUME TInv, NEW r \in Requests, NEW q, Begins(r, q)
    PROVE  req'[r] = q /\ \A p \in Requests \ {r} : req'[p] = req[p]
BY Unfold DEF Begins

LEMMA EndsOne ==
    ASSUME TInv, NEW r \in Requests, Answered(r)
    PROVE  req'[r] = NoReq /\ \A p \in Requests \ {r} : req'[p] = req[p]
BY Unfold DEF Answered

LEMMA GoesOne ==
    ASSUME TInv, NEW r \in Requests, NEW step, Goes(r, step)
    PROVE  /\ req'[r] = [req[r] EXCEPT !.at = step] /\ req'[r].at = step
           /\ \A p \in Requests \ {r} : req'[p] = req[p]
<1> DEFINE q == [req[r] EXCEPT !.at = step]
<1>1. req[r] \in ReqDocs /\ req \in [Requests -> ReqDocs]
  BY Unfold
<1>2. q.at = step
  BY <1>1 DEF ReqDocs
<1>3. req' = [req EXCEPT ![r] = q]
  BY DEF Goes
<1> HIDE DEF q
<1>4. req'[r] = q /\ \A p \in Requests \ {r} : req'[p] = req[p]
  BY <1>1, <1>3
<1>5. req'[r].at = step
  BY <1>2, <1>4
<1>6. req'[r] = [req[r] EXCEPT !.at = step]
  BY <1>4 DEF q
<1> QED BY <1>4, <1>5, <1>6

LEMMA AfterUserOne ==
    ASSUME TInv, NEW r \in Requests, NEW u, AfterUser(r, u)
    PROVE  /\ req'[r].at \in {"createSession", "idle"}
           /\ \A p \in Requests \ {r} : req'[p] = req[p]
<1>1. req[r] \in ReqDocs /\ req \in [Requests -> ReqDocs]
  BY Unfold
<1>2. CASE req[r].kind = "login"
  <2> DEFINE q == [req[r] EXCEPT !.at = "createSession", !.user = u]
  <2>1. q.at = "createSession"
    BY <1>1 DEF ReqDocs
  <2>2. req' = [req EXCEPT ![r] = q]
    BY <1>2 DEF AfterUser
  <2> HIDE DEF q
  <2> QED BY <1>1, <2>1, <2>2
<1>3. CASE req[r].kind # "login"
  BY <1>3, EndsOne DEF AfterUser, NoReq
<1> QED BY <1>2, <1>3

(* How a request begins, and what its first step leaves alone.             *)
Starts == {"findUser", "deleteSession", "storeProfile", "storeViewer", "storeFollow",
           "removeFollow"}

LEMMA BeginShape ==
    ASSUME TInv, NEW r \in Requests, NEW b \in Bodies, Begin(r, b)
    PROVE  /\ \A p \in Requests \ {r} : req'[p] = req[p]
           /\ req[r].at = "idle"
           /\ \/ req'[r].at \in Starts /\ UNCHANGED reactedTwice
              \/ req'[r].at = "react" /\ ReadReaction(r, b)
           /\ UNCHANGED <<accounts, engagement, now, signedOut, refused, uncounted>>
<1>1. CASE Login(r, b)
  <2> DEFINE q == [NoReq EXCEPT !.at = "findUser", !.kind = "login", !.address = b.address]
  <2>1. q.at = "findUser"
    BY DEF NoReq
  <2>2. Begins(r, q) /\ UNCHANGED <<accounts, engagement, now, history>>
    BY <1>1 DEF Login
  <2> HIDE DEF q
  <2> QED BY <2>1, <2>2, BeginsOne DEF Begins, Starts, history
<1>2. CASE FindOrCreateUser(r, b)
  <2> DEFINE q == [NoReq EXCEPT !.at = "findUser", !.kind = "creator", !.address = b.address]
  <2>1. q.at = "findUser"
    BY DEF NoReq
  <2>2. Begins(r, q) /\ UNCHANGED <<accounts, engagement, now, history>>
    BY <1>2 DEF FindOrCreateUser
  <2> HIDE DEF q
  <2> QED BY <2>1, <2>2, BeginsOne DEF Begins, Starts, history
<1>3. CASE Logout(r, b)
  <2> DEFINE q == [[NoReq EXCEPT !.at = "deleteSession"] EXCEPT !.kind = "logout",
                     !.session = b.session, !.user = sessions[b.session].userId]
  <2>1. q.at = "deleteSession"
    BY DEF NoReq
  <2>2. Begins(r, q) /\ UNCHANGED <<accounts, engagement, now, history>>
    BY <1>3 DEF Logout, Asks
  <2> HIDE DEF q
  <2> QED BY <2>1, <2>2, BeginsOne DEF Begins, Starts, history
<1>4. CASE UpdateProfile(r, b)
  <2> DEFINE q == [[NoReq EXCEPT !.at = "storeProfile", !.slug = b.slug] EXCEPT !.kind = "profile",
                     !.session = b.session, !.user = sessions[b.session].userId]
  <2>1. q.at = "storeProfile"
    BY DEF NoReq
  <2>2. Begins(r, q) /\ UNCHANGED <<accounts, engagement, now, history>>
    BY <1>4 DEF UpdateProfile, Asks
  <2> HIDE DEF q
  <2> QED BY <2>1, <2>2, BeginsOne DEF Begins, Starts, history
<1>5. CASE ViewCard(r, b)
  <2> DEFINE q == [[NoReq EXCEPT !.at = "storeViewer", !.card = b.card] EXCEPT !.kind = "view",
                     !.session = b.session, !.user = sessions[b.session].userId]
  <2>1. q.at = "storeViewer"
    BY DEF NoReq
  <2>2. Begins(r, q) /\ UNCHANGED <<accounts, engagement, now, history>>
    BY <1>5 DEF ViewCard, Asks
  <2> HIDE DEF q
  <2> QED BY <2>1, <2>2, BeginsOne DEF Begins, Starts, history
<1>6. CASE Follow(r, b)
  <2> DEFINE q == [[NoReq EXCEPT !.at = "storeFollow", !.whom = b.whom] EXCEPT !.kind = "follow",
                     !.session = b.session, !.user = sessions[b.session].userId]
  <2>1. q.at = "storeFollow"
    BY DEF NoReq
  <2>2. Begins(r, q) /\ UNCHANGED <<accounts, engagement, now, history>>
    BY <1>6 DEF Follow, Asks
  <2> HIDE DEF q
  <2> QED BY <2>1, <2>2, BeginsOne DEF Begins, Starts, history
<1>7. CASE Unfollow(r, b)
  <2> DEFINE q == [[NoReq EXCEPT !.at = "removeFollow", !.whom = b.whom] EXCEPT !.kind = "unfollow",
                     !.session = b.session, !.user = sessions[b.session].userId]
  <2>1. q.at = "removeFollow"
    BY DEF NoReq
  <2>2. Begins(r, q) /\ UNCHANGED <<accounts, engagement, now, history>>
    BY <1>7 DEF Unfollow, Asks
  <2> HIDE DEF q
  <2> QED BY <2>1, <2>2, BeginsOne DEF Begins, Starts, history
<1>8. CASE ReadReaction(r, b)
  <2> DEFINE array == IF b.kind = "like" THEN likes ELSE dislikes
             listed == array[b.card][sessions[b.session].userId] > 0
             first == [NoReq EXCEPT !.at = "react", !.card = b.card, !.listed = listed]
             q == [first EXCEPT !.kind = b.kind, !.session = b.session,
                                !.user = sessions[b.session].userId]
  <2>1. q.at = "react"
    <3> HIDE DEF listed
    <3> QED BY DEF NoReq
  <2>2. Begins(r, q) /\ UNCHANGED <<accounts, engagement, now, signedOut, refused, uncounted>>
    BY <1>8 DEF ReadReaction, Asks
  <2> HIDE DEF q
  <2> QED BY <1>8, <2>1, <2>2, BeginsOne DEF Begins
<1> QED BY <1>1, <1>2, <1>3, <1>4, <1>5, <1>6, <1>7, <1>8 DEF Begin

LEMMA BeginQuiet ==
    ASSUME TInv, NEW r \in Requests, NEW b \in Bodies, Begin(r, b), ~ReadReaction(r, b)
    PROVE  Quiet
BY BeginShape DEF Quiet, engagement, Starts

(* Where a later step leaves its request.                                  *)
LEMMA ContinueShape ==
    ASSUME TInv, NEW r \in Requests, Continue(r)
    PROVE  /\ \A p \in Requests \ {r} : req'[p] = req[p]
           /\ \/ req'[r].at \in {"idle", "createUser", "createSession"}
              \/ req'[r].at = "countViewer" /\ StoreViewer(r)
<1>0. NoReq.at = "idle"
  BY DEF NoReq
<1>1. CASE FindUser(r)
  <2>1. \/ Goes(r, "createUser")
        \/ \E u \in WithAddress(req[r].address) : AfterUser(r, u)
    BY <1>1 DEF FindUser
  <2> QED BY <2>1, GoesOne, AfterUserOne
<1>2. CASE CreateUser(r)
  <2>1. AfterUser(r, Len(users) + 1) \/ Answered(r)
    BY <1>2 DEF CreateUser
  <2> QED BY <1>0, <2>1, EndsOne, AfterUserOne
<1>3. CASE StoreViewer(r)
  <2>1. Answered(r) \/ Goes(r, "countViewer")
    BY <1>3 DEF StoreViewer
  <2> QED BY <1>0, <1>3, <2>1, EndsOne, GoesOne
<1>4. CASE ~(FindUser(r) \/ CreateUser(r) \/ StoreViewer(r))
  <2>1. Answered(r)
    BY <1>4 DEF Continue, CreateUserSession, DeleteSession, StoreProfile, React,
                IncreaseViewersCount, StoreNewFollow, RemoveFollow
  <2> QED BY <1>0, <2>1, EndsOne
<1> QED BY <1>1, <1>2, <1>3, <1>4

LEMMA ContinueQuiet ==
    ASSUME TInv, NEW r \in Requests, Continue(r), ~React(r)
    PROVE  Quiet
<1>1. UNCHANGED <<likes, dislikes, reactedTwice>>
  BY DEF Continue, FindUser, CreateUser, CreateUserSession, DeleteSession, StoreProfile,
         StoreViewer, IncreaseViewersCount, StoreNewFollow, RemoveFollow, engagement, history
<1> QED BY <1>1, ContinueShape DEF Quiet

(* A reaction that is to add the user, while another like it is under way, *)
(* is recorded; one that begins alone has read what it will find.          *)
LEMMA ReadReactionKeeps ==
    ASSUME TInv, RInv, NEW r \in Requests, NEW b \in Bodies, ReadReaction(r, b)
    PROVE  RInv'
<1> DEFINE u == sessions[b.session].userId
           array == IF b.kind = "like" THEN likes ELSE dislikes
           other == \E q \in Requests : /\ Pushing(q) /\ req[q].kind = b.kind
                                      /\ req[q].user = u /\ req[q].card = b.card
<1>1. /\ b.card \in Cards /\ u \in UserIds /\ b.kind \in Reactions
  <2>1. b.kind \in Reactions /\ Authenticated(b)
    BY DEF ReadReaction
  <2> QED BY <2>1, BodiesAssumption, SessionsUser
<1>2. /\ req'[r].at = "react" /\ req'[r].user = u /\ req'[r].card = b.card
      /\ req'[r].kind = b.kind /\ req'[r].listed = (array[b.card][u] > 0)
      /\ \A p \in Requests \ {r} : req'[p] = req[p]
  <2> DEFINE listed == array[b.card][u] > 0
             first == [NoReq EXCEPT !.at = "react", !.card = b.card, !.listed = listed]
             q == [first EXCEPT !.kind = b.kind, !.session = b.session, !.user = u]
  <2>1. /\ q.at = "react" /\ q.user = u /\ q.card = b.card
        /\ q.kind = b.kind /\ q.listed = listed
    <3> HIDE DEF listed, u
    <3> QED BY DEF NoReq
  <2>2. Begins(r, q)
    BY DEF ReadReaction, Asks
  <2> HIDE DEF q
  <2> QED BY <2>1, <2>2, BeginsOne
<1>3. /\ UNCHANGED <<likes, dislikes>>
      /\ reactedTwice' = IF other /\ ~(array[b.card][u] > 0)
                            THEN reactedTwice \cup {<<u, b.card, b.kind>>} ELSE reactedTwice
  BY DEF ReadReaction, engagement, Reacting, Pushing
<1>4. ~Reacting(r)
  BY DEF ReadReaction, Asks, Begins, Reacting
<1>5. array[b.card][u] \in Nat
  <2>1. likes[b.card][u] \in Nat /\ dislikes[b.card][u] \in Nat
    <3> HIDE DEF u
    <3> QED BY <1>1, Unfold DEF EngagementTyped
  <2> HIDE DEF u
  <2> QED BY <2>1
<1> HIDE DEF u, array, other
<1>6. ReactionsSound'
  BY <1>3 DEF RInv, ReactionsSound, NeverBothReactions, OneReactionPerUser
<1>7. ASSUME NEW p \in Requests, NEW q \in Requests, p # q,
             Pushing(p)', Pushing(q)', SameReaction(p, q)'
      PROVE  Twice(req[p].user, req[p].card, req[p].kind)'
  <2>1. CASE p = r
    BY <1>2, <1>3, <1>7, <2>1 DEF Reacting, Pushing, SameReaction, Twice, other
  <2>2. CASE q = r
    BY <1>2, <1>3, <1>7, <2>2 DEF Reacting, Pushing, SameReaction, Twice, other
  <2>3. CASE p # r /\ q # r
    BY <1>2, <1>3, <1>7, <2>3 DEF RInv, Reacting, Pushing, SameReaction, Twice
  <2> QED BY <2>1, <2>2, <2>3
<1>8. ASSUME NEW p \in Requests, Pushing(p)'
      PROVE  \/ Twice(req[p].user, req[p].card, req[p].kind)'
             \/ req'[p].kind = "like" /\ likes'[req'[p].card][req'[p].user] = 0
             \/ req'[p].kind = "dislike" /\ dislikes'[req'[p].card][req'[p].user] = 0
  <2>1. CASE p = r
    <3>1. array[b.card][u] = 0
      <4>1. ~(array[b.card][u] > 0)
        BY <1>2, <1>8, <2>1, Zenon DEF Pushing
      <4> QED BY <1>5, <4>1
    <3> QED BY <1>1, <1>2, <1>3, <2>1, <3>1 DEF Reactions, array
  <2>2. CASE p # r
    BY <1>2, <1>3, <1>8, <2>2 DEF RInv, Reacting, Pushing, Twice
  <2> QED BY <2>1, <2>2
<1> QED BY <1>6, <1>7, <1>8 DEF RInv

(* The write of a reaction: it leaves one of the two arrays without the    *)
(* user, and the other as it must be.                                      *)
LEMMA ReactKeeps ==
    ASSUME TInv, RInv, NEW r \in Requests, React(r)
    PROVE  RInv'
<1> DEFINE u == req[r].user
           c == req[r].card
<1>1. c \in Cards /\ u \in UserIds /\ Reacting(r) /\ req[r].kind \in Reactions
  BY Unfold DEF React, Relies, Reacting
<1>2. req'[r] = NoReq /\ \A p \in Requests \ {r} : req'[p] = req[p]
  BY EndsOne DEF React
<1>3. reactedTwice' = reactedTwice
  BY DEF React, history
<1>4. \/ req[r].kind = "like" /\ Counts(likes, dislikes, likes', dislikes', req[r])
      \/ req[r].kind = "dislike" /\ Counts(dislikes, likes, dislikes', likes', req[r])
  BY DEF React, Toggled, Counts
<1>5. likes \in Arrays /\ dislikes \in Arrays
  BY Unfold DEF EngagementTyped, Arrays
<1>6. /\ \A d \in Cards, v \in UserIds : d # c \/ v # u =>
           likes'[d][v] = likes[d][v] /\ dislikes'[d][v] = dislikes[d][v]
      /\ likes'[c][u] = 0 \/ dislikes'[c][u] = 0
      /\ likes'[c][u] <= 1 \/ Twice(u, c, "like")
      /\ dislikes'[c][u] <= 1 \/ Twice(u, c, "dislike")
  <2>1. likes[c][u] = 0 \/ dislikes[c][u] = 0
    BY <1>1 DEF RInv, ReactionsSound, NeverBothReactions
  <2>2. /\ likes[c][u] <= 1 \/ Twice(u, c, "like")
        /\ dislikes[c][u] <= 1 \/ Twice(u, c, "dislike")
    BY <1>1 DEF RInv, ReactionsSound, OneReactionPerUser, Twice
  <2>3. ~req[r].listed => \/ Twice(u, c, req[r].kind)
                          \/ req[r].kind = "like" /\ likes[c][u] = 0
                          \/ req[r].kind = "dislike" /\ dislikes[c][u] = 0
    BY <1>1 DEF RInv, Pushing
  <2>4. likes[c][u] \in Nat /\ dislikes[c][u] \in Nat
    BY <1>1, <1>5 DEF Arrays
  <2>5. CASE req[r].kind = "like" /\ Counts(likes, dislikes, likes', dislikes', req[r])
    <3>1. /\ likes'[c][u] = IF req[r].listed THEN 0 ELSE likes[c][u] + 1
          /\ dislikes'[c][u] = IF req[r].listed THEN dislikes[c][u] ELSE 0
          /\ \A d \in Cards, v \in UserIds : d # c \/ v # u =>
               likes'[d][v] = likes[d][v] /\ dislikes'[d][v] = dislikes[d][v]
      BY <1>1, <1>5, <2>5, CountsTyped
    <3> QED BY <2>1, <2>2, <2>3, <2>4, <2>5, <3>1
  <2>6. CASE req[r].kind = "dislike" /\ Counts(dislikes, likes, dislikes', likes', req[r])
    <3>1. /\ dislikes'[c][u] = IF req[r].listed THEN 0 ELSE dislikes[c][u] + 1
          /\ likes'[c][u] = IF req[r].listed THEN likes[c][u] ELSE 0
          /\ \A d \in Cards, v \in UserIds : d # c \/ v # u =>
               likes'[d][v] = likes[d][v] /\ dislikes'[d][v] = dislikes[d][v]
      BY <1>1, <1>5, <2>6, CountsTyped
    <3> QED BY <2>1, <2>2, <2>3, <2>4, <2>6, <3>1
  <2> QED BY <1>4, <2>5, <2>6
<1>7. /\ req[r].listed /\ req[r].kind = "like" => likes'[c][u] = 0 /\ dislikes'[c][u] = dislikes[c][u]
      /\ req[r].listed /\ req[r].kind = "dislike" => dislikes'[c][u] = 0 /\ likes'[c][u] = likes[c][u]
      /\ ~req[r].listed /\ req[r].kind = "like" => dislikes'[c][u] = 0
      /\ ~req[r].listed /\ req[r].kind = "dislike" => likes'[c][u] = 0
  BY <1>1, <1>4, <1>5, CountsTyped
<1> HIDE DEF u, c
<1>8. ReactionsSound'
  BY <1>3, <1>6
     DEF RInv, ReactionsSound, NeverBothReactions, OneReactionPerUser, Twice
<1>9. ASSUME NEW p \in Requests, NEW q \in Requests, p # q,
             Pushing(p)', Pushing(q)', SameReaction(p, q)'
      PROVE  Twice(req[p].user, req[p].card, req[p].kind)'
  BY <1>2, <1>3, <1>9 DEF RInv, Reacting, Pushing, SameReaction, Twice, NoReq
<1>10. ASSUME NEW p \in Requests, Pushing(p)'
      PROVE  \/ Twice(req[p].user, req[p].card, req[p].kind)'
             \/ req'[p].kind = "like" /\ likes'[req'[p].card][req'[p].user] = 0
             \/ req'[p].kind = "dislike" /\ dislikes'[req'[p].card][req'[p].user] = 0
  <2>1. p # r /\ req'[p] = req[p] /\ Reacting(p) /\ Pushing(p)
    BY <1>2, <1>10 DEF Reacting, Pushing, NoReq
  <2>2. req[p].card \in Cards /\ req[p].user \in UserIds
    BY <2>1, Unfold DEF Reacting, Relies
  <2>3. \/ Twice(req[p].user, req[p].card, req[p].kind)
        \/ req[p].kind = "like" /\ likes[req[p].card][req[p].user] = 0
        \/ req[p].kind = "dislike" /\ dislikes[req[p].card][req[p].user] = 0
    BY <2>1 DEF RInv
  <2>4. CASE req[p].card # c \/ req[p].user # u
    BY <1>3, <1>6, <2>1, <2>2, <2>3, <2>4 DEF Twice
  <2>5. CASE req[p].card = c /\ req[p].user = u /\ req[r].listed
    BY <1>1, <1>3, <1>7, <2>1, <2>3, <2>5 DEF Twice, Reactions
  <2>6. CASE req[p].card = c /\ req[p].user = u /\ ~req[r].listed /\ req[p].kind = req[r].kind
    <3>1. Pushing(r) /\ SameReaction(p, r)
      BY <1>1, <2>6 DEF Pushing, SameReaction, c, u
    <3> QED BY <1>3, <2>1, <3>1 DEF RInv, Twice
  <2>7. CASE req[p].card = c /\ req[p].user = u /\ ~req[r].listed /\ req[p].kind # req[r].kind
    BY <1>1, <1>3, <1>7, <2>1, <2>3, <2>7 DEF Twice, Reactions
  <2> QED BY <2>4, <2>5, <2>6, <2>7
<1> QED BY <1>8, <1>9, <1>10 DEF RInv

LEMMA RInvInductive ==
    /\ Init => RInv
    /\ TInv /\ RInv /\ [Next]_vars => RInv'
<1>1. Init => RInv
  BY DEF Init, RInv, ReactionsSound, NeverBothReactions, OneReactionPerUser, Reacting, Pushing,
         NoReq
<1>2. ASSUME TInv, RInv, Next PROVE RInv'
  <2> USE DEF Quiet, engagement, history, accounts
  <2>1. CASE Tick
    BY <1>2, <2>1, QuietKeeps DEF Tick
  <2>2. CASE RequestSignature
    BY <1>2, <2>2, QuietKeeps DEF RequestSignature
  <2>3. ASSUME NEW a \in Addresses, SyncUser(a) PROVE RInv'
    BY <1>2, <2>3, QuietKeeps DEF SyncUser
  <2>4. ASSUME NEW r \in Requests, NEW b \in Bodies, Begin(r, b) PROVE RInv'
    BY <1>2, <2>4, QuietKeeps, BeginQuiet, ReadReactionKeeps
  <2>5. ASSUME NEW r \in Requests, Continue(r) PROVE RInv'
    BY <1>2, <2>5, QuietKeeps, ContinueQuiet, ReactKeeps
  <2>6. ASSUME NEW r \in Requests, RequestFails(r) PROVE RInv'
    BY <1>2, <2>6, EndsOne, QuietKeeps DEF RequestFails, NoReq
  <2> QED BY <1>2, <2>1, <2>2, <2>3, <2>4, <2>5, <2>6 DEF Next
<1>3. ASSUME TInv, RInv, UNCHANGED vars PROVE RInv'
  BY <1>3, QuietKeeps DEF vars, Quiet, engagement, history
<1> QED BY <1>1, <1>2, <1>3

(* A user never both likes and dislikes a card.  He is among its likes     *)
(* once, or two of his likes of it were under way at once and neither had  *)
(* found him there; and so for the dislikes (toggleLikeOrDislike).         *)
THEOREM ReactionsStaySound == Spec => []ReactionsSound
<1>1. RInv => ReactionsSound
  BY DEF RInv
<1> QED BY <1>1, RInvInductive, TypedAlways, PTL DEF Spec

-----------------------------------------------------------------------------
(* Viewers and followers.  A viewer that is yet to be counted is one, and  *)
(* is not given up; no two requests are to count the same one.             *)
CountsViewer(r) == req[r].at = "countViewer"

VInv ==
    /\ ViewersCounted
    /\ uncounted \in [Cards -> SUBSET UserIds]
    /\ \A c \in Cards : uncounted[c] \subseteq viewers[c]
    /\ \A r \in Requests : CountsViewer(r) =>
         req[r].user \in viewers[req[r].card] \ uncounted[req[r].card]
    /\ \A r, p \in Requests :
         r # p /\ CountsViewer(r) /\ CountsViewer(p) /\ req[r].card = req[p].card =>
           req[r].user # req[p].user

NoneCounted ==
    /\ UNCHANGED <<viewers, viewersCount, uncounted>>
    /\ \A r \in Requests :
         /\ req'[r].at = "countViewer" <=> req[r].at = "countViewer"
         /\ req'[r].at = "countViewer" => req'[r] = req[r]

LEMMA NoneCountedKeeps ==
    ASSUME VInv, NoneCounted
    PROVE  VInv'
<1>1. ASSUME NEW c \in Cards PROVE Counting(c)' = Counting(c)
  BY DEF NoneCounted, Counting
<1>2. ViewersCounted'
  BY <1>1 DEF VInv, NoneCounted, ViewersCounted
<1>3. \A r \in Requests : CountsViewer(r)' => CountsViewer(r) /\ req'[r] = req[r]
  BY DEF NoneCounted, CountsViewer
<1> QED BY <1>2, <1>3 DEF VInv, NoneCounted

LEMMA Finite ==
    ASSUME TInv, VInv, NEW c \in Cards
    PROVE  /\ IsFiniteSet(Counting(c)) /\ IsFiniteSet(viewers[c]) /\ IsFiniteSet(uncounted[c])
           /\ Cardinality(Counting(c)) \in Nat /\ Cardinality(viewers[c]) \in Nat
           /\ Cardinality(uncounted[c]) \in Nat /\ viewersCount[c] \in Nat
           /\ viewersCount[c] + Cardinality(Counting(c)) + Cardinality(uncounted[c])
                = Cardinality(viewers[c])
<1>1. IsFiniteSet(Counting(c))
  BY FS_Subset DEF Counting
<1>2. IsFiniteSet(UserIds)
  BY FS_Interval
<1>3. viewers[c] \subseteq UserIds /\ uncounted[c] \subseteq UserIds /\ viewersCount[c] \in Nat
  BY Unfold DEF EngagementTyped, VInv
<1>4. IsFiniteSet(viewers[c]) /\ IsFiniteSet(uncounted[c])
  <2> HIDE DEF UserIds
  <2> QED BY <1>2, <1>3, FS_Subset
<1>5. /\ Cardinality(Counting(c)) \in Nat /\ Cardinality(viewers[c]) \in Nat
      /\ Cardinality(uncounted[c]) \in Nat
  BY <1>1, <1>4, FS_CardinalityType
<1> QED BY <1>1, <1>3, <1>4, <1>5 DEF VInv, ViewersCounted

LEMMA StoreViewerKeeps ==
    ASSUME TInv, VInv, NEW r \in Requests, StoreViewer(r)
    PROVE  VInv'
<1>1. PICK c \in Cards, u \in UserIds :
        c = req[r].card /\ u = req[r].user /\ req[r].at = "storeViewer"
  BY Unfold DEF StoreViewer, Relies
<1>2. UNCHANGED <<viewersCount, uncounted>>
  BY DEF StoreViewer, history
<1>3. CASE u \in viewers[c]
  <2>1. Answered(r) /\ UNCHANGED viewers
    BY <1>1, <1>3 DEF StoreViewer
  <2>2. NoneCounted
    BY <1>1, <1>2, <2>1, EndsOne DEF NoneCounted, NoReq
  <2> QED BY <2>2, NoneCountedKeeps
<1>4. CASE u \notin viewers[c]
  <2>1. viewers' = [viewers EXCEPT ![c] = @ \cup {u}] /\ Goes(r, "countViewer")
    BY <1>1, <1>4 DEF StoreViewer
  <2>2. /\ req'[r].at = "countViewer" /\ req'[r].card = c /\ req'[r].user = u
        /\ \A p \in Requests \ {r} : req'[p] = req[p]
    <3>1. req'[r] = [req[r] EXCEPT !.at = "countViewer"] /\ req[r] \in ReqDocs
      BY <2>1, GoesOne, Unfold
    <3>2. req'[r].card = c /\ req'[r].user = u
      BY <1>1, <3>1 DEF ReqDocs
    <3> QED BY <2>1, <3>2, GoesOne
  <2>3. /\ viewers'[c] = viewers[c] \cup {u}
        /\ \A d \in Cards : d # c => viewers'[d] = viewers[d]
    BY <1>1, <2>1, Unfold DEF EngagementTyped
  <2>4. Counting(c)' = Counting(c) \cup {r} /\ r \notin Counting(c)
    BY <1>1, <2>2 DEF Counting
  <2>5. \A d \in Cards : d # c => Counting(d)' = Counting(d)
    BY <1>1, <2>2 DEF Counting
  <2>6. /\ Cardinality(viewers'[c]) = Cardinality(viewers[c]) + 1
        /\ Cardinality(Counting(c)') = Cardinality(Counting(c)) + 1
    <3>1. IsFiniteSet(viewers[c]) /\ IsFiniteSet(Counting(c))
      BY Finite
    <3>2. Cardinality(viewers[c] \cup {u}) = Cardinality(viewers[c]) + 1
      BY <1>4, <1>1, <3>1, FS_AddElement
    <3>3. Cardinality(Counting(c) \cup {r}) = Cardinality(Counting(c)) + 1
      BY <2>4, <3>1, FS_AddElement
    <3> QED BY <2>3, <2>4, <3>2, <3>3
  <2>7. ViewersCounted'
    <3> SUFFICES ASSUME NEW d \in Cards
                 PROVE  viewersCount'[d] + Cardinality(Counting(d)') + Cardinality(uncounted'[d])
                          = Cardinality(viewers'[d])
      BY DEF ViewersCounted
    <3>1. CASE d = c
      BY <1>2, <2>6, <3>1, Finite
    <3>2. CASE d # c
      BY <1>2, <2>3, <2>5, <3>2, Finite
    <3> QED BY <3>1, <3>2
  <2>8. \A d \in Cards : uncounted'[d] \subseteq viewers'[d]
    BY <1>2, <2>3 DEF VInv
  <2>9. ASSUME NEW p \in Requests, CountsViewer(p)'
        PROVE  req'[p].user \in viewers'[req'[p].card] \ uncounted'[req'[p].card]
    <3>1. CASE p = r
      BY <1>1, <1>2, <1>4, <2>2, <2>3, <3>1 DEF VInv
    <3>2. CASE p # r
      <4>1. req'[p] = req[p] /\ CountsViewer(p) /\ req[p].card \in Cards
        BY <2>2, <2>9, <3>2, Unfold DEF CountsViewer, Relies
      <4> QED BY <1>2, <2>3, <4>1 DEF VInv
    <3> QED BY <3>1, <3>2
  <2>10. ASSUME NEW p \in Requests, NEW q \in Requests, p # q,
                CountsViewer(p)', CountsViewer(q)', req'[p].card = req'[q].card
         PROVE  req'[p].user # req'[q].user
    <3>1. \A k \in Requests \ {r} : CountsViewer(k)' => CountsViewer(k) /\ req'[k] = req[k]
      BY <2>2 DEF CountsViewer
    <3>2. \A k \in Requests : CountsViewer(k) => req[k].user \in viewers[req[k].card]
      BY DEF VInv
    <3>3. CASE p = r
      BY <1>1, <1>4, <2>2, <2>10, <3>1, <3>2, <3>3
    <3>4. CASE q = r
      BY <1>1, <1>4, <2>2, <2>10, <3>1, <3>2, <3>4
    <3>5. CASE p # r /\ q # r
      BY <2>10, <3>1, <3>5 DEF VInv
    <3> QED BY <3>3, <3>4, <3>5
  <2>11. uncounted' \in [Cards -> SUBSET UserIds]
    BY <1>2 DEF VInv
  <2> QED BY <2>7, <2>8, <2>9, <2>10, <2>11 DEF VInv
<1> QED BY <1>3, <1>4

(* A request that is to count its viewer counts him, or is cut short.      *)
LEMMA CountEndsKeeps ==
    ASSUME TInv, VInv, NEW r \in Requests, CountsViewer(r), Answered(r), UNCHANGED viewers,
           \/ /\ viewersCount' = [viewersCount EXCEPT ![req[r].card] = @ + 1]
              /\ UNCHANGED uncounted
           \/ /\ uncounted' = [uncounted EXCEPT ![req[r].card] = @ \cup {req[r].user}]
              /\ UNCHANGED viewersCount
    PROVE  VInv'
<1>1. PICK c \in Cards, u \in UserIds :
        c = req[r].card /\ u = req[r].user /\ req[r].at = "countViewer"
  BY Unfold DEF CountsViewer, Relies
<1>2. u \in viewers[c] /\ u \notin uncounted[c]
  BY <1>1 DEF VInv, CountsViewer
<1>3. req'[r].at = "idle" /\ \A p \in Requests \ {r} : req'[p] = req[p]
  BY EndsOne DEF NoReq
<1>4. Counting(c)' = Counting(c) \ {r} /\ r \in Counting(c)
  <2>1. \A p \in Requests : /\ req'[p].at = "countViewer" /\ req'[p].card = c
                            <=> req[p].at = "countViewer" /\ req[p].card = c /\ p # r
    BY <1>1, <1>3
  <2> QED BY <1>1, <2>1 DEF Counting
<1>5. ASSUME NEW d \in Cards, d # c PROVE Counting(d)' = Counting(d)
  <2>1. \A p \in Requests : /\ req'[p].at = "countViewer" /\ req'[p].card = d
                            <=> req[p].at = "countViewer" /\ req[p].card = d
    BY <1>1, <1>3, <1>5
  <2> QED BY <2>1 DEF Counting
<1>6. Cardinality(Counting(c)') = Cardinality(Counting(c)) - 1
  BY <1>4, Finite, FS_RemoveElement
<1>7. \/ /\ viewersCount' = [viewersCount EXCEPT ![c] = @ + 1] /\ UNCHANGED uncounted
      \/ /\ uncounted' = [uncounted EXCEPT ![c] = @ \cup {u}] /\ UNCHANGED viewersCount
  BY <1>1
<1>8. /\ \/ /\ viewersCount'[c] = viewersCount[c] + 1 /\ uncounted' = uncounted
         \/ /\ uncounted'[c] = uncounted[c] \cup {u} /\ viewersCount' = viewersCount
      /\ \A d \in Cards : d # c => viewersCount'[d] = viewersCount[d] /\ uncounted'[d] = uncounted[d]
      /\ uncounted' \in [Cards -> SUBSET UserIds]
  <2>1. viewersCount \in [Cards -> Nat] /\ uncounted \in [Cards -> SUBSET UserIds]
    BY Unfold DEF EngagementTyped, VInv
  <2>2. uncounted[c] \cup {u} \in SUBSET UserIds
    BY <2>1
  <2> HIDE DEF UserIds
  <2> QED BY <1>7, <2>1, <2>2
<1>9. ViewersCounted'
  <2> SUFFICES ASSUME NEW d \in Cards
               PROVE  viewersCount'[d] + Cardinality(Counting(d)') + Cardinality(uncounted'[d])
                        = Cardinality(viewers'[d])
    BY DEF ViewersCounted
  <2>1. CASE d # c
    BY <1>5, <1>8, <2>1, Finite
  <2>2. CASE d = c /\ viewersCount'[c] = viewersCount[c] + 1 /\ uncounted' = uncounted
    BY <1>6, <2>2, Finite
  <2>3. CASE d = c /\ uncounted'[c] = uncounted[c] \cup {u} /\ viewersCount' = viewersCount
    <3>1. Cardinality(uncounted'[c]) = Cardinality(uncounted[c]) + 1
      BY <1>2, <2>3, Finite, FS_AddElement
    <3>2. /\ Cardinality(Counting(c)) \in Nat /\ Cardinality(uncounted[c]) \in Nat
          /\ viewersCount[c] \in Nat
          /\ viewersCount[c] + Cardinality(Counting(c)) + Cardinality(uncounted[c])
               = Cardinality(viewers[c])
      BY Finite
    <3>3. viewersCount'[c] + Cardinality(Counting(c)') + Cardinality(uncounted'[c])
            = viewersCount[c] + Cardinality(Counting(c)) + Cardinality(uncounted[c])
      BY <1>6, <2>3, <3>1, <3>2
    <3> QED BY <2>3, <3>2, <3>3
  <2> QED BY <1>8, <2>1, <2>2, <2>3
<1>10. \A d \in Cards : uncounted'[d] \subseteq viewers'[d]
  BY <1>2, <1>8 DEF VInv
<1>11. ASSUME NEW p \in Requests, CountsViewer(p)'
       PROVE  /\ CountsViewer(p) /\ req'[p] = req[p] /\ p # r
              /\ req'[p].user \in viewers'[req'[p].card] \ uncounted'[req'[p].card]
  <2>1. CountsViewer(p) /\ req'[p] = req[p] /\ p # r /\ req[p].card \in Cards
    BY <1>3, <1>11, Unfold DEF CountsViewer, Relies
  <2>2. req[p].card = c => req[p].user # u
    BY <1>1, <2>1 DEF VInv, CountsViewer
  <2> QED BY <1>8, <2>1, <2>2 DEF VInv
<1>12. \A p, q \in Requests :
         p # q /\ CountsViewer(p)' /\ CountsViewer(q)' /\ req'[p].card = req'[q].card =>
           req'[p].user # req'[q].user
  BY <1>11 DEF VInv
<1> QED BY <1>8, <1>9, <1>10, <1>11, <1>12 DEF VInv

LEMMA VInvInductive ==
    /\ Init => VInv
    /\ TInv /\ VInv /\ [Next]_vars => VInv'
<1>1. ASSUME Init PROVE VInv
  <2>1. \A c \in Cards : Counting(c) = {} /\ uncounted[c] = {} /\ viewers[c] = {} /\ viewersCount[c] = 0
    BY <1>1 DEF Init, Counting, NoReq
  <2>2. ViewersCounted
    BY <2>1, FS_EmptySet DEF ViewersCounted
  <2> QED BY <1>1, <2>2 DEF Init, VInv, CountsViewer, NoReq
<1>2. ASSUME TInv, VInv, Next PROVE VInv'
  <2> USE DEF NoneCounted, engagement, history, accounts
  <2>1. CASE Tick
    BY <1>2, <2>1, NoneCountedKeeps DEF Tick
  <2>2. CASE RequestSignature
    BY <1>2, <2>2, NoneCountedKeeps DEF RequestSignature
  <2>3. ASSUME NEW a \in Addresses, SyncUser(a) PROVE VInv'
    BY <1>2, <2>3, NoneCountedKeeps DEF SyncUser
  <2>4. ASSUME NEW r \in Requests, NEW b \in Bodies, Begin(r, b) PROVE VInv'
    BY <1>2, <2>4, NoneCountedKeeps, BeginShape DEF Starts
  <2>5. ASSUME NEW r \in Requests, Continue(r) PROVE VInv'
    <3>1. CASE StoreViewer(r)
      BY <1>2, <3>1, StoreViewerKeeps
    <3>2. CASE IncreaseViewersCount(r)
      BY <1>2, <3>2, CountEndsKeeps DEF IncreaseViewersCount, CountsViewer
    <3>3. CASE ~StoreViewer(r) /\ ~IncreaseViewersCount(r)
      <4>1. UNCHANGED <<viewers, viewersCount, uncounted>> /\ req[r].at # "countViewer"
        BY <2>5, <3>3 DEF Continue, FindUser, CreateUser, CreateUserSession, DeleteSession,
           StoreProfile, React, StoreNewFollow, RemoveFollow
      <4>2. /\ \A p \in Requests \ {r} : req'[p] = req[p]
            /\ req'[r].at # "countViewer"
        BY <1>2, <2>5, <3>3, ContinueShape
      <4>3. NoneCounted
        BY <4>1, <4>2
      <4> QED BY <1>2, <4>3, NoneCountedKeeps
    <3> QED BY <3>1, <3>2, <3>3
  <2>6. ASSUME NEW r \in Requests, RequestFails(r) PROVE VInv'
    <3>1. CASE req[r].at = "countViewer"
      BY <1>2, <2>6, <3>1, CountEndsKeeps DEF RequestFails, CountsViewer
    <3>2. CASE req[r].at # "countViewer"
      BY <1>2, <2>6, <3>2, EndsOne, NoneCountedKeeps DEF RequestFails, NoReq
    <3> QED BY <3>1, <3>2
  <2> QED BY <1>2, <2>1, <2>2, <2>3, <2>4, <2>5, <2>6 DEF Next
<1>3. ASSUME TInv, VInv, UNCHANGED vars PROVE VInv'
  BY <1>3, NoneCountedKeeps DEF vars, NoneCounted, engagement, history
<1> QED BY <1>1, <1>2, <1>3

LEMMA FollowsInductive ==
    /\ Init => OneFollowPerPair
    /\ TInv /\ OneFollowPerPair /\ [Next]_vars => OneFollowPerPair'
<1>1. Init => OneFollowPerPair
  BY DEF Init, OneFollowPerPair
<1>2. ASSUME TInv, OneFollowPerPair, Next PROVE OneFollowPerPair'
  <2>1. ASSUME NEW r \in Requests, StoreNewFollow(r) \/ RemoveFollow(r)
        PROVE  OneFollowPerPair'
    <3>1. PICK p \in Pairs : p = <<req[r].user, req[r].whom>>
      BY <1>2, <2>1, Unfold DEF StoreNewFollow, RemoveFollow, Relies
    <3>2. \/ follows' = follows
          \/ follows' = [follows EXCEPT ![p] = 1]
          \/ follows' = [follows EXCEPT ![p] = 0]
      BY <2>1, <3>1 DEF StoreNewFollow, RemoveFollow
    <3>3. follows \in [Pairs -> Nat]
      BY <1>2, Unfold DEF EngagementTyped
    <3> HIDE DEF Pairs
    <3> QED BY <1>2, <3>2, <3>3 DEF OneFollowPerPair
  <2>2. CASE UNCHANGED follows
    BY <1>2, <2>2 DEF OneFollowPerPair
  <2>3. ASSUME NEW r \in Requests, Continue(r), ~StoreNewFollow(r), ~RemoveFollow(r)
        PROVE  UNCHANGED follows
    BY <2>3 DEF Continue, FindUser, CreateUser, CreateUserSession, DeleteSession, StoreProfile,
       React, StoreViewer, IncreaseViewersCount, engagement
  <2>4. ASSUME NEW r \in Requests, NEW b \in Bodies, Begin(r, b)
        PROVE  UNCHANGED follows
    BY <1>2, <2>4, BeginShape DEF engagement
  <2> QED BY <1>2, <2>1, <2>2, <2>3, <2>4
          DEF Next, Tick, RequestSignature, SyncUser, RequestFails, engagement
<1>3. OneFollowPerPair /\ UNCHANGED vars => OneFollowPerPair'
  BY DEF vars, engagement, OneFollowPerPair
<1> QED BY <1>1, <1>2, <1>3

(* The counter of a card counts each of its viewers once, but for those    *)
(* whose request is under way or was cut short; a follower counts once.    *)
THEOREM EachCountedOnce == Spec => []CountedOnce
<1>1. VInv /\ OneFollowPerPair => CountedOnce
  BY DEF VInv, CountedOnce
<1> QED BY <1>1, VInvInductive, FollowsInductive, TypedAlways, PTL DEF Spec

-----------------------------------------------------------------------------
(* Accounts.  A login that goes on to its session has the user of its      *)
(* address; what the history names, exists.                                *)
AInv ==
    /\ OneUserPerName /\ SessionOfItsSigner /\ RefusedOnlyIfKnown /\ SignedOutStaysOut
    /\ signedOut \subseteq DOMAIN sessions
    /\ \A r \in Requests : req[r].at = "createSession" =>
         users[req[r].user].ethAddress = req[r].address

LEMMA AccountsUnchanged ==
    ASSUME TInv, AInv, UNCHANGED <<users, sessions, signedOut, refused>>,
           \A r \in Requests : req'[r].at = "createSession" => req'[r] = req[r]
    PROVE  AInv'
BY DEF AInv, OneUserPerName, SessionOfItsSigner, RefusedOnlyIfKnown, SignedOutStaysOut, WithAddress

LEMMA NewUserKeepsNames ==
    ASSUME TInv, AInv, NEW a \in Addresses, WithAddress(a) = {}, Len(users) < MaxUsers,
           users' = Append(users, NewUser(a)), UNCHANGED <<sessions, signedOut, refused>>
    PROVE  /\ OneUserPerName' /\ SessionOfItsSigner' /\ RefusedOnlyIfKnown' /\ SignedOutStaysOut'
           /\ signedOut' \subseteq DOMAIN sessions'
           /\ \A u \in DOMAIN users : u \in DOMAIN users' /\ users'[u] = users[u]
           /\ Len(users) + 1 \in DOMAIN users' /\ users'[Len(users) + 1].ethAddress = a
<1>1. /\ DOMAIN users' = 1..(Len(users) + 1) /\ DOMAIN users = 1..Len(users) /\ Len(users) \in Nat
      /\ users'[Len(users) + 1].ethAddress = a /\ users'[Len(users) + 1].slug = NoSlug
      /\ \A u \in DOMAIN users : users'[u] = users[u]
  BY NewUserGrows, Unfold DEF NewUser
<1>2. \A u \in DOMAIN users : users[u].ethAddress # a
  BY DEF WithAddress
<1>3. OneUserPerName'
  <2> SUFFICES ASSUME NEW u \in DOMAIN users', NEW v \in DOMAIN users', u # v
               PROVE  /\ users'[u].ethAddress # users'[v].ethAddress
                      /\ users'[u].slug = users'[v].slug => users'[u].slug = NoSlug
    BY DEF OneUserPerName
  <2>1. CASE u = Len(users) + 1
    <3>1. v \in DOMAIN users
      BY <1>1, <2>1
    <3> QED BY <1>1, <1>2, <2>1, <3>1
  <2>2. CASE v = Len(users) + 1
    <3>1. u \in DOMAIN users
      BY <1>1, <2>2
    <3> QED BY <1>1, <1>2, <2>2, <3>1
  <2>3. CASE u # Len(users) + 1 /\ v # Len(users) + 1
    <3>1. u \in DOMAIN users /\ v \in DOMAIN users
      BY <1>1, <2>3
    <3> QED BY <1>1, <3>1 DEF AInv, OneUserPerName
  <2> QED BY <2>1, <2>2, <2>3
<1>4. \A u \in DOMAIN users : u \in DOMAIN users'
  BY <1>1
<1>5. SessionOfItsSigner'
  BY <1>1, <1>4 DEF AInv, SessionOfItsSigner
<1>6. RefusedOnlyIfKnown'
  BY <1>1, <1>4 DEF AInv, RefusedOnlyIfKnown, WithAddress
<1>7. SignedOutStaysOut' /\ signedOut' \subseteq DOMAIN sessions'
  BY DEF AInv, SignedOutStaysOut
<1> QED BY <1>1, <1>3, <1>4, <1>5, <1>6, <1>7

LEMMA AfterUserAddress ==
    ASSUME TInv, NEW r \in Requests, NEW u \in Nat, AfterUser(r, u), req'[r].at = "createSession"
    PROVE  req'[r].address = req[r].address /\ req'[r].user = u
<1>0. req[r] \in ReqDocs /\ req \in [Requests -> ReqDocs]
  BY Unfold
<1>1. CASE req[r].kind = "login"
  <2> DEFINE q == [req[r] EXCEPT !.at = "createSession", !.user = u]
  <2>1. q.address = req[r].address /\ q.user = u
    BY <1>0 DEF ReqDocs
  <2>2. req' = [req EXCEPT ![r] = q]
    BY <1>1 DEF AfterUser
  <2> HIDE DEF q
  <2> QED BY <1>0, <2>1, <2>2
<1>2. CASE req[r].kind # "login"
  BY <1>2, EndsOne DEF AfterUser, NoReq
<1> QED BY <1>1, <1>2

LEMMA AccountsContinue ==
    ASSUME TInv, AInv, NEW r \in Requests, Continue(r)
    PROVE  AInv'
<1>0. NoReq.at = "idle" /\ \A p \in Requests \ {r} : req'[p] = req[p]
  BY ContinueShape DEF NoReq
<1>1. CASE FindUser(r)
  <2>1. UNCHANGED <<users, sessions, signedOut, refused>>
    BY <1>1 DEF FindUser, accounts, history
  <2>2. req'[r].at = "createSession" =>
          users'[req'[r].user].ethAddress = req'[r].address
    <3>1. CASE Goes(r, "createUser")
      <4>1. req'[r].at = "createUser"
        BY <3>1, GoesOne, Zenon
      <4> QED BY <4>1
    <3>2. ASSUME NEW u \in WithAddress(req[r].address), AfterUser(r, u)
          PROVE  req'[r].at = "createSession" => users'[req'[r].user].ethAddress = req'[r].address
      <4>1. users[u].ethAddress = req[r].address /\ u \in Nat
        BY <3>2, Unfold DEF WithAddress
      <4> QED BY <2>1, <3>2, <4>1, AfterUserAddress
    <3> QED BY <1>1, <3>1, <3>2 DEF FindUser
  <2> QED BY <1>0, <2>1, <2>2
          DEF AInv, OneUserPerName, SessionOfItsSigner, RefusedOnlyIfKnown, SignedOutStaysOut,
              WithAddress
<1>2. CASE CreateUser(r)
  <2>1. UNCHANGED <<sessions, signedOut>> /\ req[r].address \in Addresses
    BY <1>2, Unfold DEF CreateUser, Relies
  <2>2. CASE WithAddress(req[r].address) = {}
    <3>1. /\ users' = Append(users, NewUser(req[r].address)) /\ Len(users) < MaxUsers
          /\ AfterUser(r, Len(users) + 1) /\ UNCHANGED refused
      BY <1>2, <2>2 DEF CreateUser
    <3>2. /\ OneUserPerName' /\ SessionOfItsSigner' /\ RefusedOnlyIfKnown' /\ SignedOutStaysOut'
          /\ signedOut' \subseteq DOMAIN sessions'
          /\ \A u \in DOMAIN users : u \in DOMAIN users' /\ users'[u] = users[u]
          /\ users'[Len(users) + 1].ethAddress = req[r].address
      BY <2>1, <2>2, <3>1, NewUserKeepsNames
    <3>3. ASSUME NEW p \in Requests, req'[p].at = "createSession"
          PROVE  users'[req'[p].user].ethAddress = req'[p].address
      <4>1. CASE p = r
        BY <3>1, <3>2, <3>3, <4>1, AfterUserAddress, Unfold
      <4>2. CASE p # r
        <5>1. req'[p] = req[p] /\ req[p].user \in DOMAIN users
          BY <1>0, <3>3, <4>2, Unfold DEF Relies
        <5> QED BY <3>2, <3>3, <5>1 DEF AInv
      <4> QED BY <4>1, <4>2
    <3> QED BY <3>2, <3>3 DEF AInv
  <2>3. CASE WithAddress(req[r].address) # {}
    <3>1. /\ UNCHANGED users /\ Answered(r)
          /\ refused' = refused \/ refused' = refused \cup {req[r].address}
      BY <1>2, <2>3 DEF CreateUser
    <3>2. req'[r].at = "idle"
      BY <1>0, <3>1, EndsOne
    <3> QED BY <1>0, <2>1, <2>3, <3>1, <3>2
            DEF AInv, OneUserPerName, SessionOfItsSigner, RefusedOnlyIfKnown, SignedOutStaysOut,
                WithAddress
  <2> QED BY <2>2, <2>3
<1>3. CASE CreateUserSession(r)
  <2> DEFINE d == [userId |-> req[r].user, open |-> TRUE, signer |-> req[r].address]
  <2>1. /\ d \in SessionDocs /\ d.userId \in DOMAIN users
        /\ users[d.userId].ethAddress = d.signer
    BY <1>3, Unfold DEF CreateUserSession, Relies, SessionDocs, AInv
  <2>2. /\ Answered(r) /\ sessions' = Append(sessions, d)
        /\ UNCHANGED <<users, signedOut, refused>>
    BY <1>3 DEF CreateUserSession, history
  <2>3. req'[r].at = "idle"
    BY <1>0, <2>2, EndsOne
  <2> HIDE DEF d
  <2>4. /\ DOMAIN sessions' = 1..(Len(sessions) + 1) /\ DOMAIN sessions = 1..Len(sessions)
        /\ sessions'[Len(sessions) + 1] = d /\ Len(sessions) \in Nat
        /\ \A s \in DOMAIN sessions : sessions'[s] = sessions[s]
    BY <2>1, <2>2, NewSessionGrows, Unfold, LenProperties
  <2>5. SessionOfItsSigner'
    <3> SUFFICES ASSUME NEW s \in DOMAIN sessions'
                 PROVE  /\ sessions'[s].userId \in DOMAIN users'
                        /\ users'[sessions'[s].userId].ethAddress = sessions'[s].signer
      BY DEF SessionOfItsSigner
    <3>1. CASE s = Len(sessions) + 1
      BY <2>1, <2>2, <2>4, <3>1
    <3>2. CASE s # Len(sessions) + 1
      <4>1. s \in DOMAIN sessions
        BY <2>4, <3>2
      <4> QED BY <2>2, <2>4, <4>1 DEF AInv, SessionOfItsSigner
    <3> QED BY <3>1, <3>2
  <2>6. /\ signedOut' \subseteq DOMAIN sessions' /\ SignedOutStaysOut'
    <3>1. DOMAIN sessions \subseteq DOMAIN sessions'
      BY <2>4
    <3> QED BY <2>2, <2>4, <3>1 DEF AInv, SignedOutStaysOut
  <2> QED BY <1>0, <2>2, <2>3, <2>5, <2>6
          DEF AInv, OneUserPerName, RefusedOnlyIfKnown, WithAddress
<1>4. CASE DeleteSession(r)
  <2>1. PICK k \in DOMAIN sessions : k = req[r].session
    BY <1>4, Unfold DEF DeleteSession, Relies
  <2>2. /\ sessions' = [sessions EXCEPT ![k].open = FALSE] /\ signedOut' = signedOut \cup {k}
        /\ UNCHANGED <<users, refused>> /\ Answered(r)
    BY <1>4, <2>1 DEF DeleteSession
  <2>3. /\ DOMAIN sessions' = DOMAIN sessions /\ ~sessions'[k].open
        /\ \A s \in DOMAIN sessions :
             /\ sessions'[s].userId = sessions[s].userId /\ sessions'[s].signer = sessions[s].signer
             /\ ~sessions[s].open => ~sessions'[s].open
    <3>1. sessions[k] \in SessionDocs
      BY Unfold
    <3>2. /\ ~[sessions[k] EXCEPT !.open = FALSE].open
          /\ [sessions[k] EXCEPT !.open = FALSE].userId = sessions[k].userId
          /\ [sessions[k] EXCEPT !.open = FALSE].signer = sessions[k].signer
      BY <3>1 DEF SessionDocs
    <3> DEFINE e == [sessions[k] EXCEPT !.open = FALSE]
    <3>3. sessions' = [sessions EXCEPT ![k] = e]
      BY <2>2
    <3>4. ~e.open /\ e.userId = sessions[k].userId /\ e.signer = sessions[k].signer
      BY <3>2
    <3> HIDE DEF e
    <3>5. DOMAIN sessions' = DOMAIN sessions /\ sessions'[k] = e
          /\ \A s \in DOMAIN sessions : s # k => sessions'[s] = sessions[s]
      BY <3>3, Unfold
    <3> QED BY <3>4, <3>5
  <2>4. req'[r].at = "idle"
    BY <1>0, <2>2, EndsOne
  <2>5. SessionOfItsSigner' /\ SignedOutStaysOut' /\ signedOut' \subseteq DOMAIN sessions'
    BY <2>2, <2>3 DEF AInv, SessionOfItsSigner, SignedOutStaysOut
  <2> QED BY <1>0, <2>2, <2>4, <2>5 DEF AInv, OneUserPerName, RefusedOnlyIfKnown, WithAddress
<1>5. CASE StoreProfile(r)
  <2>1. UNCHANGED <<sessions, signedOut, refused>> /\ Answered(r)
    BY <1>5 DEF StoreProfile, history
  <2>2. req'[r].at = "idle"
    BY <1>0, <2>1, EndsOne
  <2>3. CASE users' = users
    BY <1>0, <2>1, <2>2, <2>3, AccountsUnchanged
  <2>4. CASE users' # users
    <3>1. PICK u \in DOMAIN users, slug \in Slugs \cup {NoSlug} :
                 u = req[r].user /\ slug = req[r].slug
      BY <1>5, <2>4, Unfold DEF StoreProfile, Relies, ReqDocs, AskedSlugs
    <3>2. users' = [users EXCEPT ![u].slug = slug] /\ WithSlug(slug) \subseteq {u}
      BY <1>5, <2>4, <3>1 DEF StoreProfile
    <3>3. /\ DOMAIN users' = DOMAIN users
          /\ \A v \in DOMAIN users : users'[v].ethAddress = users[v].ethAddress
          /\ users'[u].slug = slug
          /\ \A v \in DOMAIN users : v # u => users'[v].slug = users[v].slug
      <4> DEFINE e == [users[u] EXCEPT !.slug = slug]
      <4>1. users[u] \in UserDocs
        BY Unfold, ElementOfSeq
      <4>2. e.slug = slug /\ e.ethAddress = users[u].ethAddress
        BY <4>1 DEF UserDocs
      <4>3. users' = [users EXCEPT ![u] = e]
        BY <3>2
      <4> HIDE DEF e
      <4>4. DOMAIN users' = DOMAIN users /\ users'[u] = e
            /\ \A v \in DOMAIN users : v # u => users'[v] = users[v]
        BY <4>3, Unfold
      <4> QED BY <4>2, <4>4
    <3>4. OneUserPerName'
      BY <3>2, <3>3 DEF AInv, OneUserPerName, WithSlug
    <3>5. SessionOfItsSigner' /\ RefusedOnlyIfKnown' /\ SignedOutStaysOut'
      BY <2>1, <3>3 DEF AInv, SessionOfItsSigner, RefusedOnlyIfKnown, SignedOutStaysOut, WithAddress
    <3>6. ASSUME NEW p \in Requests, req'[p].at = "createSession"
          PROVE  users'[req'[p].user].ethAddress = req'[p].address
      <4>1. p # r /\ req'[p] = req[p] /\ req[p].user \in DOMAIN users
        BY <1>0, <2>2, <3>6, Unfold DEF Relies
      <4> QED BY <3>3, <3>6, <4>1 DEF AInv
    <3> QED BY <2>1, <3>4, <3>5, <3>6 DEF AInv
  <2> QED BY <2>3, <2>4
<1>6. CASE ~(\/ FindUser(r) \/ CreateUser(r) \/ CreateUserSession(r) \/ DeleteSession(r)
             \/ StoreProfile(r))
  <2>1. UNCHANGED <<users, sessions, signedOut, refused>>
    BY <1>6 DEF Continue, React, StoreViewer, IncreaseViewersCount, StoreNewFollow, RemoveFollow,
       accounts, history
  <2>2. req'[r].at # "createSession"
    <3>1. Answered(r) \/ Goes(r, "countViewer")
      BY <1>6 DEF Continue, React, StoreViewer, IncreaseViewersCount, StoreNewFollow, RemoveFollow
    <3>2. CASE Answered(r)
      BY <1>0, <3>2, EndsOne
    <3>3. CASE Goes(r, "countViewer")
      <4>1. req'[r].at = "countViewer"
        BY <3>3, GoesOne, Zenon
      <4> QED BY <4>1
    <3> QED BY <3>1, <3>2, <3>3
  <2> QED BY <1>0, <2>1, <2>2, AccountsUnchanged
<1> QED BY <1>1, <1>2, <1>3, <1>4, <1>5, <1>6

LEMMA AInvInductive ==
    /\ Init => AInv
    /\ TInv /\ AInv /\ [Next]_vars => AInv'
<1>1. Init => AInv
  BY DEF Init, AInv, OneUserPerName, SessionOfItsSigner, RefusedOnlyIfKnown, SignedOutStaysOut,
         NoReq
<1>2. ASSUME TInv, AInv, Next PROVE AInv'
  <2> USE DEF history, accounts
  <2>1. CASE Tick \/ RequestSignature
    BY <1>2, <2>1, AccountsUnchanged DEF Tick, RequestSignature
  <2>2. ASSUME NEW a \in Addresses, SyncUser(a) PROVE AInv'
    <3>1. /\ OneUserPerName' /\ SessionOfItsSigner' /\ RefusedOnlyIfKnown' /\ SignedOutStaysOut'
          /\ signedOut' \subseteq DOMAIN sessions'
          /\ \A u \in DOMAIN users : u \in DOMAIN users' /\ users'[u] = users[u]
      BY <1>2, <2>2, NewUserKeepsNames DEF SyncUser
    <3>2. ASSUME NEW p \in Requests, req'[p].at = "createSession"
          PROVE  users'[req'[p].user].ethAddress = req'[p].address
      <4>1. req'[p] = req[p] /\ req[p].user \in DOMAIN users
        BY <1>2, <2>2, <3>2, Unfold DEF SyncUser, Relies
      <4> QED BY <1>2, <3>1, <3>2, <4>1 DEF AInv
    <3> QED BY <3>1, <3>2 DEF AInv
  <2>3. ASSUME NEW r \in Requests, NEW b \in Bodies, Begin(r, b) PROVE AInv'
    <3>1. UNCHANGED <<users, sessions, signedOut, refused>>
      BY <1>2, <2>3, BeginShape
    <3>2. \A p \in Requests : req'[p].at = "createSession" => req'[p] = req[p]
      BY <1>2, <2>3, BeginShape DEF Starts
    <3> QED BY <1>2, <3>1, <3>2, AccountsUnchanged
  <2>4. ASSUME NEW r \in Requests, Continue(r) PROVE AInv'
    BY <1>2, <2>4, AccountsContinue
  <2>5. ASSUME NEW r \in Requests, RequestFails(r) PROVE AInv'
    BY <1>2, <2>5, EndsOne, AccountsUnchanged DEF RequestFails, NoReq
  <2> QED BY <1>2, <2>1, <2>2, <2>3, <2>4, <2>5 DEF Next
<1>3. ASSUME TInv, AInv, UNCHANGED vars PROVE AInv'
  BY <1>3, AccountsUnchanged DEF vars, accounts, history
<1> QED BY <1>1, <1>2, <1>3

(* One user for an address and for a slug; a session is its signer's until *)
(* he signs out, and from then on nobody's; nobody is refused in vain.     *)
THEOREM AccountsStaySound == Spec => []AccountsSound
<1>1. TInv /\ AInv => AccountsSound
  BY DEF TInv, AInv, AccountsSound
<1> QED BY <1>1, AInvInductive, TypedAlways, PTL DEF Spec

-----------------------------------------------------------------------------
(* The clients.  To the members a step of theirs is nothing, or a listener *)
(* that makes a user, or a request and a failure less to come.             *)
BoundsOnly == UNCHANGED <<accounts, engagement, now, req, history>>

MembersInv == TInv /\ RInv /\ VInv /\ OneFollowPerPair /\ AInv

LEMMA ClientsMakeUsers ==
    ASSUME [CollectiblesNext]_<<vars, cvars>>
    PROVE  [Next]_vars \/ BoundsOnly
<1>1. CASE Next \/ UNCHANGED <<vars, cvars>>
  BY <1>1
<1>2. CASE \E c \in Clients, u \in DOMAIN users : StoreContractMetadata(c, u)
  BY <1>2 DEF StoreContractMetadata
<1>3. ASSUME NEW q \in ClientRequests, NEW c \in Clients, NEW x \in ExternalIds,
             ExistsCollectible(q, c, x)
      PROVE  BoundsOnly
  BY <1>3 DEF ExistsCollectible, BoundsOnly
<1>4. ASSUME NEW q \in ClientRequests, ClientRequestFails(q) PROVE BoundsOnly
  BY <1>4 DEF ClientRequestFails, BoundsOnly
<1>5. ASSUME NEW q \in ClientRequests, ClientStep(q) PROVE [Next]_vars
  <2>1. CASE CreateMarketUser(q)
    <3>1. CASE WithAddress(MarketAddress) # {}
      BY <2>1, <3>1 DEF CreateMarketUser, vars, accounts
    <3>2. CASE WithAddress(MarketAddress) = {}
      <4>1. SyncUser(MarketAddress)
        BY <2>1, <3>2 DEF CreateMarketUser, SyncUser
      <4> QED BY <4>1, ClientsAssumption DEF Next
    <3> QED BY <3>1, <3>2
  <2>2. CASE ~CreateMarketUser(q)
    BY <1>5, <2>2 DEF ClientStep, FindMarketUser, FindClientMetadata, ExistsMetadataBySlug,
       StoreClientMetadata, StoreTokenFileFromUrl, GetNextTokenIdentifier, StoreTokenMetadata,
       StoreCollectible
  <2> QED BY <2>1, <2>2
<1> QED BY <1>1, <1>2, <1>3, <1>4, <1>5 DEF CollectiblesNext

LEMMA MembersInvNext ==
    ASSUME MembersInv, [Next]_vars \/ BoundsOnly
    PROVE  MembersInv'
<1>1. CASE [Next]_vars
  BY <1>1, TypeInductive, RInvInductive, VInvInductive, FollowsInductive, AInvInductive DEF MembersInv
<1>2. CASE BoundsOnly
  <2>1. TInv'
    BY <1>2 DEF MembersInv, BoundsOnly, accounts, engagement, TInv, TypeOK, Relies
  <2>2. RInv'
    BY <1>2, QuietKeeps DEF MembersInv, BoundsOnly, Quiet, engagement, history
  <2>3. VInv'
    BY <1>2, NoneCountedKeeps DEF MembersInv, BoundsOnly, NoneCounted, engagement, history
  <2>4. OneFollowPerPair'
    BY <1>2 DEF MembersInv, BoundsOnly, OneFollowPerPair, engagement
  <2>5. AInv'
    BY <1>2, AccountsUnchanged DEF MembersInv, BoundsOnly, accounts, history
  <2> QED BY <2>1, <2>2, <2>3, <2>4, <2>5 DEF MembersInv
<1> QED BY <1>1, <1>2

LEMMA MembersInvAlways == CollectiblesSpec => []MembersInv
<1>1. Init => MembersInv
  BY TypeInductive, RInvInductive, VInvInductive, FollowsInductive, AInvInductive DEF MembersInv
<1>2. MembersInv /\ [CollectiblesNext]_<<vars, cvars>> => MembersInv'
  BY ClientsMakeUsers, MembersInvNext
<1> QED BY <1>1, <1>2, PTL DEF CollectiblesSpec

(* Clients disturb no member: their requests make the user of the          *)
(* marketplace while members sign in and listeners make users, and what    *)
(* holds of accounts, reactions and counts holds all the same.             *)
THEOREM ClientsDisturbNobody ==
    CollectiblesSpec => [](AccountsSound /\ ReactionsSound /\ CountedOnce)
<1>1. MembersInv => AccountsSound /\ ReactionsSound /\ CountedOnce
  BY DEF MembersInv, TInv, AInv, AccountsSound, RInv, VInv, CountedOnce
<1> QED BY <1>1, MembersInvAlways, PTL

-----------------------------------------------------------------------------
(* No user goes, and none changes his address.                             *)
AddressesStay ==
    \A u \in DOMAIN users : u \in DOMAIN users' /\ users'[u].ethAddress = users[u].ethAddress

LEMMA AddressesKept ==
    ASSUME TInv, [Next]_vars \/ BoundsOnly
    PROVE  AddressesStay
<1>1. CASE UNCHANGED users
  BY <1>1 DEF AddressesStay
<1>2. ASSUME NEW a \in Addresses, Len(users) < MaxUsers, users' = Append(users, NewUser(a)),
             UNCHANGED sessions
      PROVE  AddressesStay
  BY <1>2, NewUserGrows, Unfold DEF AddressesStay, AccountsGrow
<1>3. ASSUME NEW r \in Requests, StoreProfile(r), ~UNCHANGED users
      PROVE  AddressesStay
  <2>1. /\ users' = [users EXCEPT ![req[r].user].slug = req[r].slug]
        /\ req[r].at = "storeProfile"
    BY <1>3 DEF StoreProfile
  <2>2. req[r].user \in DOMAIN users /\ users \in Seq(UserDocs)
    BY <2>1, Unfold DEF Relies
  <2>3. users[req[r].user] \in UserDocs
    BY <2>2, ElementOfSeq
  <2> QED BY <2>1, <2>2, <2>3 DEF AddressesStay, UserDocs
<1>4. ASSUME NEW r \in Requests, CreateUser(r), ~UNCHANGED users
      PROVE  AddressesStay
  <2>1. req[r].address \in Addresses
    BY <1>4, Unfold DEF CreateUser, Relies
  <2> QED BY <1>2, <1>4, <2>1 DEF CreateUser
<1>5. ASSUME NEW r \in Requests, Continue(r), ~CreateUser(r), ~StoreProfile(r)
      PROVE  UNCHANGED users
  BY <1>5 DEF Continue, FindUser, CreateUserSession, DeleteSession, React, StoreViewer,
     IncreaseViewersCount, StoreNewFollow, RemoveFollow, accounts
<1>6. ASSUME NEW r \in Requests, NEW b \in Bodies, Begin(r, b)
      PROVE  UNCHANGED users
  BY <1>6, BeginShape DEF accounts
<1>7. ASSUME NEW a \in Addresses, SyncUser(a) PROVE AddressesStay
  BY <1>2, <1>7 DEF SyncUser
<1>8. CASE Next
  BY <1>1, <1>3, <1>4, <1>5, <1>6, <1>7, <1>8 DEF Next, Tick, RequestSignature, RequestFails, accounts
<1> QED BY <1>1, <1>8 DEF vars, BoundsOnly, accounts

-----------------------------------------------------------------------------
(* The requests of the clients.  Each has what its next step relies on:    *)
(* the user of the marketplace, his metadata under the slug, an identifier *)
(* that is taken or the next one.                                          *)
ClientSteps == {"idle", "findOwner", "createOwner", "findMetadata", "existsMetadata", "storeMetadata",
                "storeFile", "nextToken", "storeToken", "store"}

TokenDocs == [client : Clients, external : ExternalIds, token : Nat]

AskDocs == [at : ClientSteps, client : Clients \cup {NoClient}, external : ExternalIds \cup {NoExternal},
            owner : Nat, token : Nat]

Ours(u) == u \in WithAddress(MarketAddress)

Has(q) ==
    /\ q.at # "idle" => q.client \in Clients /\ q.external \in ExternalIds
    /\ q.at \in {"findMetadata", "existsMetadata", "storeMetadata"} => Ours(q.owner)
    /\ q.at \in {"storeFile", "nextToken", "storeToken", "store"} => Ours(contractMetadata[q.client])
    /\ q.at = "storeToken" => q.token \in 1..(Len(tokenMetadata[q.client]) + 1)

CTyped ==
    /\ contractMetadata \in [Clients -> Nat]
    /\ tokenMetadata \in [Clients -> Seq(Nat)]
    /\ collectibles \subseteq TokenDocs /\ cutShort \subseteq TokenDocs /\ outrun \subseteq TokenDocs
    /\ creq \in [ClientRequests -> AskDocs]

Numbered(c) ==
    /\ tokenMetadata[c] # <<>> => Ours(contractMetadata[c])
    /\ \A i \in DOMAIN tokenMetadata[c] : tokenMetadata[c][i] = i

(* Every token is of one document or request, and of each is a token.      *)
Given ==
    /\ \A d \in Taken : d.token \in DOMAIN tokenMetadata[d.client]
    /\ \A c \in Clients : \A i \in DOMAIN tokenMetadata[c] :
         \E d \in Taken : d.client = c /\ d.token = i
    /\ \A d, e \in Taken : d.client = e.client /\ d.token = e.token => d = e
    /\ \A p, q \in Storing : Stored(p) = Stored(q) => p = q

Apart ==
    /\ collectibles \cap (Underway \cup cutShort \cup outrun) = {}
    /\ Underway \cap (cutShort \cup outrun) = {} /\ cutShort \cap outrun = {}

OneEach ==
    /\ \A d, e \in collectibles : d.client = e.client /\ d.external = e.external => d = e
    /\ \A d \in outrun : HasCollectible(d.client, d.external)

CInv ==
    /\ CTyped
    /\ \A q \in ClientRequests : Has(creq[q])
    /\ \A c \in Clients : Numbered(c)
    /\ Given /\ Apart /\ OneEach

LEMMA StoredTyped ==
    ASSUME CTyped, NEW q \in ClientRequests, Has(creq[q]), creq[q].at = "store"
    PROVE  Stored(q) \in TokenDocs
BY DEF CTyped, Has, AskDocs, Stored, TokenDocs

LEMMA TakenTyped ==
    ASSUME CTyped, \A q \in ClientRequests : Has(creq[q])
    PROVE  Taken \subseteq TokenDocs
BY StoredTyped DEF CTyped, Taken, Underway, Storing

LEMMA CInvSound ==
    ASSUME CInv
    PROVE  CollectiblesSound
<1>1. ASSUME NEW c \in Clients
      PROVE  {d.token : d \in {e \in Taken : e.client = c}} = DOMAIN tokenMetadata[c]
  BY DEF CInv, Given
<1> QED BY <1>1 DEF CInv, Given, Apart, OneEach, Numbered, CollectiblesSound, Ours

-----------------------------------------------------------------------------
(* What stays for good: a user, the metadata of a slug, a token.           *)
Lasting ==
    /\ AddressesStay
    /\ \A c \in Clients : contractMetadata[c] # 0 => contractMetadata'[c] = contractMetadata[c]
    /\ \A c \in Clients : Len(tokenMetadata[c]) <= Len(tokenMetadata'[c])

OursLater(u) == u \in DOMAIN users' /\ users'[u].ethAddress = MarketAddress

LEMMA OursIsSome == TInv => ~Ours(0)
BY Unfold DEF Ours, WithAddress

LEMMA OursLast ==
    ASSUME TInv, Lasting
    PROVE  /\ \A u : Ours(u) => OursLater(u)
           /\ \A c \in Clients : Ours(contractMetadata[c]) => OursLater(contractMetadata'[c])
<1>1. \A u : Ours(u) => OursLater(u)
  BY DEF Lasting, Ours, OursLater, WithAddress, AddressesStay
<1>2. ASSUME NEW c \in Clients, Ours(contractMetadata[c])
      PROVE  contractMetadata'[c] = contractMetadata[c]
  BY <1>2, OursIsSome DEF Lasting
<1> QED BY <1>1, <1>2

LEMMA LensAreNat ==
    ASSUME CTyped
    PROVE  \A c \in Clients : /\ Len(tokenMetadata[c]) \in Nat
                              /\ DOMAIN tokenMetadata[c] = 1..Len(tokenMetadata[c])
BY LenProperties DEF CTyped

(* A request that does not move has what it had.                           *)
LEMMA HasStays ==
    ASSUME TInv, CTyped, CTyped', Lasting, NEW p \in ClientRequests, creq'[p] = creq[p], Has(creq[p])
    PROVE  Has(creq[p])'
<1>1. CASE creq[p].at = "idle"
  BY <1>1 DEF Has
<1>2. CASE creq[p].at # "idle"
  <2> DEFINE c == creq[p].client
  <2>1. c \in Clients /\ creq'[p].client = c /\ creq'[p].external \in ExternalIds
    BY <1>2 DEF Has
  <2>2. Ours(creq[p].owner) => OursLater(creq'[p].owner)
    BY OursLast
  <2>3. Ours(contractMetadata[c]) => OursLater(contractMetadata'[c])
    BY <2>1, OursLast
  <2>4. /\ Len(tokenMetadata[c]) \in Nat /\ Len(tokenMetadata'[c]) \in Nat
        /\ Len(tokenMetadata[c]) <= Len(tokenMetadata'[c])
    BY <2>1, LensAreNat DEF Lasting, CTyped
  <2> QED BY <1>2, <2>1, <2>2, <2>3, <2>4 DEF Has, Ours, OursLater, WithAddress
<1> QED BY <1>1, <1>2

-----------------------------------------------------------------------------
(* A step of one request.                                                  *)
OthersStay(q) == \A p \in ClientRequests \ {q} : creq'[p] = creq[p]

LEMMA AskOne ==
    ASSUME CTyped, NEW q \in ClientRequests, NEW a \in AskDocs, creq' = [creq EXCEPT ![q] = a]
    PROVE  creq'[q] = a /\ OthersStay(q) /\ creq' \in [ClientRequests -> AskDocs]
BY DEF CTyped, OthersStay

LEMMA NoAskTyped == NoAsk \in AskDocs /\ NoAsk.at = "idle" /\ Has(NoAsk) /\ Has(NoAsk)'
BY DEF NoAsk, AskDocs, ClientSteps, Has

LEMMA RepliedOne ==
    ASSUME CTyped, NEW q \in ClientRequests, Replied(q)
    PROVE  creq'[q] = NoAsk /\ OthersStay(q) /\ creq' \in [ClientRequests -> AskDocs]
BY AskOne, NoAskTyped DEF Replied

LEMMA ProceedsOne ==
    ASSUME CTyped, NEW q \in ClientRequests, NEW step \in ClientSteps, Proceeds(q, step)
    PROVE  /\ creq'[q].at = step /\ creq'[q].client = creq[q].client
           /\ creq'[q].external = creq[q].external
           /\ creq'[q].owner = creq[q].owner /\ creq'[q].token = creq[q].token
           /\ OthersStay(q) /\ creq' \in [ClientRequests -> AskDocs]
<1> DEFINE a == [creq[q] EXCEPT !.at = step]
<1>1. /\ a \in AskDocs /\ a.at = step /\ a.client = creq[q].client /\ a.external = creq[q].external
      /\ a.owner = creq[q].owner /\ a.token = creq[q].token
  BY DEF CTyped, AskDocs
<1>2. creq' = [creq EXCEPT ![q] = a]
  BY DEF Proceeds
<1> HIDE DEF a
<1> QED BY <1>1, <1>2, AskOne

(* No request comes to a token or leaves with one.                         *)
SameStoring ==
    /\ UNCHANGED <<tokenMetadata, collectibles, spent>>
    /\ \A p \in ClientRequests :
         /\ creq'[p].at = "store" <=> creq[p].at = "store"
         /\ creq[p].at = "store" => creq'[p] = creq[p]

LEMMA SameStoringKeeps ==
    ASSUME Given, Apart, OneEach, SameStoring
    PROVE  Given' /\ Apart' /\ OneEach'
<1>1. Storing' = Storing /\ \A p \in Storing : creq'[p] = creq[p]
  BY DEF SameStoring, Storing
<1>2. Underway' = Underway
  BY <1>1 DEF Underway, Stored
<1>3. Taken' = Taken
  BY <1>2 DEF Taken, SameStoring, spent
<1>4. Given'
  BY <1>1, <1>3 DEF Given, SameStoring, Stored
<1> QED BY <1>2, <1>4 DEF Apart, OneEach, HasCollectible, SameStoring, spent

LEMMA NumberedStays ==
    ASSUME TInv, Lasting, UNCHANGED tokenMetadata, NEW c \in Clients, Numbered(c)
    PROVE  Numbered(c)'
BY OursLast DEF Numbered, Ours, OursLater, WithAddress

(* The steps up to the token, and the ones that end before there is one.   *)
LEMMA EarlyStep ==
    ASSUME TInv, CInv, AddressesStay, NEW q \in ClientRequests, OthersStay(q),
           creq' \in [ClientRequests -> AskDocs], creq[q].at # "store", creq'[q].at # "store",
           UNCHANGED <<tokenMetadata, collectibles, spent>>,
           contractMetadata' \in [Clients -> Nat],
           \A c \in Clients : contractMetadata[c] # 0 => contractMetadata'[c] = contractMetadata[c],
           Has(creq[q])'
    PROVE  CInv'
<1>1. CTyped /\ CTyped'
  BY DEF CInv, CTyped, spent
<1>2. Lasting
  BY <1>1, LensAreNat DEF Lasting
<1>3. SameStoring
  BY DEF SameStoring, OthersStay
<1>4. ASSUME NEW p \in ClientRequests PROVE Has(creq[p])'
  <2>1. CASE p = q
    BY <2>1
  <2>2. CASE p # q
    BY <1>1, <1>2, <2>2, HasStays DEF CInv, OthersStay
  <2> QED BY <2>1, <2>2
<1>5. ASSUME NEW c \in Clients PROVE Numbered(c)'
  BY <1>2, NumberedStays DEF CInv
<1> QED BY <1>1, <1>3, <1>4, <1>5, SameStoringKeeps DEF CInv

(* No request takes a step.                                                *)
LEMMA NoRequestSteps ==
    ASSUME TInv, CInv, AddressesStay, UNCHANGED <<tokenMetadata, collectibles, spent, creq>>,
           contractMetadata' \in [Clients -> Nat],
           \A c \in Clients : contractMetadata[c] # 0 => contractMetadata'[c] = contractMetadata[c]
    PROVE  CInv'
<1>1. CTyped /\ CTyped'
  BY DEF CInv, CTyped, spent
<1>2. Lasting
  BY <1>1, LensAreNat DEF Lasting
<1>3. SameStoring
  BY DEF SameStoring
<1>4. ASSUME NEW p \in ClientRequests PROVE Has(creq[p])'
  BY <1>1, <1>2, HasStays DEF CInv
<1>5. ASSUME NEW c \in Clients PROVE Numbered(c)'
  BY <1>2, NumberedStays DEF CInv
<1> QED BY <1>1, <1>3, <1>4, <1>5, SameStoringKeeps DEF CInv

LEMMA ReplyEarly ==
    ASSUME TInv, CInv, AddressesStay, NEW q \in ClientRequests, creq[q].at # "store", Replied(q),
           UNCHANGED <<tokenMetadata, collectibles, spent, contractMetadata>>
    PROVE  CInv'
<1>1. creq'[q] = NoAsk /\ OthersStay(q) /\ creq' \in [ClientRequests -> AskDocs]
  BY RepliedOne DEF CInv
<1>2. creq'[q].at # "store" /\ Has(creq[q])'
  BY <1>1, NoAskTyped DEF Has
<1>3. contractMetadata' \in [Clients -> Nat]
  BY DEF CInv, CTyped
<1> QED BY <1>1, <1>2, <1>3, EarlyStep

LEMMA ExistsKeeps ==
    ASSUME TInv, CInv, AddressesStay, NEW q \in ClientRequests, NEW c \in Clients, NEW x \in ExternalIds,
           ExistsCollectible(q, c, x)
    PROVE  CInv'
<1> DEFINE a == [NoAsk EXCEPT !.at = "findOwner", !.client = c, !.external = x]
<1>1. a \in AskDocs /\ a.at = "findOwner" /\ a.client = c /\ a.external = x
  BY DEF NoAsk, AskDocs, ClientSteps
<1>2. creq' = [creq EXCEPT ![q] = a] /\ creq[q].at = "idle"
  BY DEF ExistsCollectible
<1> HIDE DEF a
<1>3. creq'[q] = a /\ OthersStay(q) /\ creq' \in [ClientRequests -> AskDocs]
  BY <1>1, <1>2, AskOne DEF CInv
<1>4. Has(creq[q])'
  BY <1>1, <1>3 DEF Has
<1>5. contractMetadata' \in [Clients -> Nat] /\ UNCHANGED <<tokenMetadata, collectibles, spent, contractMetadata>>
  BY DEF CInv, CTyped, ExistsCollectible, catalogue
<1> QED BY <1>1, <1>2, <1>3, <1>4, <1>5, EarlyStep

(* The request goes on with the user of the marketplace.                   *)
LEMMA OwnerFound ==
    ASSUME TInv, CInv, AddressesStay, NEW q \in ClientRequests, NEW u \in DOMAIN users', OursLater(u),
           DOMAIN users' \subseteq Nat, creq[q].at \in {"findOwner", "createOwner"},
           creq' = [creq EXCEPT ![q].at = "findMetadata", ![q].owner = u],
           UNCHANGED <<tokenMetadata, collectibles, spent, contractMetadata>>
    PROVE  CInv'
<1> DEFINE a == [creq[q] EXCEPT !.at = "findMetadata", !.owner = u]
<1>1. /\ a \in AskDocs /\ a.at = "findMetadata" /\ a.owner = u
      /\ a.client = creq[q].client /\ a.external = creq[q].external
  BY DEF CInv, CTyped, AskDocs, ClientSteps
<1>2. creq' = [creq EXCEPT ![q] = a]
  OBVIOUS
<1> HIDE DEF a
<1>3. creq'[q] = a /\ OthersStay(q) /\ creq' \in [ClientRequests -> AskDocs]
  BY <1>1, <1>2, AskOne DEF CInv
<1>4. a.client \in Clients /\ a.external \in ExternalIds
  BY <1>1 DEF CInv, Has
<1>5. Has(creq[q])'
  BY <1>1, <1>3, <1>4 DEF Has, Ours, OursLater, WithAddress
<1>6. contractMetadata' \in [Clients -> Nat]
  BY DEF CInv, CTyped
<1> QED BY <1>1, <1>3, <1>5, <1>6, EarlyStep

(* The request goes on to a step before its token.                         *)
LEMMA GoesEarly ==
    ASSUME TInv, CInv, AddressesStay, NEW q \in ClientRequests, creq[q].at # "store", creq[q].at # "idle",
           NEW step \in ClientSteps \ {"store", "storeToken", "idle"}, Proceeds(q, step),
           UNCHANGED <<tokenMetadata, collectibles, spent>>,
           contractMetadata' \in [Clients -> Nat],
           \A c \in Clients : contractMetadata[c] # 0 => contractMetadata'[c] = contractMetadata[c],
           step \in {"findMetadata", "existsMetadata", "storeMetadata"} => OursLater(creq[q].owner),
           step \in {"storeFile", "nextToken"} => OursLater(contractMetadata'[creq[q].client])
    PROVE  CInv'
<1>1. /\ creq'[q].at = step /\ creq'[q].client = creq[q].client
      /\ creq'[q].external = creq[q].external /\ creq'[q].owner = creq[q].owner
      /\ OthersStay(q) /\ creq' \in [ClientRequests -> AskDocs]
  BY ProceedsOne DEF CInv
<1>2. creq[q].client \in Clients /\ creq[q].external \in ExternalIds
  BY DEF CInv, Has
<1>3. Has(creq[q])'
  BY <1>1, <1>2 DEF Has, Ours, OursLater, WithAddress
<1> QED BY <1>1, <1>3, EarlyStep

(* The identifiers under the metadata of a client are the first ones, and  *)
(* the next is one more than there are.                                    *)
LEMMA FirstIdentifiers ==
    ASSUME CTyped, NEW c \in Clients, Numbered(c)
    PROVE  /\ Identifiers(c) = 1..Len(tokenMetadata[c])
           /\ Max(Identifiers(c) \cup {0}) + 1 = Len(tokenMetadata[c]) + 1
<1> DEFINE n == Len(tokenMetadata[c])
<1>1. n \in Nat /\ DOMAIN tokenMetadata[c] = 1..n
  BY LensAreNat
<1>2. Identifiers(c) = 1..n
  BY <1>1 DEF Numbered, Identifiers
<1> HIDE DEF n
<1>3. Identifiers(c) \cup {0} = 0..n
  BY <1>1, <1>2
<1>4. n \in 0..n /\ \A y \in 0..n : n >= y
  BY <1>1
<1>5. Max(0..n) \in 0..n /\ \A y \in 0..n : Max(0..n) >= y
  BY <1>4 DEF Max
<1>6. Max(0..n) = n
  BY <1>1, <1>4, <1>5
<1> QED BY <1>2, <1>3, <1>6 DEF n

LEMMA EarlyKeeps ==
    ASSUME TInv, TInv', CInv, AddressesStay, NEW q \in ClientRequests, ClientStep(q),
           ~StoreTokenMetadata(q), ~StoreCollectible(q)
    PROVE  CInv'
<1> DEFINE c == creq[q].client
<1>0. /\ CTyped /\ Has(creq[q]) /\ creq[q] \in AskDocs
      /\ \A u : Ours(u) => OursLater(u)
  BY DEF CInv, CTyped, AddressesStay, Ours, OursLater, WithAddress
<1>1. CASE FindMarketUser(q)
  <2>1. UNCHANGED <<tokenMetadata, collectibles, spent, contractMetadata>> /\ creq[q].at = "findOwner"
    BY <1>1 DEF FindMarketUser, catalogue
  <2>2. contractMetadata' \in [Clients -> Nat]
    BY <1>0, <2>1 DEF CTyped
  <2>3. CASE Proceeds(q, "createOwner")
    BY <2>1, <2>2, <2>3, GoesEarly DEF ClientSteps
  <2>4. ASSUME NEW u \in WithAddress(MarketAddress),
               creq' = [creq EXCEPT ![q].at = "findMetadata", ![q].owner = u]
        PROVE  CInv'
    <3>1. OursLater(u)
      BY <1>0, <2>4 DEF Ours
    <3>2. u \in DOMAIN users' /\ DOMAIN users' \subseteq Nat
      BY <3>1, Unfold DEF OursLater
    <3> QED BY <2>1, <2>4, <3>1, <3>2, OwnerFound
  <2> QED BY <1>1, <2>3, <2>4 DEF FindMarketUser
<1>2. CASE CreateMarketUser(q)
  <2>1. UNCHANGED <<tokenMetadata, collectibles, spent, contractMetadata>> /\ creq[q].at = "createOwner"
    BY <1>2 DEF CreateMarketUser, catalogue
  <2>2. CASE WithAddress(MarketAddress) # {}
    BY <1>2, <2>1, <2>2, ReplyEarly DEF CreateMarketUser
  <2>3. CASE WithAddress(MarketAddress) = {}
    <3> DEFINE u == Len(users) + 1
    <3>1. /\ users' = Append(users, NewUser(MarketAddress)) /\ Len(users) < MaxUsers
          /\ UNCHANGED sessions
          /\ creq' = [creq EXCEPT ![q].at = "findMetadata", ![q].owner = u]
      BY <1>2, <2>3 DEF CreateMarketUser
    <3>2. u \in DOMAIN users' /\ users'[u] = NewUser(MarketAddress) /\ DOMAIN users' \subseteq Nat
      BY <3>1, ClientsAssumption, NewUserGrows, Unfold
    <3>3. OursLater(u)
      BY <3>2 DEF OursLater, NewUser
    <3> HIDE DEF u
    <3> QED BY <2>1, <3>1, <3>2, <3>3, OwnerFound
  <2> QED BY <2>2, <2>3
<1>3. CASE FindClientMetadata(q)
  <2>1. /\ UNCHANGED <<tokenMetadata, collectibles, spent, contractMetadata>>
        /\ creq[q].at = "findMetadata"
        /\ Proceeds(q, IF contractMetadata[c] = creq[q].owner THEN "storeFile" ELSE "existsMetadata")
    BY <1>3 DEF FindClientMetadata, catalogue
  <2>2. contractMetadata' \in [Clients -> Nat] /\ Ours(creq[q].owner)
    BY <1>0, <2>1 DEF CTyped, Has
  <2> QED BY <1>0, <2>1, <2>2, GoesEarly DEF ClientSteps
<1>4. CASE ExistsMetadataBySlug(q)
  <2>1. UNCHANGED <<tokenMetadata, collectibles, spent, contractMetadata>> /\ creq[q].at = "existsMetadata"
    BY <1>4 DEF ExistsMetadataBySlug, catalogue
  <2>2. contractMetadata' \in [Clients -> Nat] /\ Ours(creq[q].owner)
    BY <1>0, <2>1 DEF CTyped, Has
  <2>3. Replied(q) \/ Proceeds(q, "storeMetadata")
    BY <1>4 DEF ExistsMetadataBySlug
  <2> QED BY <1>0, <2>1, <2>2, <2>3, ReplyEarly, GoesEarly DEF ClientSteps
<1>5. CASE StoreClientMetadata(q)
  <2>1. UNCHANGED <<tokenMetadata, collectibles, spent>> /\ creq[q].at = "storeMetadata"
    BY <1>5 DEF StoreClientMetadata
  <2>2. CASE contractMetadata[c] # 0
    BY <1>5, <2>1, <2>2, ReplyEarly DEF StoreClientMetadata
  <2>3. CASE contractMetadata[c] = 0
    <3>1. /\ contractMetadata' = [contractMetadata EXCEPT ![c] = creq[q].owner]
          /\ Proceeds(q, "storeFile")
      BY <1>5, <2>3 DEF StoreClientMetadata
    <3>2. c \in Clients /\ creq[q].owner \in Nat /\ OursLater(creq[q].owner)
      BY <1>0, <2>1 DEF Has, AskDocs
    <3>3. contractMetadata' \in [Clients -> Nat] /\ contractMetadata'[c] = creq[q].owner
      BY <1>0, <3>1, <3>2 DEF CTyped
    <3>4. \A d \in Clients : contractMetadata[d] # 0 => contractMetadata'[d] = contractMetadata[d]
      BY <1>0, <2>3, <3>1 DEF CTyped
    <3> QED BY <2>1, <3>1, <3>2, <3>3, <3>4, GoesEarly DEF ClientSteps
  <2> QED BY <2>2, <2>3
<1>6. CASE StoreTokenFileFromUrl(q)
  <2>1. UNCHANGED <<tokenMetadata, collectibles, spent, contractMetadata>> /\ creq[q].at = "storeFile"
    BY <1>6 DEF StoreTokenFileFromUrl, catalogue
  <2>2. contractMetadata' \in [Clients -> Nat] /\ Ours(contractMetadata[c])
    BY <1>0, <2>1 DEF CTyped, Has
  <2>3. Replied(q) \/ Proceeds(q, "nextToken")
    BY <1>6 DEF StoreTokenFileFromUrl
  <2> QED BY <1>0, <2>1, <2>2, <2>3, ReplyEarly, GoesEarly DEF ClientSteps
<1>7. CASE GetNextTokenIdentifier(q)
  <2>1. /\ UNCHANGED <<tokenMetadata, collectibles, spent, contractMetadata>> /\ creq[q].at = "nextToken"
        /\ creq' = [creq EXCEPT ![q].at = "storeToken", ![q].token = Max(Identifiers(c) \cup {0}) + 1]
    BY <1>7 DEF GetNextTokenIdentifier, catalogue
  <2>2. c \in Clients /\ creq[q].external \in ExternalIds /\ OursLater(contractMetadata'[c])
    BY <1>0, <2>1 DEF Has
  <2> DEFINE n == Len(tokenMetadata[c])
             a == [creq[q] EXCEPT !.at = "storeToken", !.token = n + 1]
  <2>3. n \in Nat /\ Max(Identifiers(c) \cup {0}) + 1 = n + 1
    BY <2>2, FirstIdentifiers, LensAreNat DEF CInv
  <2> HIDE DEF n
  <2>4. /\ a \in AskDocs /\ a.at = "storeToken" /\ a.token = n + 1
        /\ a.client = c /\ a.external = creq[q].external
    <3>1. n + 1 \in Nat /\ "storeToken" \in ClientSteps
      BY <2>3 DEF ClientSteps
    <3> QED BY <1>0, <3>1 DEF AskDocs
  <2>5. creq' = [creq EXCEPT ![q] = a]
    BY <2>1, <2>3
  <2> HIDE DEF a
  <2>6. creq'[q] = a /\ OthersStay(q) /\ creq' \in [ClientRequests -> AskDocs]
    BY <1>0, <2>4, <2>5, AskOne
  <2>7. n + 1 \in 1..(Len(tokenMetadata'[c]) + 1)
    BY <2>1, <2>3 DEF n
  <2>8. Has(creq[q])'
    BY <2>2, <2>4, <2>6, <2>7 DEF Has, Ours, OursLater, WithAddress
  <2>9. contractMetadata' \in [Clients -> Nat]
    BY <1>0, <2>1 DEF CTyped
  <2> QED BY <2>1, <2>4, <2>6, <2>8, <2>9, EarlyStep
<1> QED BY <1>1, <1>2, <1>3, <1>4, <1>5, <1>6, <1>7 DEF ClientStep

-----------------------------------------------------------------------------
(* The request that stores its token under the next identifier has it for  *)
(* itself: the tokens of all others are those before.                      *)
LEMMA TokenKeeps ==
    ASSUME TInv, CInv, AddressesStay, NEW q \in ClientRequests, StoreTokenMetadata(q)
    PROVE  CInv'
<1> DEFINE c == creq[q].client
           n == Len(tokenMetadata[c])
           t == [client |-> c, external |-> creq[q].external, token |-> creq[q].token]
<1>1. /\ CTyped /\ Has(creq[q]) /\ creq[q].at = "storeToken"
      /\ UNCHANGED <<contractMetadata, collectibles, spent>>
  BY DEF CInv, StoreTokenMetadata
<1>2. c \in Clients /\ creq[q].external \in ExternalIds /\ creq[q].token \in 1..(n + 1)
      /\ Ours(contractMetadata[c])
  BY <1>1 DEF Has
<1>3. n \in Nat /\ DOMAIN tokenMetadata[c] = 1..n /\ Identifiers(c) = 1..n
  BY <1>1, <1>2, LensAreNat, FirstIdentifiers DEF CInv
<1>4. CASE creq[q].token \in Identifiers(c)
  BY <1>1, <1>4, ReplyEarly DEF StoreTokenMetadata
<1>5. CASE creq[q].token \notin Identifiers(c)
  <2>1. creq[q].token = n + 1
    BY <1>2, <1>3, <1>5
  <2>2. /\ tokenMetadata' = [tokenMetadata EXCEPT ![c] = Append(tokenMetadata[c], n + 1)]
        /\ Proceeds(q, "store")
    BY <1>5, <2>1 DEF StoreTokenMetadata
  <2>3. /\ tokenMetadata' \in [Clients -> Seq(Nat)]
        /\ \A d \in Clients \ {c} : tokenMetadata'[d] = tokenMetadata[d]
        /\ DOMAIN tokenMetadata'[c] = 1..(n + 1) /\ Len(tokenMetadata'[c]) = n + 1
        /\ \A i \in 1..n : tokenMetadata'[c][i] = tokenMetadata[c][i]
        /\ tokenMetadata'[c][n + 1] = n + 1
    <3> DEFINE s == tokenMetadata[c]
               l == Append(s, n + 1)
    <3>1. s \in Seq(Nat) /\ n + 1 \in Nat /\ n = Len(s)
      BY <1>1, <1>2, <1>3 DEF CTyped
    <3>2. /\ l \in Seq(Nat) /\ Len(l) = n + 1 /\ l[n + 1] = n + 1
          /\ \A i \in 1..n : l[i] = s[i]
      BY <3>1, AppendProperties
    <3>3. DOMAIN l = 1..(n + 1)
      BY <3>2, LenProperties
    <3>4. tokenMetadata' = [tokenMetadata EXCEPT ![c] = l]
      BY <2>2
    <3> HIDE DEF l, n
    <3>5. tokenMetadata'[c] = l /\ tokenMetadata' \in [Clients -> Seq(Nat)]
      BY <1>1, <1>2, <3>2, <3>4 DEF CTyped
    <3>6. \A d \in Clients \ {c} : tokenMetadata'[d] = tokenMetadata[d]
      BY <1>1, <3>4 DEF CTyped
    <3> QED BY <3>2, <3>3, <3>5, <3>6
  <2>4. /\ creq'[q].at = "store" /\ creq'[q].client = c /\ creq'[q].external = creq[q].external
        /\ creq'[q].token = n + 1 /\ OthersStay(q) /\ creq' \in [ClientRequests -> AskDocs]
    BY <1>1, <2>1, <2>2, ProceedsOne DEF ClientSteps
  <2> HIDE DEF n
  <2>5. CTyped'
    BY <1>1, <2>3, <2>4 DEF CTyped, spent
  <2>6. Lasting
    BY <1>1, <1>3, <2>3, LensAreNat DEF Lasting, n
  <2>7. ASSUME NEW p \in ClientRequests PROVE Has(creq[p])'
    <3>1. CASE p = q
      <4>1. OursLater(contractMetadata'[c])
        BY <1>2, <2>6, OursLast
      <4> QED BY <1>2, <2>4, <3>1, <4>1 DEF Has, Ours, OursLater, WithAddress
    <3>2. CASE p # q
      BY <1>1, <2>4, <2>5, <2>6, <3>2, HasStays DEF CInv, OthersStay
    <3> QED BY <3>1, <3>2
  <2>8. ASSUME NEW d \in Clients PROVE Numbered(d)'
    <3>1. CASE d = c
      <4>1. OursLater(contractMetadata'[c])
        BY <1>2, <2>6, OursLast
      <4>2. \A i \in 1..(n + 1) : tokenMetadata'[c][i] = i
        <5>1. \A i \in 1..n : tokenMetadata'[c][i] = i
          BY <1>2, <1>3, <2>3 DEF CInv, Numbered
        <5>2. \A i \in 1..(n + 1) : i \in 1..n \/ i = n + 1
          BY <1>3
        <5> QED BY <2>3, <5>1, <5>2
      <4> QED BY <2>3, <3>1, <4>1, <4>2 DEF Numbered, Ours, OursLater, WithAddress
    <3>2. CASE d # c
      <4>1. tokenMetadata'[d] = tokenMetadata[d]
        BY <2>3, <3>2
      <4>2. Ours(contractMetadata[d]) => OursLater(contractMetadata'[d])
        BY <2>6, OursLast
      <4>3. Numbered(d)
        BY DEF CInv
      <4> QED BY <4>1, <4>2, <4>3 DEF Numbered, Ours, OursLater, WithAddress
    <3> QED BY <3>1, <3>2
  <2>9. Storing' = Storing \cup {q} /\ q \notin Storing /\ t \in TokenDocs
    BY <1>1, <1>2, <1>3, <2>1, <2>4 DEF Storing, OthersStay, TokenDocs
  <2>10. Stored(q)' = t /\ \A p \in Storing : Stored(p)' = Stored(p)
    BY <2>1, <2>4, <2>9 DEF Stored, OthersStay, Storing
  <2>11. Underway' = Underway \cup {t}
    BY <2>9, <2>10 DEF Underway
  <2>12. Taken' = Taken \cup {t}
    BY <1>1, <2>11 DEF Taken, spent
  <2>13. Taken \subseteq TokenDocs
    BY <1>1, TakenTyped DEF CInv
  <2>14. \A d \in Taken : d.client = c => d.token \in 1..n
    BY <1>3 DEF CInv, Given
  <2>15. t.client = c /\ t.token = n + 1 /\ n + 1 \notin 1..n
    BY <1>3, <2>1
  <2> HIDE DEF t
  <2>16. t \notin Taken
    BY <2>14, <2>15
  <2>17. Given'
    <3>1. \A d \in Taken' : d.token \in DOMAIN tokenMetadata'[d.client]
      <4>1. ASSUME NEW d \in Taken PROVE d.token \in DOMAIN tokenMetadata'[d.client]
        <5>1. d.client \in Clients /\ d.token \in DOMAIN tokenMetadata[d.client]
          BY <2>13 DEF CInv, Given, TokenDocs
        <5>2. CASE d.client = c
          BY <1>3, <2>3, <2>14, <5>2
        <5>3. CASE d.client # c
          BY <2>3, <5>1, <5>3
        <5> QED BY <5>2, <5>3
      <4>2. t.token \in DOMAIN tokenMetadata'[t.client]
        BY <1>3, <2>3, <2>15
      <4> QED BY <2>12, <4>1, <4>2
    <3>2. ASSUME NEW d \in Clients, NEW i \in DOMAIN tokenMetadata'[d]
          PROVE  \E e \in Taken' : e.client = d /\ e.token = i
      <4>1. CASE d = c /\ i = n + 1
        BY <2>12, <2>15, <4>1
      <4>2. CASE d # c \/ i # n + 1
        <5>1. i \in DOMAIN tokenMetadata[d]
          BY <1>3, <2>3, <3>2, <4>2
        <5> QED BY <2>12, <5>1 DEF CInv, Given
      <4> QED BY <4>1, <4>2
    <3>3. \A d, e \in Taken' : d.client = e.client /\ d.token = e.token => d = e
      BY <2>12, <2>14, <2>15 DEF CInv, Given
    <3>4. \A p, r \in Storing' : Stored(p)' = Stored(r)' => p = r
      <4>1. \A p \in Storing : Stored(p)' \in Taken
        BY <2>10 DEF Taken, Underway
      <4> QED BY <2>9, <2>10, <2>16, <4>1 DEF CInv, Given
    <3> QED BY <3>1, <3>2, <3>3, <3>4 DEF Given
  <2>18. Apart' /\ OneEach'
    BY <1>1, <2>11, <2>16 DEF CInv, Apart, OneEach, HasCollectible, Taken, spent
  <2> QED BY <2>5, <2>7, <2>8, <2>17, <2>18 DEF CInv
<1> QED BY <1>4, <1>5

(* A request gives its token to the collectible, or leaves it behind: of   *)
(* the three that may have it one gets it.                                 *)
LEMMA LeavesWithToken ==
    ASSUME TInv, CInv, AddressesStay, NEW q \in Storing, Replied(q),
           UNCHANGED <<contractMetadata, tokenMetadata>>,
           \/ /\ ~HasCollectible(creq[q].client, creq[q].external)
              /\ collectibles' = collectibles \cup {Stored(q)} /\ UNCHANGED spent
           \/ /\ HasCollectible(creq[q].client, creq[q].external)
              /\ outrun' = outrun \cup {Stored(q)} /\ UNCHANGED <<collectibles, cutShort>>
           \/ cutShort' = cutShort \cup {Stored(q)} /\ UNCHANGED <<collectibles, outrun>>
    PROVE  CInv'
<1> DEFINE t == Stored(q)
<1>1. q \in ClientRequests /\ CTyped /\ Has(creq[q]) /\ t \in TokenDocs
  BY StoredTyped DEF CInv, Storing
<1>2. creq'[q] = NoAsk /\ OthersStay(q) /\ creq' \in [ClientRequests -> AskDocs]
  BY <1>1, RepliedOne
<1>3. CTyped'
  BY <1>1, <1>2 DEF CTyped, spent
<1>4. Lasting
  BY <1>1, LensAreNat DEF Lasting
<1>5. ASSUME NEW p \in ClientRequests PROVE Has(creq[p])'
  <2>1. CASE p = q
    BY <1>2, <2>1, NoAskTyped DEF Has
  <2>2. CASE p # q
    BY <1>1, <1>2, <1>3, <1>4, <2>2, HasStays DEF CInv, OthersStay
  <2> QED BY <2>1, <2>2
<1>6. ASSUME NEW c \in Clients PROVE Numbered(c)'
  BY <1>4, NumberedStays DEF CInv
<1>7. Storing' = Storing \ {q}
  BY <1>1, <1>2, NoAskTyped DEF Storing, OthersStay
<1>8. \A p \in Storing \ {q} : Stored(p)' = Stored(p)
  BY <1>2 DEF Stored, OthersStay, Storing
<1>9. t \in Underway /\ Underway' = Underway \ {t}
  <2>1. \A p, r \in Storing : Stored(p) = Stored(r) => p = r
    BY DEF CInv, Given
  <2> QED BY <1>7, <1>8, <2>1 DEF Underway
<1>10. t.client = creq[q].client /\ t.external = creq[q].external
  BY DEF Stored
<1>11. Taken' = Taken
  BY <1>9 DEF Taken, spent
<1>12. Given'
  BY <1>7, <1>8, <1>11 DEF CInv, Given
<1> HIDE DEF t
<1>13. Apart'
  BY <1>9 DEF CInv, Apart, spent, t
<1>14. OneEach'
  <2>1. collectibles \subseteq collectibles'
    OBVIOUS
  <2>2. ASSUME NEW d \in outrun' PROVE HasCollectible(d.client, d.external)'
    <3>1. CASE d \in outrun
      BY <2>1, <3>1 DEF CInv, OneEach, HasCollectible
    <3>2. CASE d \notin outrun
      <4>1. d = t /\ HasCollectible(creq[q].client, creq[q].external)
        BY <2>2, <3>2 DEF spent, t
      <4> QED BY <1>10, <2>1, <4>1 DEF HasCollectible
    <3> QED BY <3>1, <3>2
  <2>3. ASSUME NEW d \in collectibles', NEW e \in collectibles',
               d.client = e.client, d.external = e.external
        PROVE  d = e
    <3>1. CASE collectibles' = collectibles
      BY <2>3, <3>1 DEF CInv, OneEach
    <3>2. CASE collectibles' # collectibles
      <4>1. /\ collectibles' = collectibles \cup {t}
            /\ ~HasCollectible(t.client, t.external)
        BY <1>10, <3>2 DEF t
      <4>2. \A g \in collectibles : g.client # t.client \/ g.external # t.external
        BY <4>1 DEF HasCollectible
      <4> QED BY <2>3, <4>1, <4>2 DEF CInv, OneEach
    <3> QED BY <3>1, <3>2
  <2> QED BY <2>2, <2>3 DEF OneEach
<1> QED BY <1>3, <1>5, <1>6, <1>12, <1>13, <1>14 DEF CInv

LEMMA CInvNext ==
    ASSUME TInv, TInv', CInv, AddressesStay, [CollectiblesNext]_<<vars, cvars>>
    PROVE  CInv'
<1>0. CTyped
  BY DEF CInv
<1>1. CASE (Next /\ UNCHANGED cvars) \/ UNCHANGED <<vars, cvars>>
  <2>1. UNCHANGED <<tokenMetadata, collectibles, spent, creq, contractMetadata>>
    BY <1>1 DEF cvars, catalogue
  <2> QED BY <1>0, <2>1, NoRequestSteps DEF CTyped
<1>2. ASSUME NEW c \in Clients, NEW u \in DOMAIN users, StoreContractMetadata(c, u)
      PROVE  CInv'
  <2>1. /\ contractMetadata[c] = 0 /\ contractMetadata' = [contractMetadata EXCEPT ![c] = u]
        /\ UNCHANGED <<tokenMetadata, collectibles, spent, creq>>
    BY <1>2 DEF StoreContractMetadata
  <2>2. u \in Nat
    BY Unfold
  <2>3. /\ contractMetadata' \in [Clients -> Nat]
        /\ \A d \in Clients : contractMetadata[d] # 0 => contractMetadata'[d] = contractMetadata[d]
    BY <1>0, <2>1, <2>2 DEF CTyped
  <2> QED BY <2>1, <2>3, NoRequestSteps
<1>3. ASSUME NEW q \in ClientRequests, NEW c \in Clients, NEW x \in ExternalIds,
             ExistsCollectible(q, c, x)
      PROVE  CInv'
  BY <1>3, ExistsKeeps
<1>4. ASSUME NEW q \in ClientRequests, StoreCollectible(q) PROVE CInv'
  <2>1. q \in Storing /\ Replied(q) /\ UNCHANGED <<contractMetadata, tokenMetadata>>
    BY <1>4 DEF StoreCollectible, Storing
  <2>2. \/ /\ ~HasCollectible(creq[q].client, creq[q].external)
           /\ collectibles' = collectibles \cup {Stored(q)} /\ UNCHANGED spent
        \/ /\ HasCollectible(creq[q].client, creq[q].external)
           /\ outrun' = outrun \cup {Stored(q)} /\ UNCHANGED <<collectibles, cutShort>>
    BY <1>4 DEF StoreCollectible, spent
  <2> QED BY <2>1, <2>2, LeavesWithToken
<1>5. ASSUME NEW q \in ClientRequests, ClientStep(q), ~StoreCollectible(q) PROVE CInv'
  BY <1>5, EarlyKeeps, TokenKeeps
<1>6. ASSUME NEW q \in ClientRequests, ClientRequestFails(q) PROVE CInv'
  <2>1. Replied(q) /\ UNCHANGED <<contractMetadata, tokenMetadata, collectibles, outrun>>
    BY <1>6 DEF ClientRequestFails, catalogue
  <2>2. CASE creq[q].at = "store"
    <3>1. q \in Storing /\ cutShort' = cutShort \cup {Stored(q)}
      BY <1>6, <2>2 DEF ClientRequestFails, Storing
    <3> QED BY <2>1, <3>1, LeavesWithToken
  <2>3. CASE creq[q].at # "store"
    <3>1. UNCHANGED spent
      BY <1>6, <2>3 DEF ClientRequestFails, spent
    <3> QED BY <2>1, <2>3, <3>1, ReplyEarly
  <2> QED BY <2>2, <2>3
<1> QED BY <1>1, <1>2, <1>3, <1>4, <1>5, <1>6 DEF CollectiblesNext

LEMMA CInvInit == Init /\ CollectiblesInit => CInv
<1> SUFFICES ASSUME Init, CollectiblesInit PROVE CInv
  OBVIOUS
<1>1. CTyped /\ \A q \in ClientRequests : creq[q] = NoAsk
  BY NoAskTyped DEF CollectiblesInit, CTyped
<1>2. \A q \in ClientRequests : Has(creq[q])
  BY <1>1, NoAskTyped
<1>3. Storing = {} /\ Underway = {} /\ Taken = {}
  BY <1>1, NoAskTyped DEF CollectiblesInit, Storing, Underway, Taken
<1>4. \A c \in Clients : tokenMetadata[c] = <<>> /\ DOMAIN tokenMetadata[c] = {}
  BY DEF CollectiblesInit
<1> QED BY <1>1, <1>2, <1>3, <1>4
        DEF CInv, Numbered, Given, Apart, OneEach, CollectiblesInit

(* A client has a collectible once, under the metadata of the              *)
(* marketplace's user; his tokens count up from 1, and each is of one      *)
(* collectible, of one request about to store it, or left over, however    *)
(* requests for it race, fail and are repeated (storeCollectible).         *)
THEOREM CollectiblesStaySound == CollectiblesSpec => []CollectiblesSound
<1>1. Init /\ CollectiblesInit => CInv
  BY CInvInit
<1>2. MembersInv /\ MembersInv' /\ CInv /\ [CollectiblesNext]_<<vars, cvars>> => CInv'
  <2> SUFFICES ASSUME MembersInv, MembersInv', CInv, [CollectiblesNext]_<<vars, cvars>>
               PROVE  CInv'
    OBVIOUS
  <2>1. TInv /\ TInv' /\ ([Next]_vars \/ BoundsOnly)
    BY ClientsMakeUsers DEF MembersInv
  <2> QED BY <2>1, AddressesKept, CInvNext
<1>3. CInv => CollectiblesSound
  BY CInvSound
<1> QED BY <1>1, <1>2, <1>3, MembersInvAlways, PTL DEF CollectiblesSpec
=============================================================================
