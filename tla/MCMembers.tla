------------------------------ MODULE MCMembers ------------------------------
(* Members with two addresses, two cards' worth of requests and one slug.  *)
(* The run starts from no user at all, or from two users with a session    *)
(* each, as two logins leave them.  One client hands in two collectibles,  *)
(* each as often as the bounds allow; the second address is that of the    *)
(* marketplace's key, which may sign in and hold tokens as any other.      *)
EXTENDS Collectibles, TLC

CONSTANTS a1, a2, s1, c1, r1, r2, q1, q2

Symmetric == Permutations({r1, r2}) \cup Permutations({q1, q2})

Nothing == [kind |-> "none", address |-> NoAddress, signature |-> 0, session |-> 0,
            slug |-> NoSlug, card |-> NoCard, whom |-> 0]

SignsIn(a, id)  == [Nothing EXCEPT !.kind = "login", !.address = a, !.signature = id]
Creates(a)      == [Nothing EXCEPT !.kind = "creator", !.address = a]
SignsOut(s)     == [Nothing EXCEPT !.kind = "logout", !.session = s]
Profile(s, slug) == [Nothing EXCEPT !.kind = "profile", !.session = s, !.slug = slug]
OnCard(kind, s) == [Nothing EXCEPT !.kind = kind, !.session = s, !.card = c1]
OnUser(kind, s, u) == [Nothing EXCEPT !.kind = kind, !.session = s, !.whom = u]

AskedBodies ==
    {SignsIn(a1, 1), SignsIn(a2, 1), Creates(a1), SignsOut(1),
     Profile(1, s1), Profile(2, s1), Profile(1, NoSlug), Profile(2, SameSlug),
     OnCard("like", 1), OnCard("dislike", 1), OnCard("view", 1), OnCard("view", 2),
     OnUser("follow", 1, 2), OnUser("unfollow", 1, 2)}

Session(u, a) == [userId |-> u, open |-> TRUE, signer |-> a]

MCInit ==
    /\ \/ users = <<>> /\ sessions = <<>>
       \/ /\ users = <<NewUser(a1), NewUser(a2)>>
          /\ sessions = <<Session(1, a1), Session(2, a2)>>
    /\ signatures = <<>>
    /\ likes = [c \in Cards |-> [u \in UserIds |-> 0]]
    /\ dislikes = [c \in Cards |-> [u \in UserIds |-> 0]]
    /\ viewers = [c \in Cards |-> {}]
    /\ viewersCount = [c \in Cards |-> 0]
    /\ follows = [p \in Pairs |-> 0]
    /\ now = 0
    /\ req = [r \in Requests |-> NoReq]
    /\ begun = 0 /\ failures = 0
    /\ signedOut = {} /\ refused = {} /\ reactedTwice = {}
    /\ uncounted = [c \in Cards |-> {}]
    /\ CollectiblesInit

(* Clients are asked for apart from what members do with their sessions:   *)
(* the two share the users only, and a listener makes those as a login     *)
(* does.                                                                   *)
ClientAsked == creq # [q \in ClientRequests |-> NoAsk] \/ \E c \in Clients : contractMetadata[c] # 0

ClientsApart ==
    ClientAsked => /\ sessions = <<>> /\ signatures = <<>> /\ now = 0
                   /\ \A r \in Requests : req[r].kind \in {"none", "creator"}

MCSpec == MCInit /\ [][CollectiblesNext]_<<vars, cvars>>
=============================================================================
