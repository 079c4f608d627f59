--------------------------- MODULE MCStoreFronts ---------------------------
(* StoreFronts with two fronts of two users: three cards of two            *)
(* collections, one slug they both want, and the blocks worth telling      *)
(* apart.                                                                  *)
EXTENDS StoreFronts

CONSTANTS f1, f2, u1, u2, c1, c2, c3, k1, k2, s1, r1, r2

Symmetric == Permutations({r1, r2})

OwnerOf      == f1 :> u1 @@ f2 :> u2
HolderIs     == [c \in {c1, c2, c3} |-> u1]
CollectionIs == c1 :> k1 @@ c2 :> k1 @@ c3 :> k2

Ask(kind, f, u) == [kind |-> kind, front |-> f, user |-> u, cards |-> {},
                    slug |-> NoSlug, blocks |-> <<>>]
Add(cs)     == [Ask("add", f1, u1) EXCEPT !.cards = cs]
Delete(cs)  == [Ask("delete", f1, u1) EXCEPT !.cards = cs]
Settings(f, u, s) == [Ask("settings", f, u) EXCEPT !.slug = s]
Publish(s)  == [Ask("publish", f1, u1) EXCEPT !.slug = s]
Page(blks)  == [Ask("page", f1, u1) EXCEPT !.blocks = blks]

Block(type, parts, cs, ks) ==
    [type |-> type, parts |-> parts, cards |-> cs, collections |-> ks, placed |-> FALSE]
Header(cs) == Block("header", {"texts", "collectibles"}, cs, None)

AskedBodies ==
    {Add({c1}), Add({c2, c3}), Delete({c1}), Delete({c3}),
     Settings(f1, u1, s1), Settings(f2, u2, s1), Settings(f1, u1, NoSlug),
     Publish(s1), Publish(NoSlug),
     Page(<<Header(None), Block("about", {"texts", "settings", "collectibles"}, {c1}, None)>>),
     Page(<<Header({c1})>>)}

(* The run starts from no front at all, or from one with cards of one      *)
(* collection and a page, as an addition and a page setting leave it.      *)
Furnished == [NewFront EXCEPT !.cards = {c1, c2}, !.collections = {k1},
                              !.pages = <<<<Header(None)>>>>]

MCInit ==
    /\ holders = [c \in Cards |-> {FirstHolder[c]}]
    /\ req = [r \in Requests |-> NoReq]
    /\ transfers = 0 /\ begun = 0 /\ failures = 0
    /\ seen = {}
    /\ dropped = [f \in Fronts |-> {}]
    /\ midway = {}
    /\ front \in {<<>>, f1 :> Furnished @@ f2 :> NewFront}

MCSpec == MCInit /\ [][Next]_vars
=============================================================================
