---------------------------- MODULE MCCatalogue ----------------------------
(* Catalogue with one slug, two contracts and a few blocks; u2 appears in  *)
(* links only and has no metadata.                                         *)
EXTENDS Catalogue

CONSTANTS u1, u2, s1, a1, a2

Link(kind)    == [kind |-> kind]
Ours(u, s)    == [kind |-> "ours", user |-> u, slug |-> s]
Deploys(a, uri) == [address |-> a, creator |-> u1, uri |-> uri]
Mints(a, i, uri) == [address |-> a, identifier |-> i, uri |-> uri]
Block(contracts, tokens) == [contracts |-> contracts, tokens |-> tokens]

(* Contracts only: the same metadata named by two contracts of a block or  *)
(* of two blocks, with its owner or another user, and links of other kinds.*)
ContractBlocks ==
    {Block({Deploys(a1, Ours(u1, s1)), Deploys(a2, Ours(u1, s1))}, {}),
     Block({Deploys(a2, Ours(u1, s1))}, {}),
     Block({Deploys(a1, Ours(u2, s1)), Deploys(a2, Link("none"))}, {}),
     Block({Deploys(a1, Link("foreign"))}, {})}

(* One contract of the marketplace and one without metadata, and tokens.   *)
TokenBlocks ==
    {Block({Deploys(a1, Ours(u1, s1)), Deploys(a2, Link("none"))}, {}),
     Block({}, {Mints(a1, 1, "ours"), Mints(a1, 2, "ours"), Mints(a2, 1, "ours")}),
     Block({}, {Mints(a1, 1, "ours"), Mints(a1, 2, "foreign")}),
     Block({}, {Mints(a1, 2, "ours"), Mints(a2, 2, "malformed")})}
=============================================================================
