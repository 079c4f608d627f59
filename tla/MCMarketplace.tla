--------------------------- MODULE MCMarketplace ---------------------------
(* Small instances of Marketplace: one card, three users, a few orders and *)
(* the blocks the chain may be built of.  The .cfg files choose from them. *)
EXTENDS Marketplace, TLC

CONSTANTS c1, u1, u2, u3, o1, o2, o3, r1, r2

Held(u, n) == [user |-> u, amount |-> n]

(* u1 sells o1 (2 tokens) and o2 (1 token), u2 sells o3 (1 token).         *)
MCOrderData ==
    o1 :> [card |-> c1, user |-> u1, n |-> 2]
      @@ o2 :> [card |-> c1, user |-> u1, n |-> 1]
      @@ o3 :> [card |-> c1, user |-> u2, n |-> 1]

MCGenesis == [c \in Cards |->
    [v |-> 0, total |-> 4, bal |-> <<Held(u1, 3), Held(u2, 1)>>]]

MCAmple == [c \in Cards |->
    [v |-> 0, total |-> 5, bal |-> <<Held(u1, 4), Held(u2, 1)>>]]

MCScarce == [c \in Cards |->
    [v |-> 0, total |-> 3, bal |-> <<Held(u1, 2), Held(u2, 1)>>]]

NothingListed == <<>>
OneListed     == <<o1>>
TwoListed     == <<o1, o2>>
ThreeListed   == <<o1, o2, o3>>

-----------------------------------------------------------------------------
Moves(from, to, n) == [card |-> c1, from |-> from, to |-> to, n |-> n]
Burns(from, n)     == [card |-> c1, from |-> from, n |-> n]

Block(transfer, burn, sale) == [transfer |-> transfer, burn |-> burn, sale |-> sale]

TransferBlocks ==
    {Block(<<Moves(u1, u2, 2)>>, <<>>, {}),
     Block(<<Moves(u1, u3, 3)>>, <<>>, {}),
     Block(<<Moves(u2, u1, 1), Moves(u1, u2, 1)>>, <<>>, {}),
     Block(<<Moves(u3, u2, 2)>>, <<>>, {})}

SelfTransfers == {Block(<<Moves(u2, u2, 1)>>, <<>>, {}), Block(<<Moves(u1, u1, 2)>>, <<>>, {})}

BurnBlocks ==
    {Block(<<>>, <<Burns(u1, 2)>>, {}),
     Block(<<>>, <<Burns(u2, 1), Burns(u1, 1)>>, {}),
     Block(<<>>, <<Burns(u1, 3)>>, {})}

SaleBlocks ==
    {Block(<<>>, <<>>, {[order |-> o, taker |-> u]}) : o \in {o1, o2}, u \in {u2, u3}}
      \cup {Block(<<>>, <<>>, {[order |-> o3, taker |-> u1]})}

TwoSales ==
    {Block(<<>>, <<>>, {[order |-> o1, taker |-> u], [order |-> o2, taker |-> w]}) :
        u \in {u2, u3}, w \in {u2, u3}}

(* Two orders of u1 filled by u2, who both hold tokens before and after.   *)
SalesToHolder ==
    {Block(<<>>, <<>>, {[order |-> o1, taker |-> u2], [order |-> o2, taker |-> u2]})}

PartialBlocks ==
    SaleBlocks \cup {Block(<<Moves(u1, u2, 1)>>, <<>>, {})}

MixedBlocks == TransferBlocks \cup BurnBlocks \cup SaleBlocks

(* Two tasks at once, so that one may fail while the other is still to     *)
(* come, beside a transfer or a burn of the same card.                     *)
ContendedBlocks ==
    LET fills == {[order |-> o1, taker |-> u2], [order |-> o2, taker |-> u3]}
    IN  {Block(<<Moves(u2, u3, 1)>>, <<>>, fills),
         Block(<<Moves(u2, u3, 1)>>, <<Burns(u1, 3), Burns(u3, 1)>>, {})}

-----------------------------------------------------------------------------
ChainsOf(blocks) == [1..MaxBlocks -> blocks]

MixedChains        == ChainsOf(MixedBlocks)
ContendedChains    == ChainsOf(ContendedBlocks)
SaleChains         == ChainsOf(SaleBlocks)
TwoSalesChains     == ChainsOf(TwoSales)
HolderSalesChains  == ChainsOf(SalesToHolder)
PartialChains      == ChainsOf(PartialBlocks)
SelfTransferChains == ChainsOf(SelfTransfers)
NoChains           == {<<>>}

(* Each listener on its own chain, so that the order in which different    *)
(* listeners come to a block does not matter.                              *)
SortedChains == ChainsOf(TransferBlocks) \cup ChainsOf(BurnBlocks) \cup SaleChains
=============================================================================
