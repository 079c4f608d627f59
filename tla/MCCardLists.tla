------------------------------ MODULE MCCardLists ------------------------------
EXTENDS CardLists

(* Of token 1 two with the first holder and one with the second, so that   *)
(* its holders take two pages; one of token 3 with the second.             *)
HeldBefore == [t \in Tokens |-> [h \in Holders |-> IF h = 2 THEN 1 ELSE IF t = 1 THEN 2 ELSE 0]]

(* A new database, and one with cards of which token 3 is not listed.      *)
NewOrUsed == {{}, {1, 3}}

OnSaleBefore == [t \in Tokens |-> IF t = 1 THEN {1, 2} ELSE {2}]

PriceOfHolder == [h \in Holders |-> h]

Budget(y, f, m, s, r) == [syncs |-> y, failures |-> f, moves |-> m, sales |-> s, reads |-> r]

(* An import again after one that failed; an import while two tokens move  *)
(* and a user sells; a client who reads during an import and a move, or a  *)
(* sale; one who reads during two moves and a sale.                        *)
Scenarios == {Budget(2, 1, 1, 1, 0), Budget(1, 0, 2, 1, 0), Budget(1, 0, 1, 0, 1),
              Budget(1, 0, 0, 1, 1), Budget(0, 0, 2, 1, 1)}
===============================================================================
