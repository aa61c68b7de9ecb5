-------------------------- MODULE MC_Application --------------------------
(* A small instance of Application.                                        *)
EXTENDS Application

(* A chain started by gentxs, and one that takes a state over.             *)
Started == [bal |-> [NoCoins EXCEPT !["users"] = 3], books |-> NoBooks, gentx |-> 1]
TakenOver ==
  [bal |-> [NoCoins EXCEPT !["users"] = 1, !["bonded_tokens_pool"] = 2,
                           !["distribution"] = 1, !["gov"] = 1],
   books |-> [NoBooks EXCEPT !.bonded = 2, !.pool = 1, !.deposits = 1], gentx |-> 0]
Docs == {Started, TakenOver}
===========================================================================
