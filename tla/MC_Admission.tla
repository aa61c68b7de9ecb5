--------------------------- MODULE MC_Admission ---------------------------
(* A small instance of Admission.                                          *)
EXTENDS Admission

Tx(signer, seq) ==
  [signer |-> signer, seq |-> seq, valid |-> TRUE, key |-> TRUE, payer |-> signer,
   fee |-> 1, gas |-> 2, work |-> 1, timeout |-> 0, spends |-> 0, packets |-> {}]

(* A signer's first transaction, one that spends what it has left, and a   *)
(* first one signed by somebody else; a relayer whose fee is granted, its  *)
(* next one with the same packet, and a cheap one that times out.          *)
First == Tx("a", 0)
Second == [Tx("a", 1) EXCEPT !.spends = 1, !.key = FALSE]
Forged == [Tx("a", 0) EXCEPT !.valid = FALSE]
Granted == [Tx("b", 0) EXCEPT !.payer = "a", !.packets = {"p"}]
Again == [Tx("b", 1) EXCEPT !.packets = {"p"}]
Cheap == [Tx("b", 0) EXCEPT !.fee = 0, !.timeout = 1, !.work = 2]
MCTxs == {First, Second, Forged, Granted, Again, Cheap}

(* Other proposers repeat transactions and offer ones nobody signed.       *)
MCBlocks == {<<First, First>>, <<Forged, Granted, Again>>}

MCGenesis ==
  [seq |-> [x \in Accounts |-> 0], keyed |-> {}, bal |-> [x \in Accounts |-> 3],
   grant |-> [p \in Accounts \X Accounts |-> IF p = <<"a", "b">> THEN 1 ELSE 0],
   received |-> {}, counter |-> [height |-> 0, n |-> 0], log |-> <<>>]

MCNodes == {"n1", "n2"}
MCMinPrice == [n \in MCNodes |-> IF n = "n1" THEN 1 ELSE 0]
===========================================================================
