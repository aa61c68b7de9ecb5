-------------------------- MODULE AbstractLedger --------------------------
(***************************************************************************)
(* What the admission of transactions promises: every node keeps a ledger, *)
(* and a decided block turns it into the next one, in one step and by      *)
(* rules in which only the ledger, the block and its height occur.         *)
(*                                                                         *)
(* There are no decorators, no check states and mempools, no prices and no *)
(* restarts here: Admission has them and implements this.                  *)
(***************************************************************************)
EXTENDS Integers, Sequences, FiniteSets

CONSTANTS
  Nodes, Txs,   \* those of Admission
  Opening       \* the ledger at height 0

VARIABLES
  blocks,   \* the decided blocks
  ledger    \* ledger[n]: what node n has executed

vars == <<blocks, ledger>>

Init == blocks = <<>> /\ ledger = [n \in Nodes |-> Opening]

(* A transaction passes if its signer has signed it as his next one, in a  *)
(* key the chain knows or is shown, before it times out, and its payer, if *)
(* it is somebody else with an allowance, has the fee.                     *)
Signed(l, t) ==
  t.valid /\ t.seq = l.seq[t.signer] /\ (t.key \/ t.signer \in l.keyed)
Funded(l, t) ==
  /\ l.bal[t.payer] >= t.fee
  /\ t.payer # t.signer => l.grant[<<t.payer, t.signer>>] >= t.fee
Passes(l, t) ==
  /\ Signed(l, t) /\ Funded(l, t)
  /\ t.timeout = 0 \/ t.timeout > l.height
  /\ t.gas > 0

(* It pays and uses up its number, whatever its messages come to.          *)
Less(f, x, n) == [f EXCEPT ![x] = @ - n]
Charged(l, t) ==
  [l EXCEPT !.seq[t.signer] = @ + 1,
            !.keyed = @ \cup {t.signer},
            !.bal = Less(@, t.payer, t.fee),
            !.grant = IF t.payer = t.signer THEN @
                      ELSE Less(@, <<t.payer, t.signer>>, t.fee)]

(* The messages are executed as a whole or not at all.                     *)
Executes(l, t) == t.gas > t.work /\ l.bal[t.signer] >= t.spends
Executed(l, t) ==
  [l EXCEPT !.bal = Less(@, t.signer, t.spends), !.received = @ \cup t.packets]

(* The receipt has the transaction's place among those that passed in its  *)
(* block.                                                                  *)
Receipt(l, t, done) ==
  LET h == l.height + 1
  IN [tx |-> t, height |-> h, done |-> done,
      index |-> Cardinality({i \in DOMAIN l.log : l.log[i].height = h})]

Transacted(l, t) ==
  LET paid == Charged(l, t)
      done == Executes(paid, t)
  IN [(IF done THEN Executed(paid, t) ELSE paid)
        EXCEPT !.log = Append(@, Receipt(l, t, done))]
Transact(l, t) == IF Passes(l, t) THEN Transacted(l, t) ELSE l

(* The ledgers on the way through a block.                                 *)
Through(l, b) ==
  LET through[k \in 0 .. Len(b)] ==
        IF k = 0 THEN l ELSE Transact(through[k - 1], b[k])
  IN through
After(l, b) == [Through(l, b)[Len(b)] EXCEPT !.height = @ + 1]

Execute(n) ==
  LET h == ledger[n].height + 1
  IN /\ h <= Len(blocks)
     /\ ledger' = [ledger EXCEPT ![n] = After(@, blocks[h])]
     /\ UNCHANGED blocks

(* Any block may be decided.                                               *)
Decide ==
  /\ blocks' \in Seq(Seq(Txs)) /\ Len(blocks') = Len(blocks) + 1
  /\ SubSeq(blocks', 1, Len(blocks)) = blocks
  /\ UNCHANGED ledger

Next == Decide \/ \E n \in Nodes : Execute(n)

Spec == Init /\ [][Next]_vars
==========================================================================
