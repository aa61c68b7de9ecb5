--------------------------- MODULE AnteHandler ---------------------------
(***************************************************************************)
(* The ante handler (app/ante.go), the decorators in their order, and what *)
(* BaseApp does with it: CheckTx, its recheck after a block, DeliverTx and *)
(* the simulation of a transaction.                                        *)
(***************************************************************************)
EXTENDS Decorators

anteDecorators_LimitFirst ==
  <<"LimitSimulationGas", "SetUpContext", "CountTX", "TxTimeoutHeight", "ConsumeGas",
    "DeductFee", "SetPubKey", "SigVerification", "IncrementSequence", "RedundantRelay">>
anteDecorators_KeyLate ==
  <<"SetUpContext", "LimitSimulationGas", "CountTX", "TxTimeoutHeight", "ConsumeGas",
    "DeductFee", "SigVerification", "SetPubKey", "IncrementSequence", "RedundantRelay">>
anteDecorators ==
  <<"SetUpContext", "LimitSimulationGas", "CountTX", "TxTimeoutHeight", "ConsumeGas",
    "DeductFee", "SetPubKey", "SigVerification", "IncrementSequence", "RedundantRelay">>

Ante(c) ==
  LET Then(d, i) == Decorate(d, anteDecorators[i])
  IN Then(Then(Then(Then(Then(Then(Then(Then(Then(Then(c, 1), 2), 3), 4), 5), 6), 7), 8), 9), 10)

---------------------------------------------------------------------------
(* BaseApp                                                                 *)

(* What the ante handler wrote is kept if it let the transaction pass.     *)
CheckTx(st, tx, mode, height, min) == Ante(Context(st, tx, mode, height, min))

(* The messages: all of what they do or nothing.                           *)
Runs(c) == Affords(c, 1 + c.tx.work) /\ c.st.bal[c.tx.signer] >= c.tx.spends

RunMsgs(c) ==
  LET done == Runs(c)
      entry == [tx |-> c.tx, height |-> c.height, index |-> c.index, done |-> done]
  IN [c.st EXCEPT !.bal = IF done THEN Less(@, c.tx.signer, c.tx.spends) ELSE @,
                  !.received = IF done THEN @ \cup c.tx.packets ELSE @,
                  !.log = Append(@, entry)]

(* A refused transaction leaves nothing behind, a failed message its fee   *)
(* and its sequence number.  No decorator runs after the messages.         *)
DeliverTx_KeepsFee(st, tx, height, min) ==
  LET c == Ante(Context(st, tx, "deliver", height, min))
  IN IF c.ok THEN RunMsgs(c) ELSE c.st
DeliverTx(st, tx, height, min) ==
  LET c == Ante(Context(st, tx, "deliver", height, min))
  IN IF c.ok THEN RunMsgs(c) ELSE st
==========================================================================
