---------------------------- MODULE Decorators ----------------------------
(***************************************************************************)
(* The decorators that the ante handler chains (app/ante.go).  Each        *)
(* refuses the transaction or hands a context on to the next.              *)
(*                                                                         *)
(* They are the SDK's, ibc-go's and wasmd's and external; what app.go      *)
(* (setAnteHandler) gives them decides what they do: fee grants are on, no *)
(* fee checker is set, so the minimum price is the node's own and asked    *)
(* for in CheckTx only, and the gas of a simulation is the node's own      *)
(* limit.                                                                  *)
(*                                                                         *)
(* ExtensionOptions, ValidateBasic, ValidateMemo and ValidateSigCount look *)
(* at nothing but the transaction; Txs are transactions they let through.  *)
(* A transaction has one signer, its gas is counted in two steps: one for  *)
(* the ante handler, "work" for its messages.  Fees and coins are unit     *)
(* amounts.                                                                *)
(*                                                                         *)
(* Definitions named X_Something are X with a plausible mistake, as in     *)
(* UpgradeHandler.                                                         *)
(***************************************************************************)
EXTENDS Integers, Sequences, FiniteSets, SequencesExt

CONSTANTS
  Accounts,
  Packets,             \* packets of IBC channels that relayers may bring
  Txs,                 \* the transactions anybody may send
  SimulationGasLimit   \* wasm's setting, or the gas limit of a block

Transaction ==
  [signer : Accounts, seq : Nat,    \* what its signature is for
   valid : BOOLEAN, key : BOOLEAN,  \* the signature is right, the key comes with it
   payer : Accounts, fee : Nat,     \* another payer than the signer: a fee grant
   gas : Nat, work : Nat, timeout : Nat,
   spends : Nat, packets : SUBSET Packets]

Modes == {"check", "recheck", "deliver", "simulate"}

(* What the handlers read and write of the state.  "log" is a history      *)
(* variable: the transactions the ante handler let pass in blocks.         *)
States ==
  [seq : [Accounts -> Nat], keyed : SUBSET Accounts, bal : [Accounts -> Nat],
   grant : [Accounts \X Accounts -> Nat], received : SUBSET Packets,
   counter : [height : Nat, n : Nat],
   log : Seq([tx : Txs, height : Nat, index : Nat, done : BOOLEAN])]

ASSUME TxAssumption == Txs \subseteq Transaction
ASSUME GasAssumption == SimulationGasLimit \in Nat

NoLimit == -1

(* What a decorator is given: the state it may write to, the height and    *)
(* the node's minimum fee.                                                 *)
Context(st, tx, mode, height, min) ==
  [st |-> st, tx |-> tx, mode |-> mode, height |-> height, min |-> min,
   limit |-> NoLimit, index |-> 0, ok |-> TRUE]

Affords(c, work) == c.limit = NoLimit \/ work <= c.limit

MinFee_InBlocksToo(c) == IF c.mode = "simulate" THEN 0 ELSE c.min
MinFee(c) == IF c.mode \in {"check", "recheck"} THEN c.min ELSE 0

(* The granter's allowance is used up first, the balance after.            *)
CanPay_AllowanceOnly(c) == c.tx.payer = c.tx.signer \/ c.st.grant[<<c.tx.payer, c.tx.signer>>] >= c.tx.fee
CanPay(c) ==
  /\ c.st.bal[c.tx.payer] >= c.tx.fee
  /\ c.tx.payer = c.tx.signer \/ c.st.grant[<<c.tx.payer, c.tx.signer>>] >= c.tx.fee

(* The signature is for this sequence number; a recheck trusts the check   *)
(* with the signature itself, not with the number.                         *)
Signed_AnySequence(c) ==
  /\ c.tx.signer \in c.st.keyed \/ c.mode = "simulate"
  /\ c.mode \in {"check", "recheck"} => c.tx.seq = c.st.seq[c.tx.signer]
  /\ c.mode \in {"recheck", "simulate"} \/ c.tx.valid
Signed(c) ==
  /\ c.tx.signer \in c.st.keyed \/ c.mode = "simulate"
  /\ c.tx.seq = c.st.seq[c.tx.signer]
  /\ c.mode \in {"recheck", "simulate"} \/ c.tx.valid

(* A relayer's transaction, of packets only: its packets are received on   *)
(* the check state already, and it is refused when all of them were there. *)
(* Nothing of this happens in a block: who is second in it pays.           *)
Relay_CheckOnly(c) == c.mode = "check" /\ c.tx.packets # {} /\ c.tx.spends = 0
Relay_InBlocksToo(c) == c.mode # "simulate" /\ c.tx.packets # {} /\ c.tx.spends = 0
Relay(c) == c.mode \in {"check", "recheck"} /\ c.tx.packets # {} /\ c.tx.spends = 0

Refuses(d, c) ==
  \/ d = "TxTimeoutHeight" /\ c.tx.timeout > 0 /\ c.height > c.tx.timeout
  \/ d = "ConsumeGas" /\ ~Affords(c, 1)
  \/ d = "DeductFee" /\ (c.tx.fee < MinFee(c) \/ ~CanPay(c))
  \/ d = "SigVerification" /\ ~Signed(c)
  \/ d = "RedundantRelay" /\ Relay(c) /\ c.tx.packets \subseteq c.st.received

(* The transactions of this height so far; the store keeps the height.     *)
Counted_NotPerBlock(c) == c.st.counter.n
Counted(c) == IF c.st.counter.height = c.height THEN c.st.counter.n ELSE 0

Less(f, x, n) == [f EXCEPT ![x] = @ - n]

PayFee(c) ==
  [c.st EXCEPT !.bal = Less(@, c.tx.payer, c.tx.fee),
               !.grant = IF c.tx.payer = c.tx.signer THEN @
                         ELSE Less(@, <<c.tx.payer, c.tx.signer>>, c.tx.fee)]

(* The context and the state the next decorator gets.                      *)
Effect(d, c) ==
  CASE d = "SetUpContext" ->
         [c EXCEPT !.limit = IF c.mode = "simulate" THEN NoLimit ELSE c.tx.gas]
    [] d = "LimitSimulationGas" ->
         [c EXCEPT !.limit = IF c.mode = "simulate" THEN SimulationGasLimit ELSE @]
    [] d = "CountTX" /\ c.mode # "simulate" ->
         [c EXCEPT !.index = Counted(c),
                   !.st.counter = [height |-> c.height, n |-> Counted(c) + 1]]
    [] d = "DeductFee" -> [c EXCEPT !.st = PayFee(c)]
    [] d = "SetPubKey" ->
         [c EXCEPT !.st.keyed = IF c.tx.key THEN @ \cup {c.tx.signer} ELSE @]
    [] d = "IncrementSequence" -> [c EXCEPT !.st.seq[c.tx.signer] = @ + 1]
    [] d = "RedundantRelay" /\ Relay(c) ->
         [c EXCEPT !.st.received = @ \cup c.tx.packets]
    [] OTHER -> c

(* The first decorator that refuses ends the chain.                        *)
Decorate(c, d) ==
  IF c.ok /\ ~Refuses(d, c) THEN Effect(d, c) ELSE [c EXCEPT !.ok = FALSE]
===========================================================================
