---------------------------- MODULE Admission ----------------------------
(***************************************************************************)
(* Transactions on their way into blocks: every node admits transactions   *)
(* to its mempool by running the ante handler on its check state, rechecks *)
(* what is left of the mempool after a block, and runs the ante handler    *)
(* again on the state of the chain when a block has the transaction.       *)
(*                                                                         *)
(* CometBFT decides the blocks: what a node's mempool offers, or whatever  *)
(* another proposer puts into them, since the application does not look at *)
(* proposals.  A node executes the decided blocks one transaction at a     *)
(* time; a crash loses the block it is in, the mempool and the check state.*)
(***************************************************************************)
EXTENDS AnteHandler

CONSTANTS
  Nodes,
  MinPrice,     \* MinPrice[n]: minimum-gas-prices in n's app.toml
  Genesis,      \* the state at height 0
  OtherBlocks,  \* what other proposers may offer
  MaxBlockTxs,  \* bound: transactions a node offers for a block
  MaxPool,      \* bound: transactions in a mempool (config.toml: mempool.size)
  MaxOthers,    \* bound: blocks of other proposers
  MaxRestarts   \* bound: restarts of all nodes together

ASSUME NodeAssumption == MinPrice \in [Nodes -> Nat] /\ Genesis \in States
ASSUME GenesisLogAssumption == Genesis.log = <<>> /\ Genesis.counter.height = 0
ASSUME BlocksAssumption == OtherBlocks \subseteq Seq(Txs)
ASSUME AdmissionBounds ==
  {MaxBlockTxs, MaxPool, MaxOthers, MaxRestarts} \subseteq Nat

VARIABLES
  blocks,    \* the decided blocks
  height,    \* height[n]: blocks n has committed
  state,     \* state[n]: what n has committed
  deliver,   \* deliver[n]: the state inside the next block; state[n] outside
  next,      \* next[n]: the next transaction of this block
  check,     \* check[n]: the check state
  pool,      \* pool[n]: the mempool
  others, restarts   \* counters for the bounds

vars == <<blocks, height, state, deliver, next, check, pool, others, restarts>>

Init ==
  /\ blocks = <<>>
  /\ height = [n \in Nodes |-> 0]
  /\ state = [n \in Nodes |-> Genesis]
  /\ deliver = [n \in Nodes |-> Genesis]
  /\ next = [n \in Nodes |-> 1]
  /\ check = [n \in Nodes |-> Genesis]
  /\ pool = [n \in Nodes |-> <<>>]
  /\ others = 0 /\ restarts = 0

(* Somebody sends a transaction to a node, or a peer does.  The context of *)
(* a check has the height of the last block.                               *)
Submit(n, t) ==
  LET c == CheckTx(check[n], t, "check", height[n], MinPrice[n])
  IN /\ Len(pool[n]) < MaxPool /\ t \notin ToSet(pool[n])
     /\ c.ok
     /\ pool' = [pool EXCEPT ![n] = Append(@, t)]
     /\ check' = [check EXCEPT ![n] = c.st]
     /\ UNCHANGED <<blocks, height, state, deliver, next, others, restarts>>

(* A node that has the last block offers the head of its mempool.          *)
Blocks == UNION {[1 .. k -> Txs] : k \in 1 .. MaxBlockTxs}
Propose(n) ==
  /\ height[n] = Len(blocks)
  /\ \E b \in Blocks : IsPrefix(b, pool[n]) /\ blocks' = Append(blocks, b)
  /\ UNCHANGED <<height, state, deliver, next, check, pool, others, restarts>>

(* A proposer that offers anything.                                        *)
ProposeOther(n) ==
  /\ height[n] = Len(blocks) /\ others < MaxOthers
  /\ \E b \in OtherBlocks : blocks' = Append(blocks, b)
  /\ others' = others + 1
  /\ UNCHANGED <<height, state, deliver, next, check, pool, restarts>>

NextBlock(n) == blocks[height[n] + 1]

Deliver(n) ==
  /\ height[n] < Len(blocks) /\ next[n] <= Len(NextBlock(n))
  /\ deliver' = [deliver EXCEPT ![n] =
       DeliverTx(@, NextBlock(n)[next[n]], height[n] + 1, MinPrice[n])]
  /\ next' = [next EXCEPT ![n] = @ + 1]
  /\ UNCHANGED <<blocks, height, state, check, pool, others, restarts>>

(* The check state is the committed state again.  What was in the block    *)
(* leaves the mempool, the rest is checked again in its order; what no     *)
(* longer passes leaves too.                                               *)
Rechecked_Kept(n, st, txs) ==
  [st |-> st, txs |-> SelectSeq(txs, LAMBDA t : t \notin ToSet(NextBlock(n)))]
Rechecked(n, st, txs) ==
  LET Again(r, t) ==
        LET c == CheckTx(r.st, t, "recheck", height[n] + 1, MinPrice[n])
        IN IF t \notin ToSet(NextBlock(n)) /\ c.ok
           THEN [st |-> c.st, txs |-> Append(r.txs, t)] ELSE r
  IN FoldLeft(Again, [st |-> st, txs |-> <<>>], txs)

Commit(n) ==
  LET r == Rechecked(n, deliver[n], pool[n])
  IN /\ height[n] < Len(blocks) /\ next[n] > Len(NextBlock(n))
     /\ state' = [state EXCEPT ![n] = deliver[n]]
     /\ height' = [height EXCEPT ![n] = @ + 1]
     /\ next' = [next EXCEPT ![n] = 1]
     /\ check' = [check EXCEPT ![n] = r.st]
     /\ pool' = [pool EXCEPT ![n] = r.txs]
     /\ UNCHANGED <<blocks, deliver, others, restarts>>

(* The process ends anywhere and is started again on its database.         *)
Restart(n) ==
  /\ restarts < MaxRestarts
  /\ restarts' = restarts + 1
  /\ deliver' = [deliver EXCEPT ![n] = state[n]]
  /\ check' = [check EXCEPT ![n] = state[n]]
  /\ next' = [next EXCEPT ![n] = 1]
  /\ pool' = [pool EXCEPT ![n] = <<>>]
  /\ UNCHANGED <<blocks, height, state, others>>

Step(n) ==
  \/ \E t \in Txs : Submit(n, t)
  \/ Propose(n) \/ ProposeOther(n) \/ Deliver(n) \/ Commit(n) \/ Restart(n)
Next == \E n \in Nodes : Step(n)
Spec == Init /\ [][Next]_vars

---------------------------------------------------------------------------
(* Properties                                                              *)

(* The type invariant; no balance and no allowance is overdrawn.           *)
TypeOK ==
  /\ blocks \in Seq(Seq(Txs))
  /\ height \in [Nodes -> Nat] /\ next \in [Nodes -> Nat \ {0}]
  /\ pool \in [Nodes -> Seq(Txs)]
  /\ \A st \in {state, deliver, check} : st \in [Nodes -> States]
  /\ others \in Nat /\ restarts \in Nat

(* Whatever proposers put into blocks, however often a transaction is sent *)
(* again and whenever a node crashes, a signer's transactions pass in the  *)
(* order of its sequence numbers, each once, and none that it has not      *)
(* signed (the ante handler's SigVerification and IncrementSequence).      *)
ExactlyOnce ==
  \A n \in Nodes : LET log == deliver[n].log IN
    \A i \in DOMAIN log :
      /\ log[i].tx.valid
      /\ log[i].tx.seq = Genesis.seq[log[i].tx.signer]
           + Cardinality({j \in 1 .. i - 1 : log[j].tx.signer = log[i].tx.signer})

SumOver(log, Amount(_)) == FoldLeft(LAMBDA s, e : s + Amount(e), 0, log)

(* Fees are taken before the signature is looked at, and still: an account *)
(* and an allowance have lost exactly the fees and the coins of the        *)
(* transactions that passed; nobody pays for a forged, repeated or refused *)
(* one.                                                                    *)
OnlyExecutedArePaid ==
  \A n \in Nodes : LET st == deliver[n] IN
    \A a \in Accounts :
      /\ Genesis.bal[a] - st.bal[a] =
           SumOver(st.log, LAMBDA e :
             (IF e.tx.payer = a THEN e.tx.fee ELSE 0)
               + (IF e.tx.signer = a /\ e.done THEN e.tx.spends ELSE 0))
      /\ \A b \in Accounts \ {a} :
           Genesis.grant[<<a, b>>] - st.grant[<<a, b>>] =
             SumOver(st.log, LAMBDA e :
               IF e.tx.payer = a /\ e.tx.signer = b THEN e.tx.fee ELSE 0)

(* A node's own settings, mempool and restarts do not reach the chain:     *)
(* nodes at the same height hold the same state, and one that is behind    *)
(* has let the same transactions pass.                                     *)
NodesAgree ==
  \A m, n \in Nodes :
    height[m] <= height[n] =>
      /\ IsPrefix(state[m].log, state[n].log)
      /\ height[m] = height[n] => state[m] = state[n]

(* What a node offers for a block passes: the mempool, in its order and on *)
(* the committed state, is let through by the ante handler of the next     *)
(* height, unless a transaction in it times out at this very height.       *)
PoolIsReady ==
  \A n \in Nodes :
    (\A t \in ToSet(pool[n]) : t.timeout # height[n] \/ t.timeout = 0) =>
      LET Then(r, t) ==
            LET c == CheckTx(r.st, t, "deliver", height[n] + 1, MinPrice[n])
            IN [st |-> c.st, ok |-> r.ok /\ c.ok]
      IN FoldLeft(Then, [st |-> state[n], ok |-> TRUE], pool[n]).ok

(* ante.go: RedundantRelayDecorator.  No relayer's transaction waits in a  *)
(* mempool whose packets the chain has or an earlier one brings.           *)
RelayersDoNotRace ==
  \A n \in Nodes : \A i \in DOMAIN pool[n] :
    LET t == pool[n][i]
        earlier == UNION {pool[n][j].packets : j \in {j \in 1 .. i - 1 : pool[n][j].spends = 0}}
    IN t.packets # {} /\ t.spends = 0 =>
         ~(t.packets \subseteq state[n].received \cup earlier)

(* A transaction that is right for the committed state is let in by a node *)
(* whose mempool has nothing of its signer, of its payer or with its       *)
(* packets: no earlier transaction, whatever became of it, locks it out.   *)
Right(t, n) ==
  LET st == state[n] IN
  /\ t.valid /\ t.seq = st.seq[t.signer] /\ (t.key \/ t.signer \in st.keyed)
  /\ t.gas > 0 /\ t.fee >= MinPrice[n] /\ st.bal[t.payer] >= t.fee
  /\ t.payer # t.signer => st.grant[<<t.payer, t.signer>>] >= t.fee
  /\ t.timeout = 0 \/ t.timeout > height[n]
  /\ t.packets \cap st.received = {}
  /\ \A u \in ToSet(pool[n]) :
       u.signer # t.signer /\ u.payer # t.payer /\ u.packets \cap t.packets = {}
NobodyIsLockedOut ==
  \A n \in Nodes : \A t \in Txs :
    Right(t, n) => CheckTx(check[n], t, "check", height[n], MinPrice[n]).ok

(* ante.go: "after setup context to enforce limits early".  The messages   *)
(* of a simulation never run without the node's limit, whatever gas the    *)
(* transaction asks for.                                                   *)
SimulationsAreLimited ==
  \A n \in Nodes : \A t \in Txs :
    LET c == CheckTx(check[n], t, "simulate", height[n], MinPrice[n])
    IN c.ok => c.limit = SimulationGasLimit

(* A contract sees the position of its transaction in the block: the       *)
(* transactions that pass are counted from zero in every block             *)
(* (CountTXDecorator).                                                     *)
PositionsInBlock ==
  \A n \in Nodes : LET log == deliver[n].log IN
    \A i \in DOMAIN log :
      log[i].index = Cardinality({j \in 1 .. i - 1 : log[j].height = log[i].height})

---------------------------------------------------------------------------
(* The abstract specification                                              *)

LedgerOf(st, h) ==
  [height |-> h, seq |-> st.seq, keyed |-> st.keyed, bal |-> st.bal,
   grant |-> st.grant, received |-> st.received, log |-> st.log]
LedgerBar == [n \in Nodes |-> LedgerOf(state[n], height[n])]

Ledger == INSTANCE AbstractLedger WITH ledger <- LedgerBar, Opening <- LedgerOf(Genesis, 0)

(* Seen from outside, a node executes each block in one step, by rules     *)
(* that are the same for all: its price, its mempool and check state, what *)
(* the decorators do before one refuses, and its restarts do not show.     *)
ImplementsLedger == Ledger!Spec
==========================================================================
