------------------------- MODULE AbstractUpgrade -------------------------
(***************************************************************************)
(* What the v2 upgrade promises.                                           *)
(*                                                                         *)
(* Every node has a ledger: a height, the era it is in, and the pending    *)
(* plan.  A block turns one ledger into the next in one step, however many *)
(* processes started, panicked or were replaced meanwhile.  The era turns  *)
(* from old to new in the block the v2 plan is due in or not at all, and   *)
(* nothing in between is ever seen.                                        *)
(*                                                                         *)
(* There are no binaries, no files, no working state and no stores here:   *)
(* UpgradeChain has them and implements this.                              *)
(***************************************************************************)
EXTENDS Naturals, Sequences

CONSTANTS
  Nodes, Quorums, Txs, MaxHeight,   \* those of UpgradeChain
  UpgradeName,                      \* the plan that ends the old era
  NoPlan                            \* no plan is pending

VARIABLES
  ledger,   \* ledger[n]: what node n has executed
  log       \* the decided blocks, each with the ledger it goes on top of

vars == <<ledger, log>>

Genesis == [height |-> 0, era |-> "old", plan |-> NoPlan]

Init == ledger = [n \in Nodes |-> Genesis] /\ log = <<>>

Due(l) == l.plan # NoPlan /\ l.plan.height <= l.height + 1

(* A due plan is gone after its block.  The v2 plan may be applied, unless *)
(* the operator skips it; a plan of another name can only be skipped.      *)
Eras(l) == {l.era} \cup {e \in {"new"} : l.plan.name = UpgradeName}
Starts(l) ==
  IF Due(l) THEN {[height |-> l.height, era |-> e, plan |-> NoPlan] : e \in Eras(l)}
  ELSE {l}

(* A plan of the past is refused, and so is a second v2.                   *)
Refused(l, plan) ==
  plan.height < l.height + 1 \/ (plan.name = UpgradeName /\ l.era = "new")

Pending(l, tx) ==
  IF tx.kind = "cancel" THEN NoPlan
  ELSE IF tx.kind = "schedule" /\ ~Refused(l, tx.plan) THEN tx.plan
  ELSE l.plan

After(l, tx) == [height |-> l.height + 1, era |-> l.era, plan |-> Pending(l, tx)]

(* A node executes the next block, if it was decided for its ledger.       *)
Execute(n) ==
  LET h == ledger[n].height + 1
  IN /\ h <= Len(log)
     /\ log[h].ledger = ledger[n]
     /\ \E l \in Starts(ledger[n]) : ledger' = [ledger EXCEPT ![n] = After(l, log[h].tx)]
     /\ UNCHANGED log

(* A quorum with the same ledger decides the next block.                   *)
Decide(tx) ==
  /\ Len(log) < MaxHeight
  /\ \E Q \in Quorums, l \in {ledger[n] : n \in Nodes} :
       /\ l.height = Len(log)
       /\ \A n \in Q : ledger[n] = l
       /\ log' = Append(log, [tx |-> tx, ledger |-> l])
  /\ UNCHANGED ledger

(* A node that is behind takes over the ledger of a peer.                  *)
Adopt(n, peer) ==
  /\ ledger[peer].height > ledger[n].height
  /\ ledger' = [ledger EXCEPT ![n] = ledger[peer]]
  /\ UNCHANGED log

Next ==
  \/ \E tx \in Txs : Decide(tx)
  \/ \E n \in Nodes : Execute(n) \/ \E peer \in Nodes : Adopt(n, peer)

Spec == Init /\ [][Next]_vars
==========================================================================
