------------------------- MODULE MC_UpgradeChain -------------------------
(* Small instances of UpgradeChain.                                       *)
EXTENDS UpgradeChain, TLC

CONSTANTS n1, n2, n3

MCNodes == {n1, n2, n3}
(* Two large validators and a small one: n1 and n2 together, with or      *)
(* without n3, hold more than 2/3 of the power.                           *)
MCQuorums == {{n1, n2}, {n1, n2, n3}}

(* n1 and n2 are interchangeable.                                        *)
Peers == Permutations({n1, n2})

PairNodes == {n1, n2}
PairQuorums == {{n1, n2}}

Plan(name, h) == [kind |-> "schedule", plan |-> [name |-> name, height |-> h]]
Quiet == [kind |-> "none", plan |-> NoPlan]
Cancel == [kind |-> "cancel", plan |-> NoPlan]

(* The upgrade planned for block 2 and for block 3, replaced, cancelled.  *)
UpgradeTxs == {Quiet, Cancel, Plan("v2", 2), Plan("v2", 3)}
(* Also a plan no binary has a handler for.                               *)
AnyTxs == {Quiet, Plan("v2", 2), Plan("other", 2), Plan("other", 4)}
==========================================================================
