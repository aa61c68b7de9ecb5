----------------------- MODULE MC_ZeroHeightExport -----------------------
(* A small instance of ZeroHeightExport: chains with all kinds of rewards *)
(* and one validator set, and chains with all kinds of validator sets.    *)
EXTENDS ZeroHeightExport

(* Both delegate to validator 1, and one of them also to validator 2;     *)
(* nobody delegates to validator 3.                                       *)
ManyRewards ==
  [delegations |-> {{<<1, 1>>, <<2, 1>>, <<2, 2>>}, {<<1, 1>>, <<2, 1>>}},
   rewards |-> {0, 1, 3}, commissions |-> {0, 3}, dusts |-> {1},
   slashed |-> BOOLEAN, powers |-> {1}, allowLists |-> {{}}, closes |-> {TRUE}]

(* Entry 8 is the address of no validator, entry 9 is no address.         *)
Lists == SUBSET Validators \cup {{8}, {1, 9}}

ManyValidators ==
  [delegations |-> {{<<1, 1>>}}, rewards |-> {3}, commissions |-> {1}, dusts |-> {0},
   slashed |-> {FALSE}, powers |-> {0, 1, 2}, allowLists |-> Lists, closes |-> BOOLEAN]

BothChains == {ManyRewards, ManyValidators}
ValidatorChains == {ManyValidators}
==========================================================================
