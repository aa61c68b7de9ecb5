------------------------- MODULE ZeroHeightExport -------------------------
(***************************************************************************)
(* `Neutaro export`: ExportAppStateAndValidators and, for a fresh start at *)
(* height 0, prepForZeroHeightGenesis (app/export.go).  The code walks     *)
(* over validators, delegations, redelegations, unbonding delegations and  *)
(* signing infos in one long sequence of store updates that x/distribution *)
(* and x/staking never see in this order in a running chain.               *)
(*                                                                         *)
(* One loop iteration is one step; the iterators walk in key order, the    *)
(* model in any order.  What the keepers do in a call is external (SDK     *)
(* 0.47) and modelled as far as export.go depends on it.                   *)
(*                                                                         *)
(* Amounts in x/distribution are decimals.  The model counts in fractions  *)
(* of a coin: Coin fractions are one coin, and paying out truncates to     *)
(* whole coins.                                                            *)
(*                                                                         *)
(* Definitions named X_Something are X with a plausible mistake, as in     *)
(* UpgradeHandler.                                                         *)
(***************************************************************************)
EXTENDS Naturals, FiniteSets, FiniteSetsExt, Functions

CONSTANTS
  Validators,     \* numbers: their order is the order of the addresses
  Delegators,     \* numbers, for the order in which their delegations came
  Coin,           \* fractions in a coin
  Refused,        \* delegators whose withdraw address the bank refuses
  Unpayable,      \* validators whose operator's withdraw address it refuses
  Strangers,      \* entries of an allow list that name no validator ...
  Malformed,      \* ... and those of them that are no address at all
  MaxValidators,  \* staking parameter
  LastHeight,     \* the height of the exported state
  Chains          \* what may be exported: the fields of Chain

Pairs == Delegators \X Validators

ASSUME ValidatorsAssumption == Validators \subseteq Nat /\ IsFiniteSet(Validators)
ASSUME DelegatorsAssumption == Delegators \subseteq Nat /\ IsFiniteSet(Delegators)
ASSUME ListsAssumption == Strangers \cap Validators = {} /\ Malformed \subseteq Strangers
ASSUME CoinAssumption == Coin \in Nat \ {0}
ASSUME StakingAssumption == MaxValidators \in Nat \ {0} /\ LastHeight \in Nat \ {0}

(* Its possible sets of <<delegator, validator>>, the fractions that a     *)
(* delegation may be due, a validator may have as commission, and nobody   *)
(* owns in a validator's rewards; whether validators have been slashed;    *)
(* the voting powers; the values of --jail-allowed-addrs; and whether the  *)
(* database closes its iterators.                                          *)
Chain(k) ==
  /\ k.delegations \subseteq SUBSET Pairs
  /\ k.rewards \subseteq Nat /\ k.commissions \subseteq Nat /\ k.dusts \subseteq Nat
  /\ k.slashed \subseteq BOOLEAN
  /\ k.powers \subseteq Nat /\ k.closes \subseteq BOOLEAN
  /\ k.allowLists \subseteq SUBSET (Validators \cup Strangers)
ASSUME ChainsAssumption == \A k \in Chains : Chain(k)

VARIABLES
  stage,   \* where the export stands
  todo,    \* what the running loop has not visited
  zero,    \* forZeroHeight
  allowed, \* jailAllowedAddrs
  closes,  \* the iterator over the validators closes without an error
  ctx,     \* the block height of the context
  height,  \* the height of the exported genesis
  dels,    \* dels: the delegations
  dist,    \* x/distribution: out(standing), com(mission), due, pool, bank,
           \*   paid, hist(orical reference counts), cur(rent period), start,
           \*   slashed (periods that slash events refer to); lost: what has
           \*   left the books of the module and not its balance
  val,     \* x/staking: power, status, jailed, unbondingHeight
  index,   \* the validators in the power index
  created, \* creation heights of redelegations and unbonding delegations
  signing  \* start heights of the signing infos

vars == <<stage, todo, zero, allowed, closes, ctx, height, dels, dist, val, index, created, signing>>
request == <<zero, allowed, closes, dels>>
staking == <<val, index, created>>

(* The loops and single calls of prepForZeroHeightGenesis, in order.       *)
Stages ==
  {"begin", "assert", "commission", "rewards", "slashes", "historical",
   "validators", "delegations", "redelegations", "unbondings", "jail",
   "apply", "signing", "export", "done", "panicked", "exited"}

Entries == {"redelegation", "unbonding"} \X Delegators
Periods == 0 .. 2 * Cardinality(Delegators) + 2

Total(f) == SumFunction(f)
At(D, v) == {x \in DOMAIN D.due : x[2] = v}
Owed(D, v) == D.com[v] + SumFunctionOnSet(D.due, At(D, v))
Whole(n) == (n \div Coin) * Coin

---------------------------------------------------------------------------
(* x/staking (external)                                                    *)

(* The validators before v in the power index.                             *)
Ahead(V, I, v) ==
  {w \in I : \/ V[w].power > V[v].power
             \/ V[w].power = V[v].power /\ w < v}

(* The walk over the index stops at MaxValidators, or at a validator       *)
(* without power.                                                          *)
Reached(V, I) ==
  {v \in I : /\ Cardinality(Ahead(V, I, v)) < MaxValidators
             /\ \A w \in Ahead(V, I, v) : V[w].power > 0}
Elected(V, I) == {v \in Reached(V, I) : V[v].power > 0}
Bonded(V) == {v \in Validators : V[v].status = "bonded"}

(* A validator that gains a seat is bonded, one that loses it begins to    *)
(* unbond at the height of the context.                                    *)
AppliedUpdates(V, I, h) ==
  [v \in Validators |->
    IF v \in Elected(V, I) THEN [V[v] EXCEPT !.status = "bonded"]
    ELSE IF V[v].status = "bonded"
         THEN [V[v] EXCEPT !.status = "unbonding", !.unbondingHeight = h]
         ELSE V[v]]

---------------------------------------------------------------------------
(* x/distribution (external)                                               *)

(* IncrementValidatorPeriod: the previous period loses the reference of    *)
(* being current, the one that ends gains it.                              *)
IncrementPeriod(D, v) ==
  LET p == D.cur[v]
  IN [D EXCEPT !.hist[v][p - 1] = @ - 1, !.hist[v][p] = 1, !.cur[v] = p + 1]

(* initializeDelegation: the delegation starts at the period just ended.   *)
InitializeDelegation(D, x, h) ==
  LET p == D.cur[x[2]] - 1
  IN [D EXCEPT !.hist[x[2]][p] = @ + 1,
               !.start[x] = [period |-> p, height |-> h]]

(* WithdrawValidatorCommission: whole coins go out, the rest stays.  Both  *)
(* books are written before the transfer, and nothing undoes that when the *)
(* transfer fails.                                                         *)
Sent(D, v) == IF v \in Unpayable THEN 0 ELSE Whole(D.com[v])

WithdrawCommission(D, v) ==
  LET coins == Whole(D.com[v])
  IN [D EXCEPT !.com[v] = @ - coins, !.out[v] = @ - coins,
               !.bank = @ - Sent(D, v), !.paid = @ + Sent(D, v),
               !.lost = @ + (coins - Sent(D, v))]

(* WithdrawDelegationRewards.  A failing transfer comes after the period   *)
(* was incremented and before anything else; nothing undoes the increment. *)
WithdrawRewards(D, x) ==
  LET d == IncrementPeriod(D, x[2])
      coins == Whole(D.due[x])
      paid == [d EXCEPT !.out[x[2]] = @ - D.due[x],
                        !.pool = @ + (D.due[x] - coins),
                        !.bank = @ - coins, !.paid = @ + coins,
                        !.due[x] = 0,
                        !.hist[x[2]][D.start[x].period] = @ - 1]
  IN IF coins > 0 /\ x[1] \in Refused THEN d
     ELSE InitializeDelegation(paid, x, ctx)

DeleteSlashEvents(D) == [D EXCEPT !.slashed = [v \in Validators |-> {}]]

DeleteHistorical_Skipped(D) == D
DeleteHistorical(D) ==
  [D EXCEPT !.hist = [v \in Validators |-> [p \in Periods |-> 0]]]

(* AfterValidatorCreated: initializeValidator writes period 0 and starts   *)
(* period 1 without rewards.                                               *)
InitializeValidator_PeriodKept(D, v) ==
  [D EXCEPT !.hist[v][0] = 1, !.com[v] = 0, !.out[v] = 0,
            !.due = [x \in DOMAIN @ |-> IF x[2] = v THEN 0 ELSE @[x]]]
InitializeValidator(D, v) ==
  [D EXCEPT !.hist[v][0] = 1, !.cur[v] = 1, !.com[v] = 0, !.out[v] = 0,
            !.due = [x \in DOMAIN @ |-> IF x[2] = v THEN 0 ELSE @[x]]]

(* The invariants x/crisis asserts: who refers to which period, that the   *)
(* module account covers what is owed, and that everybody can withdraw.    *)
ReferencesAreCounted(D) ==
  \A v \in Validators :
    /\ Total(D.hist[v]) = 1 + Cardinality(At(D, v)) + Cardinality(D.slashed[v])
    /\ D.hist[v][D.cur[v] - 1] > 0
    /\ \A x \in At(D, v) : D.hist[v][D.start[x].period] > 0
Covered(D) == D.bank = D.pool + Total(D.out)
CanWithdraw(D) == \A v \in Validators : Owed(D, v) <= D.out[v]

---------------------------------------------------------------------------
(* The exported state: one the chain can be in after a block.  The         *)
(* delegations of a validator came one after the other, perhaps followed   *)
(* by a slash; the validator set is the one the last end block elected.    *)

One(b) == IF b THEN 1 ELSE 0
Place(C, x) == Cardinality({y \in C : y[2] = x[2] /\ y[1] <= x[1]})

InitDist(chain, C) ==
  LET k == [v \in Validators |-> Cardinality({x \in C : x[2] = v})] IN
  \E due \in [C -> chain.rewards], com \in [Validators -> chain.commissions],
     dust \in [Validators -> chain.dusts], slashed \in [Validators -> chain.slashed] :
    LET slash == [v \in Validators |-> IF slashed[v] THEN {k[v] + 1} ELSE {}]
        cur == [v \in Validators |-> k[v] + 1 + Cardinality(slash[v])]
        out == [v \in Validators |->
                 com[v] + dust[v] + SumFunctionOnSet(due, {x \in C : x[2] = v})]
    IN dist =
         [out |-> out, com |-> com, due |-> due, pool |-> 0, paid |-> 0, lost |-> 0,
          bank |-> Total(com) + Total(dust) + Total(due), cur |-> cur, slashed |-> slash,
          start |-> [x \in C |-> [period |-> Place(C, x), height |-> LastHeight]],
          hist |-> [v \in Validators |-> [p \in Periods |->
                     One(p \in 1 .. k[v]) + One(p = cur[v] - 1) + One(p \in slash[v])]]]

InitStaking(chain) ==
  \E power \in [Validators -> chain.powers], jailed \in SUBSET Validators,
     old \in [Validators -> {"unbonding", "unbonded"}] :
    LET unelected ==
          [v \in Validators |->
            [power |-> power[v], jailed |-> v \in jailed, status |-> old[v],
             unbondingHeight |-> LastHeight]]
    IN /\ index = Validators \ jailed
       /\ val = AppliedUpdates(unelected, index, LastHeight)

Init ==
  /\ stage = "begin" /\ todo = {}
  /\ zero \in BOOLEAN
  /\ ctx = LastHeight /\ height = 0
  /\ \E chain \in Chains :
       /\ allowed \in chain.allowLists /\ closes \in chain.closes
       /\ dels \in chain.delegations
       /\ InitDist(chain, dels)
       /\ InitStaking(chain)
  /\ created = [e \in Entries |-> LastHeight]
  /\ signing = [v \in Validators |-> LastHeight]

---------------------------------------------------------------------------
(* The export                                                              *)

Following_NoRewards ==
  [commission |-> "slashes", rewards |-> "slashes", validators |-> "delegations",
   delegations |-> "redelegations", redelegations |-> "unbondings",
   unbondings |-> "jail", jail |-> "apply", signing |-> "export"]
Following ==
  [commission |-> "rewards", rewards |-> "slashes", validators |-> "delegations",
   delegations |-> "redelegations", redelegations |-> "unbondings",
   unbondings |-> "jail", jail |-> "apply", signing |-> "export"]

Items(s) ==
  CASE s \in {"commission", "validators", "jail", "signing"} -> Validators
    [] s \in {"rewards", "delegations"} -> dels
    [] s = "redelegations" -> {e \in Entries : e[1] = "redelegation"}
    [] s = "unbondings"    -> {e \in Entries : e[1] = "unbonding"}
    [] OTHER               -> {}

Enter(s) == stage' = s /\ todo' = Items(s)
Visit(s, x) == stage = s /\ x \in todo /\ todo' = todo \ {x} /\ UNCHANGED stage

Begin ==
  /\ stage = "begin"
  /\ Enter(IF zero THEN "assert" ELSE "export")
  /\ height' = IF zero THEN 0 ELSE LastHeight + 1
  /\ UNCHANGED <<request, ctx, dist, staking, signing>>

(* log.Fatal: an entry of the allow list that is no address ends it all.   *)
RejectAllowList ==
  /\ stage = "assert" /\ allowed \cap Malformed # {}
  /\ Enter("exited")
  /\ UNCHANGED <<request, ctx, height, dist, staking, signing>>

AssertInvariants ==
  /\ stage = "assert" /\ allowed \cap Malformed = {}
  /\ Enter(IF ReferencesAreCounted(dist) /\ Covered(dist) /\ CanWithdraw(dist)
           THEN "commission" ELSE "panicked")
  /\ UNCHANGED <<request, ctx, height, dist, staking, signing>>

(* The context goes back to the height of the state after the delegations. *)
EndLoop ==
  /\ stage \in DOMAIN Following /\ todo = {} /\ (stage = "jail" => closes)
  /\ Enter(Following[stage])
  /\ ctx' = IF stage = "delegations" THEN LastHeight ELSE ctx
  /\ UNCHANGED <<request, height, dist, staking, signing>>

(* The errors of the two withdrawals are dropped.                          *)
WithdrawAllCommission(v) ==
  /\ Visit("commission", v)
  /\ dist' = WithdrawCommission(dist, v)
  /\ UNCHANGED <<request, ctx, height, staking, signing>>

WithdrawAllRewards(x) ==
  /\ Visit("rewards", x)
  /\ dist' = WithdrawRewards(dist, x)
  /\ UNCHANGED <<request, ctx, height, staking, signing>>

ClearSlashEvents ==
  /\ stage = "slashes"
  /\ Enter("historical")
  /\ dist' = DeleteSlashEvents(dist)
  /\ UNCHANGED <<request, ctx, height, staking, signing>>

FreshHeight_Kept == LastHeight
FreshHeight == 0

ClearHistorical ==
  /\ stage = "historical"
  /\ Enter("validators")
  /\ dist' = DeleteHistorical(dist)
  /\ ctx' = FreshHeight
  /\ UNCHANGED <<request, height, staking, signing>>

(* What is left in a validator's rewards is donated to the community pool. *)
Scraps_WholeCoins(D, v) == Whole(D.out[v])
Scraps(D, v) == D.out[v]

ReinitializeValidator(v) ==
  /\ Visit("validators", v)
  /\ dist' = InitializeValidator([dist EXCEPT !.pool = @ + Scraps(dist, v)], v)
  /\ UNCHANGED <<request, ctx, height, staking, signing>>

ReinitializeDelegation_NoPeriod(x) ==
  /\ Visit("delegations", x)
  /\ dist' = InitializeDelegation(dist, x, ctx)
  /\ UNCHANGED <<request, ctx, height, staking, signing>>
ReinitializeDelegation(x) ==
  /\ Visit("delegations", x)
  /\ dist' = InitializeDelegation(IncrementPeriod(dist, x[2]), x, ctx)
  /\ UNCHANGED <<request, ctx, height, staking, signing>>

ResetCreationHeight(e) ==
  /\ Visit("redelegations", e) \/ Visit("unbondings", e)
  /\ created' = [created EXCEPT ![e] = 0]
  /\ UNCHANGED <<request, ctx, height, dist, val, index, signing>>

(* An allow list jails whoever is not in it, everybody when it names no    *)
(* validator.  SetValidator writes the validator and leaves the power      *)
(* index alone.                                                            *)
Jails_EmptyListToo(v) == v \notin allowed
Jails(v) == allowed # {} /\ v \notin allowed

Reset_Unbonded(r, jail) ==
  [r EXCEPT !.unbondingHeight = 0, !.jailed = @ \/ jail, !.status = "unbonded"]
Reset(r, jail) == [r EXCEPT !.unbondingHeight = 0, !.jailed = @ \/ jail]

ResetValidator(v) ==
  /\ Visit("jail", v)
  /\ val' = [val EXCEPT ![v] = Reset(@, Jails(v))]
  /\ UNCHANGED <<request, ctx, height, dist, index, created, signing>>

(* When closing the iterator fails, prepForZeroHeightGenesis logs it and   *)
(* returns, and the export goes on: nobody is elected and no signing info  *)
(* is reset.                                                               *)
CloseFails ==
  /\ stage = "jail" /\ todo = {} /\ ~closes
  /\ Enter("export")
  /\ UNCHANGED <<request, ctx, height, dist, staking, signing>>

(* ApplyAndReturnValidatorSetUpdates panics on a jailed validator in the   *)
(* power index.                                                            *)
ApplyUpdates ==
  /\ stage = "apply"
  /\ LET panics == \E v \in Reached(val, index) : val[v].jailed
     IN /\ Enter(IF panics THEN "panicked" ELSE "signing")
        /\ val' = IF panics THEN val ELSE AppliedUpdates(val, index, ctx)
  /\ UNCHANGED <<request, ctx, height, dist, index, created, signing>>

ResetStartHeight(v) ==
  /\ Visit("signing", v)
  /\ signing' = [signing EXCEPT ![v] = 0]
  /\ UNCHANGED <<request, ctx, height, dist, staking>>

(* ExportGenesisForModules and WriteValidators read the state.             *)
ExportGenesis ==
  /\ stage = "export"
  /\ Enter("done")
  /\ UNCHANGED <<request, ctx, height, dist, staking, signing>>

Next ==
  \/ Begin \/ RejectAllowList \/ AssertInvariants \/ EndLoop \/ CloseFails
  \/ ClearSlashEvents \/ ClearHistorical \/ ApplyUpdates \/ ExportGenesis
  \/ \E v \in Validators :
       \/ WithdrawAllCommission(v) \/ ReinitializeValidator(v)
       \/ ResetValidator(v) \/ ResetStartHeight(v)
  \/ \E x \in dels : WithdrawAllRewards(x) \/ ReinitializeDelegation(x)
  \/ \E e \in Entries : ResetCreationHeight(e)

Spec == Init /\ [][Next]_vars

---------------------------------------------------------------------------
(* Properties                                                              *)

(* The type invariant.  That no reference count is ever negative is part   *)
(* of it.                                                                  *)
TypeOK ==
  /\ stage \in Stages /\ todo \subseteq Items(stage)
  /\ {zero, closes} \subseteq BOOLEAN /\ dels \subseteq Pairs
  /\ allowed \subseteq Validators \cup Strangers
  /\ ctx \in {0, LastHeight} /\ height \in {0, LastHeight + 1}
  /\ dist \in
       [out : [Validators -> Nat], com : [Validators -> Nat], due : [dels -> Nat],
        pool : Nat, bank : Nat, paid : Nat, lost : Nat, cur : [Validators -> Nat],
        hist : [Validators -> [Periods -> Nat]],
        slashed : [Validators -> SUBSET Periods],
        start : [dels -> [period : Periods, height : {0, LastHeight}]]]
  /\ val \in [Validators ->
       [power : Nat, jailed : BOOLEAN, unbondingHeight : {0, LastHeight},
        status : {"bonded", "unbonding", "unbonded"}]]
  /\ index \subseteq Validators
  /\ created \in [Entries -> Nat] /\ signing \in [Validators -> Nat]

(* Between any two calls of the export the balance of the distribution     *)
(* module is what it owes, outstanding rewards and the community pool, and *)
(* beyond that only what a commission lost that the bank refused: nothing  *)
(* is ever owed that is not there.  What the truncation of a withdrawal    *)
(* leaves and a withdrawal of rewards that failed ends in the pool, and    *)
(* nothing is owed to anybody after the scraps are given.  "Donate any     *)
(* unwithdrawn outstanding reward fraction tokens to the community pool"   *)
(* (export.go) has that one exception, and needs a refused operator.       *)
Solvent ==
  /\ dist.bank = dist.pool + Total(dist.out) + dist.lost
  /\ CanWithdraw(dist)
  /\ zero /\ stage = "done" => dist.bank = dist.pool + dist.lost
  /\ Unpayable = {} => dist.lost = 0

(* The reference counts of the historical rewards are right wherever a     *)
(* keeper relies on them, although the export deletes all of them under    *)
(* the delegations that still refer to them, and builds them up again.     *)
ReferencesHold ==
  stage \notin {"historical", "validators", "delegations"} => ReferencesAreCounted(dist)

(* A zero height genesis refers to no height of the old chain.  The        *)
(* validator updates applied after the unbonding heights were reset, in a  *)
(* context that is back at the old height, do not bring one back.  Only    *)
(* the signing infos keep theirs, all of them, when the iterator over the  *)
(* validators could not be closed; the export completes all the same.      *)
FreshStart ==
  zero /\ stage = "done" =>
    /\ height = 0
    /\ \A x \in dels : dist.start[x].height = 0
    /\ \A v \in Validators :
         /\ dist.slashed[v] = {} /\ val[v].unbondingHeight = 0
         /\ signing[v] = IF closes THEN 0 ELSE LastHeight
    /\ \A e \in Entries : created[e] = 0

(* The exported distribution is one a chain has whose delegations were     *)
(* made one after the other and earned nothing yet: each starts at a       *)
(* period of its own, which the one before it has closed, no period of     *)
(* the old chain is left, and nothing refers to a period but what does so  *)
(* on such a chain.  The loops visit the delegations of all validators     *)
(* mixed, whatever the withdrawals before them have left.                  *)
BeginsAnew ==
  zero /\ stage = "done" =>
    \A v \in Validators :
      LET k == Cardinality(At(dist, v))
      IN /\ dist.cur[v] = k + 1
         /\ {dist.start[x].period : x \in At(dist, v)} = 1 .. k
         /\ dist.hist[v] = [p \in Periods |-> One(p \in 1 .. k) + One(p = k)]
         /\ dist.out[v] = 0 /\ dist.com[v] = 0
         /\ \A x \in At(dist, v) : dist.due[x] = 0

(* Exporting elects nobody and drops nobody.                               *)
ValidatorSetKept == [][Bonded(val') = Bonded(val)]_vars

(* An export ends in a panic only when an allow list leaves out a          *)
(* validator that the election gets to see.                                *)
PanicsOnlyOverAllowList ==
  stage = "panicked" => allowed # {} /\ ~ (Reached(val, index) \subseteq allowed)

(* export.go: the function "exports the state of the application for a     *)
(* genesis file", with the validators missing from the allowed address     *)
(* list jailed.                                                            *)
AllowListExports == stage # "panicked"

---------------------------------------------------------------------------
(* The abstract specification                                              *)

(* What withdrawals would still pay: whole coins, to whom the bank does    *)
(* not refuse them; and what refusing commissions has lost or would lose.  *)
Payout(x) == IF x[1] \in Refused THEN 0 ELSE Whole(dist.due[x])
Unpaid ==
  Total([v \in Validators |-> Sent(dist, v)]) + Total([x \in dels |-> Payout(x)])
Losses ==
  dist.lost + Total([v \in Validators |-> Whole(dist.com[v]) - Sent(dist, v)])

PhaseBar == IF stage \in {"done", "panicked", "exited"} THEN stage ELSE "asked"
SettledBar == zero /\ stage = "done"
CoinsBar == IF SettledBar THEN dist.pool ELSE dist.bank + dist.paid
PayableBar == IF SettledBar THEN 0 ELSE dist.paid + Unpaid
PaidBar == IF SettledBar THEN dist.paid ELSE 0
JailedBar == IF stage = "done" THEN {v \in Validators : val[v].jailed} ELSE Validators \ index

Promise == INSTANCE AbstractExport
             WITH phase <- PhaseBar, coins <- CoinsBar, payable <- PayableBar,
                  refused <- Losses, paid <- PaidBar, seats <- Bonded(val), jailed <- JailedBar

(* Seen from outside the loops are one step: whatever is deleted and built *)
(* up on the way and whichever withdrawal fails, each commission and each  *)
(* reward is paid once, in whole coins, the rest is the community pool's   *)
(* but for the commissions the bank refused, seats stay, and who is jailed *)
(* is decided by the old chain and the list.                               *)
ImplementsExport == Promise!Spec
===========================================================================
