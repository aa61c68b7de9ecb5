---------------------- MODULE ZeroHeightExportProofs ----------------------
(***************************************************************************)
(* The export for height 0, for any validators, delegations, amounts and   *)
(* voting powers: the order of its loops leaves no height of the old chain *)
(* and the validator set as it was, no amount and no reference count is    *)
(* lost on the way, and no call panics but over an allow list.             *)
(***************************************************************************)
EXTENDS ZeroHeightExport, FoldTheorems, TLAPS

---------------------------------------------------------------------------
(* The election                                                            *)

ValidatorRecords ==
  [power : Nat, jailed : BOOLEAN, unbondingHeight : Nat,
   status : {"bonded", "unbonding", "unbonded"}]

(* Nothing but powers decides who is elected.                              *)
LEMMA SameElection ==
  ASSUME NEW V, NEW W, NEW I \in SUBSET Validators,
         \A v \in Validators : V[v].power = W[v].power
  PROVE  Elected(V, I) = Elected(W, I)
<1>1. \A v \in I : Ahead(V, I, v) = Ahead(W, I, v)
  BY DEF Ahead
<1>2. Reached(V, I) = Reached(W, I)
  <2>1. \A v \in I : \A w \in Ahead(W, I, v) : V[w].power = W[w].power
    BY DEF Ahead
  <2>2. QED BY <1>1, <2>1 DEF Reached
<1>3. QED BY <1>2 DEF Elected, Reached

(* The bonded validators are the elected ones.                             *)
Seated(V, I) ==
  \A v \in Validators : V[v].status = "bonded" <=> v \in Elected(V, I)

LEMMA Applying ==
  ASSUME NEW V \in [Validators -> ValidatorRecords], NEW I \in SUBSET Validators,
         NEW h \in Nat
  PROVE  /\ AppliedUpdates(V, I, h) \in [Validators -> ValidatorRecords]
         /\ Seated(AppliedUpdates(V, I, h), I)
         /\ Seated(V, I) => AppliedUpdates(V, I, h) = V
<1> DEFINE W == AppliedUpdates(V, I, h)
<1>1. \A v \in Validators : V[v] \in ValidatorRecords
  OBVIOUS
<1>2. \A v \in Validators :
        W[v] = IF v \in Elected(V, I) THEN [V[v] EXCEPT !.status = "bonded"]
               ELSE IF V[v].status = "bonded"
                    THEN [V[v] EXCEPT !.status = "unbonding", !.unbondingHeight = h]
                    ELSE V[v]
  BY DEF AppliedUpdates
<1>3. \A v \in Validators :
        /\ W[v] \in ValidatorRecords /\ W[v].power = V[v].power
        /\ W[v].status = "bonded" <=> v \in Elected(V, I)
  BY <1>1, <1>2 DEF ValidatorRecords
<1>4. W \in [Validators -> ValidatorRecords]
  BY <1>3 DEF AppliedUpdates
<1> HIDE DEF W
<1>5. Elected(W, I) = Elected(V, I)
  BY <1>3, SameElection
<1>6. Seated(V, I) => W = V
  <2>1. SUFFICES ASSUME Seated(V, I) PROVE \A v \in Validators : W[v] = V[v]
    BY <1>4
  <2>2. \A v \in Validators : [V[v] EXCEPT !.status = "bonded"] = V[v] \/ V[v].status # "bonded"
    BY <1>1 DEF ValidatorRecords
  <2>3. QED BY <1>2, <2>1, <2>2 DEF Seated
<1>7. QED BY <1>3, <1>4, <1>5, <1>6 DEF Seated, W
---------------------------------------------------------------------------
(* x/distribution: what the calls leave of starting infos and slash events *)

Fields ==
  {"out", "com", "due", "pool", "paid", "bank", "lost", "cur", "slashed", "start", "hist"}
Shape(D) ==
  /\ D = [f \in Fields |-> D[f]]
  /\ D.start = [x \in dels |-> D.start[x]]

LEMMA Incrementing ==
  ASSUME NEW D, Shape(D), NEW v
  PROVE  /\ Shape(IncrementPeriod(D, v))
         /\ IncrementPeriod(D, v).start = D.start
         /\ IncrementPeriod(D, v).slashed = D.slashed
<1> DEFINE p == D.cur[v]
           a == D.hist[v][p - 1] - 1
           b == p + 1
           D1 == [D EXCEPT !.hist[v][p - 1] = a, !.hist[v][p] = 1, !.cur[v] = b]
<1>1. IncrementPeriod(D, v) = D1
  BY Zenon DEF IncrementPeriod
<1> HIDE DEF p, a, b
<1>2. Shape(D1) /\ D1.start = D.start /\ D1.slashed = D.slashed
  <2> DEFINE E == [D EXCEPT !.hist[v][p - 1] = a]
             F == [E EXCEPT !.hist[v][p] = 1]
  <2>1. D1 = [F EXCEPT !.cur[v] = b]
    BY Zenon
  <2>2. Shape(E) /\ E.start = D.start /\ E.slashed = D.slashed
    BY DEF Shape, Fields
  <2> HIDE DEF E
  <2>3. Shape(F) /\ F.start = E.start /\ F.slashed = E.slashed
    BY <2>2 DEF Shape, Fields
  <2> HIDE DEF F, D1
  <2>4. Shape(D1) /\ D1.start = F.start /\ D1.slashed = F.slashed
    BY <2>1, <2>3 DEF Shape, Fields
  <2>5. QED BY <2>2, <2>3, <2>4, Zenon
<1>3. QED BY <1>1, <1>2, Zenon

LEMMA Initializing ==
  ASSUME NEW D, Shape(D), NEW x \in dels, NEW h
  PROVE  LET after == InitializeDelegation(D, x, h) IN
         /\ Shape(after) /\ after.slashed = D.slashed
         /\ after.start[x].height = h
         /\ \A y \in dels \ {x} : after.start[y] = D.start[y]
BY DEF Shape, Fields, InitializeDelegation

LEMMA Commissions ==
  ASSUME NEW D, Shape(D), NEW v
  PROVE  Shape(WithdrawCommission(D, v))
<1> DEFINE n == Sent(D, v)
<1> HIDE DEF n
<1>1. WithdrawCommission(D, v) =
        LET coins == Whole(D.com[v])
        IN [D EXCEPT !.com[v] = @ - coins, !.out[v] = @ - coins,
                     !.bank = @ - n, !.paid = @ + n, !.lost = @ + (coins - n)]
  BY DEF WithdrawCommission, n
<1>2. QED BY <1>1 DEF Shape, Fields

LEMMA Validating ==
  ASSUME NEW D, Shape(D), NEW v, NEW n
  PROVE  LET after == InitializeValidator([D EXCEPT !.pool = n], v) IN
         /\ Shape(after) /\ after.start = D.start /\ after.slashed = D.slashed
BY DEF Shape, Fields, InitializeValidator

LEMMA Deleting ==
  ASSUME NEW D, Shape(D)
  PROVE  /\ Shape(DeleteSlashEvents(D)) /\ Shape(DeleteHistorical(D))
         /\ DeleteSlashEvents(D).slashed = [v \in Validators |-> {}]
         /\ DeleteHistorical(D).slashed = D.slashed
BY DEF Shape, Fields, DeleteSlashEvents, DeleteHistorical

LEMMA Withdrawing ==
  ASSUME NEW D, Shape(D), NEW x \in dels
  PROVE  Shape(WithdrawRewards(D, x))
<1> DEFINE d == IncrementPeriod(D, x[2])
           coins == Whole(D.due[x])
           o == d.out[x[2]] - D.due[x]
           p == d.pool + (D.due[x] - coins)
           b == d.bank - coins
           q == d.paid + coins
           n == D.start[x].period
           r == d.hist[x[2]][n] - 1
           paid == [d EXCEPT !.out[x[2]] = o, !.pool = p, !.bank = b, !.paid = q,
                             !.due[x] = 0, !.hist[x[2]][n] = r]
<1>1. WithdrawRewards(D, x) = IF coins > 0 /\ x[1] \in Refused THEN d
                              ELSE InitializeDelegation(paid, x, ctx)
  BY Zenon DEF WithdrawRewards
<1>2. Shape(d)
  BY Incrementing, Zenon
<1> HIDE DEF d, coins, o, p, b, q, n, r
<1>3. Shape(paid)
  BY <1>2 DEF Shape, Fields
<1> HIDE DEF paid
<1>4. Shape(InitializeDelegation(paid, x, ctx))
  BY <1>3, Initializing, Zenon
<1>5. QED BY <1>1, <1>2, <1>4, Zenon
---------------------------------------------------------------------------
(* The validator set                                                       *)

SeatsInv ==
  /\ val \in [Validators -> ValidatorRecords] /\ index \in SUBSET Validators
  /\ ctx \in Nat
  /\ Seated(val, index)

LEMMA SeatsInit == Init => SeatsInv
<1> SUFFICES ASSUME Init PROVE SeatsInv
  OBVIOUS
<1>1. PICK chain \in Chains : InitStaking(chain)
  BY DEF Init
<1>2. chain.powers \subseteq Nat
  BY ChainsAssumption DEF Chain
<1>3. PICK power \in [Validators -> chain.powers], jailed \in SUBSET Validators,
           old \in [Validators -> {"unbonding", "unbonded"}] :
        LET unelected ==
              [v \in Validators |->
                [power |-> power[v], jailed |-> v \in jailed, status |-> old[v],
                 unbondingHeight |-> LastHeight]]
        IN /\ index = Validators \ jailed
           /\ val = AppliedUpdates(unelected, index, LastHeight)
  BY <1>1, Zenon DEF InitStaking
<1> DEFINE V == [v \in Validators |->
                  [power |-> power[v], jailed |-> v \in jailed, status |-> old[v],
                   unbondingHeight |-> LastHeight]]
<1>4. index \in SUBSET Validators /\ val = AppliedUpdates(V, index, LastHeight)
  BY <1>3
<1>5. V \in [Validators -> ValidatorRecords]
  <2>1. \A v \in Validators :
          power[v] \in Nat /\ (v \in jailed) \in BOOLEAN
          /\ old[v] \in {"bonded", "unbonding", "unbonded"} /\ LastHeight \in Nat
    BY <1>2, StakingAssumption
  <2>2. QED BY <2>1 DEF ValidatorRecords
<1> HIDE DEF V
<1>6. val \in [Validators -> ValidatorRecords] /\ Seated(val, index)
  BY <1>4, <1>5, Applying, StakingAssumption
<1>7. QED BY <1>4, <1>6, StakingAssumption DEF SeatsInv, Init

(* Resetting a validator touches neither its power nor its status.         *)
LEMMA Resetting ==
  ASSUME NEW r \in ValidatorRecords, NEW jail \in BOOLEAN
  PROVE  /\ Reset(r, jail) \in ValidatorRecords /\ Reset(r, jail).unbondingHeight = 0
         /\ Reset(r, jail).power = r.power /\ Reset(r, jail).status = r.status
<1>1. r.jailed \/ jail \in BOOLEAN
  BY DEF ValidatorRecords
<1>2. QED BY <1>1 DEF Reset, ValidatorRecords

LEMMA Steps ==
  ASSUME SeatsInv, [Next]_vars
  PROVE  /\ UNCHANGED index /\ ctx' \in {ctx, LastHeight, 0}
         /\ \/ UNCHANGED val
            \/ val' = AppliedUpdates(val, index, ctx)
            \/ \E v \in Validators : val' = [val EXCEPT ![v] = Reset(@, Jails(v))]
<1>1. CASE UNCHANGED vars
  BY <1>1 DEF vars
<1>2. CASE Begin \/ RejectAllowList \/ AssertInvariants \/ EndLoop \/ CloseFails
  BY <1>2 DEF Begin, RejectAllowList, AssertInvariants, EndLoop, CloseFails, staking
<1>3. CASE ClearSlashEvents \/ ClearHistorical \/ ExportGenesis
  BY <1>3 DEF ClearSlashEvents, ClearHistorical, FreshHeight, ExportGenesis, staking
<1>4. CASE ApplyUpdates
  BY <1>4 DEF ApplyUpdates
<1>5. ASSUME NEW v \in Validators,
             WithdrawAllCommission(v) \/ ReinitializeValidator(v) \/ ResetStartHeight(v)
      PROVE  UNCHANGED <<val, index, ctx>>
  BY <1>5, Zenon DEF WithdrawAllCommission, ReinitializeValidator, ResetStartHeight, staking
<1>6. ASSUME NEW v \in Validators, ResetValidator(v)
      PROVE  /\ val' = [val EXCEPT ![v] = Reset(@, Jails(v))]
             /\ UNCHANGED <<index, ctx>>
  BY <1>6, Zenon DEF ResetValidator
<1>7. ASSUME NEW x \in dels, WithdrawAllRewards(x) \/ ReinitializeDelegation(x)
      PROVE  UNCHANGED <<val, index, ctx>>
  BY <1>7, Zenon DEF WithdrawAllRewards, ReinitializeDelegation, staking
<1>8. ASSUME NEW e \in {"redelegation", "unbonding"} \X Delegators, ResetCreationHeight(e)
      PROVE  UNCHANGED <<val, index, ctx>>
  BY <1>8, Zenon DEF ResetCreationHeight
<1>9. QED BY <1>1, <1>2, <1>3, <1>4, <1>5, <1>6, <1>7, <1>8 DEF Next, Entries

(* No step changes who is bonded.                                          *)
LEMMA SeatsNext ==
  ASSUME SeatsInv, [Next]_vars
  PROVE  SeatsInv' /\ Bonded(val') = Bonded(val)
<1>1. ctx' \in Nat /\ index' = index
  BY Steps, StakingAssumption DEF SeatsInv
<1>2. ASSUME val' = val
      PROVE  SeatsInv' /\ Bonded(val') = Bonded(val)
  BY <1>1, <1>2 DEF SeatsInv, Seated
<1>3. CASE UNCHANGED val
  BY <1>2, <1>3
<1>4. CASE val' = AppliedUpdates(val, index, ctx)
  BY <1>2, <1>4, Applying DEF SeatsInv
<1>5. CASE \E v \in Validators : val' = [val EXCEPT ![v] = Reset(@, Jails(v))]
  <2>1. PICK v \in Validators : val' = [val EXCEPT ![v] = Reset(@, Jails(v))]
    BY <1>5
  <2>2. val'[v] = Reset(val[v], Jails(v)) /\ \A w \in Validators \ {v} : val'[w] = val[w]
    BY <2>1 DEF SeatsInv
  <2>3. /\ Reset(val[v], Jails(v)) \in ValidatorRecords
        /\ Reset(val[v], Jails(v)).power = val[v].power
        /\ Reset(val[v], Jails(v)).status = val[v].status
    <3>1. val[v] \in ValidatorRecords /\ Jails(v) \in BOOLEAN
      BY DEF SeatsInv, Jails
    <3>2. QED BY <3>1, Resetting, Zenon
  <2>4. val' \in [Validators -> ValidatorRecords]
    BY <2>1, <2>3 DEF SeatsInv
  <2>5. \A w \in Validators : val'[w].power = val[w].power /\ val'[w].status = val[w].status
    BY <2>2, <2>3
  <2>6. Elected(val', index) = Elected(val, index)
    BY <2>5, SameElection DEF SeatsInv
  <2>7. Seated(val', index)
    BY <2>5, <2>6 DEF SeatsInv, Seated
  <2>8. QED BY <1>1, <2>4, <2>5, <2>7 DEF SeatsInv, Bonded
<1>6. QED BY <1>3, <1>4, <1>5, Steps

LEMMA SeatsInvariant == Spec => []SeatsInv
BY SeatsInit, SeatsNext, PTL DEF Spec

(* ValidatorSetKept for any validators and powers: in the exported state   *)
(* bonded and elected are the same, and neither the reset nor the second   *)
(* election in a context of an old height makes a difference.              *)
THEOREM NobodyElectedByExport == Spec => ValidatorSetKept
<1>1. SeatsInv /\ [Next]_vars => [Bonded(val') = Bonded(val)]_vars
  BY SeatsNext
<1>2. QED BY <1>1, SeatsInvariant, PTL DEF Spec, ValidatorSetKept
---------------------------------------------------------------------------
(* Heights of the old chain                                                *)

AfterSigning       == {"export", "done"}
AfterJail          == {"apply", "signing"} \cup AfterSigning
AfterUnbondings    == {"jail"} \cup AfterJail
AfterRedelegations == {"unbondings"} \cup AfterUnbondings
AfterDelegations   == {"redelegations"} \cup AfterRedelegations
AfterSlashes       == {"historical", "validators", "delegations"} \cup AfterDelegations

(* x has been visited by loop s.                                           *)
Visited(s, after, x) == stage \in after \/ (stage = s /\ x \notin todo)

(* Where the export stands, and what it has of the context.  It does not   *)
(* get past an iterator that does not close.                               *)
CourseInv ==
  /\ zero \in BOOLEAN
  /\ stage \in {"apply", "signing"} => closes
  /\ stage \in {"assert", "commission", "rewards", "slashes", "historical", "validators",
                "delegations", "redelegations", "unbondings", "jail", "apply",
                "signing"} => zero
  /\ zero /\ stage # "begin" => height = 0
  /\ stage \in {"validators", "delegations"} => ctx = 0

DistInv ==
  /\ Shape(dist)
  /\ zero /\ stage \in AfterSlashes => \A v \in Validators : dist.slashed[v] = {}
  /\ zero => \A x \in dels :
       Visited("delegations", AfterDelegations, x) => dist.start[x].height = 0

HeightsInv ==
  /\ val \in [Validators -> ValidatorRecords]
  /\ created \in [Entries -> Nat] /\ signing \in [Validators -> Nat]
  /\ zero => \A e \in Entries :
       /\ e[1] = "redelegation" /\ Visited("redelegations", AfterRedelegations, e)
            => created[e] = 0
       /\ e[1] = "unbonding" /\ Visited("unbondings", AfterUnbondings, e)
            => created[e] = 0
  /\ zero => \A v \in Validators :
       /\ Visited("jail", AfterJail, v) => val[v].unbondingHeight = 0
       /\ closes /\ Visited("signing", AfterSigning, v) => signing[v] = 0
       /\ ~closes => signing[v] = LastHeight

FreshInv == CourseInv /\ DistInv /\ HeightsInv

LEMMA Finished ==
  ASSUME FreshInv
  PROVE  FreshStart
<1>1. SUFFICES ASSUME zero, stage = "done" PROVE FreshStart
  BY DEF FreshStart
<1>2. /\ stage \in AfterSlashes /\ stage \in AfterDelegations /\ stage \in AfterRedelegations
      /\ stage \in AfterUnbondings /\ stage \in AfterJail /\ stage \in AfterSigning
  BY <1>1 DEF AfterSlashes, AfterDelegations, AfterRedelegations, AfterUnbondings,
              AfterJail, AfterSigning
<1>3. height = 0
  BY <1>1 DEF FreshInv, CourseInv
<1>4. /\ \A x \in dels : dist.start[x].height = 0
      /\ \A v \in Validators : dist.slashed[v] = {}
  BY <1>1, <1>2 DEF FreshInv, DistInv, Visited
<1>5. \A v \in Validators : /\ signing[v] = IF closes THEN 0 ELSE LastHeight
                            /\ val[v].unbondingHeight = 0
  BY <1>1, <1>2 DEF FreshInv, HeightsInv, Visited
<1>6. \A e \in Entries : created[e] = 0
  BY <1>1, <1>2 DEF FreshInv, HeightsInv, Visited, Entries
<1>7. QED BY <1>3, <1>4, <1>5, <1>6 DEF FreshStart

LEMMA FreshInit == Init => FreshInv
<1> SUFFICES ASSUME Init PROVE FreshInv
  OBVIOUS
<1>1. stage = "begin" /\ zero \in BOOLEAN
  BY DEF Init
<1>2. CourseInv
  BY <1>1 DEF CourseInv
<1>3. DistInv
  <2>1. PICK chain \in Chains : InitDist(chain, dels)
    BY Zenon DEF Init
  <2>2. Shape(dist)
    <3> DEFINE S == [x \in dels |-> [period |-> Place(dels, x), height |-> LastHeight]]
    <3>1. S = [x \in dels |-> S[x]]
      OBVIOUS
    <3>2. PICK o, c, d, b, k, p, h : dist =
            [out |-> o, com |-> c, due |-> d, pool |-> 0, paid |-> 0, lost |-> 0,
             bank |-> b, cur |-> k, slashed |-> p, start |-> S, hist |-> h]
      BY <2>1, Zenon DEF InitDist
    <3> HIDE DEF S
    <3>3. QED BY <3>1, <3>2 DEF Shape, Fields
  <2>3. QED BY <1>1, <2>2 DEF DistInv, Visited, AfterDelegations, AfterRedelegations,
              AfterUnbondings, AfterJail, AfterSigning, AfterSlashes
<1>4. HeightsInv
  <2>1. val \in [Validators -> ValidatorRecords]
    BY SeatsInit DEF SeatsInv
  <2>2. /\ created \in [Entries -> Nat] /\ signing \in [Validators -> Nat]
        /\ \A v \in Validators : signing[v] = LastHeight
    BY StakingAssumption DEF Init
  <2>3. QED BY <1>1, <2>1, <2>2 DEF HeightsInv, Visited, AfterRedelegations,
              AfterUnbondings, AfterJail, AfterSigning
<1>5. QED BY <1>2, <1>3, <1>4 DEF FreshInv

(* A step to another part of the export finds what it has left visited.    *)
LEMMA Entering ==
  ASSUME FreshInv, UNCHANGED <<zero, closes, dels, created, signing>>,
         NEW s, Enter(s), Shape(dist)', dist'.start = dist.start,
         val' \in [Validators -> ValidatorRecords],
         \A v \in Validators : val[v].unbondingHeight = 0 => val'[v].unbondingHeight = 0,
         stage \in AfterSlashes \/ s \notin AfterSlashes
           \/ \A v \in Validators : dist'.slashed[v] = {},
         stage \in AfterSlashes => dist'.slashed = dist.slashed,
         \/ s \in {"assert", "commission", "rewards", "slashes", "historical",
                   "validators", "delegations", "panicked", "exited"}
         \/ s = "export" /\ ~zero
         \/ s = "export" /\ stage = "jail" /\ todo = {} /\ ~closes
         \/ stage \in DOMAIN Following /\ todo = {} /\ s = Following[stage]
         \/ stage = "apply" /\ s = "signing"
         \/ stage = "export" /\ s = "done"
  PROVE  DistInv' /\ HeightsInv'
<1> USE DEF Enter, Items, Following, AfterSigning, AfterJail, AfterUnbondings,
            AfterRedelegations, AfterDelegations, AfterSlashes
<1>1. stage' = s /\ todo' = Items(s)
  OBVIOUS
<1>2. ASSUME zero
      PROVE  /\ s \in AfterDelegations => \A x \in dels : Visited("delegations", AfterDelegations, x)
             /\ s \in AfterRedelegations =>
                  \A e \in Entries : Visited("redelegations", AfterRedelegations, e)
             /\ s \in AfterUnbondings =>
                  \A e \in Entries : Visited("unbondings", AfterUnbondings, e)
             /\ s \in AfterJail => \A v \in Validators : Visited("jail", AfterJail, v)
             /\ s \in AfterSigning /\ closes =>
                  \A v \in Validators : Visited("signing", AfterSigning, v)
  BY <1>2 DEF Visited
<1>3. /\ \A x \in dels : x \in Items("delegations")
      /\ \A e \in Entries : /\ e[1] = "redelegation" => e \in Items("redelegations")
                            /\ e[1] = "unbonding" => e \in Items("unbondings")
      /\ \A v \in Validators : v \in Items("jail") /\ v \in Items("signing")
  OBVIOUS
<1>4. DistInv'
  BY <1>1, <1>2, <1>3 DEF FreshInv, DistInv, Visited
<1>5. HeightsInv'
  BY <1>1, <1>2, <1>3 DEF FreshInv, HeightsInv, Visited
<1>6. QED BY <1>4, <1>5

LEMMA FreshNext == SeatsInv /\ FreshInv /\ [Next]_vars => FreshInv'
<1> SUFFICES ASSUME SeatsInv, FreshInv, [Next]_vars
             PROVE  FreshInv'
  OBVIOUS
<1>0. /\ Shape(dist) /\ val \in [Validators -> ValidatorRecords] /\ zero \in BOOLEAN
      /\ val' \in [Validators -> ValidatorRecords] /\ SeatsInv'
  BY SeatsNext DEF FreshInv, DistInv, HeightsInv, CourseInv, SeatsInv
<1>1. CASE UNCHANGED vars
  BY <1>1 DEF vars, FreshInv, CourseInv, DistInv, HeightsInv, Visited, Shape
<1>2. CASE Begin
  <2>1. /\ Enter(IF zero THEN "assert" ELSE "export") /\ stage = "begin"
        /\ height' = (IF zero THEN 0 ELSE LastHeight + 1)
        /\ UNCHANGED <<zero, allowed, closes, dels, ctx, dist, val, index, created, signing>>
    BY <1>2, Zenon DEF Begin, request, staking
  <2>2. CourseInv'
    BY <2>1, <1>0 DEF Enter, CourseInv
  <2>3. DistInv' /\ HeightsInv'
    <3>1. CASE zero
      <4>1. Enter("assert")
        BY <2>1, <3>1
      <4>2. Shape(dist)' /\ "assert" \notin AfterSlashes /\ stage \notin AfterSlashes
        BY <1>0, <2>1 DEF Shape, AfterSlashes, AfterDelegations, AfterRedelegations,
             AfterUnbondings, AfterJail, AfterSigning
      <4>3. QED BY <1>0, <2>1, <4>1, <4>2, Entering
    <3>2. CASE ~zero
      <4>1. Shape(dist)' /\ zero' = FALSE
        BY <1>0, <2>1, <3>2 DEF Shape
      <4>2. QED BY <1>0, <2>1, <4>1 DEF FreshInv, DistInv, HeightsInv
    <3>3. QED BY <3>1, <3>2
  <2>4. QED BY <2>2, <2>3 DEF FreshInv
<1>3. CASE RejectAllowList \/ AssertInvariants
  <2>1. PICK s \in {"commission", "panicked", "exited"} : Enter(s)
    BY <1>3 DEF RejectAllowList, AssertInvariants
  <2>2. stage = "assert"
        /\ UNCHANGED <<zero, allowed, closes, dels, ctx, height, dist, val, index, created, signing>>
    BY <1>3, Zenon DEF RejectAllowList, AssertInvariants, request, staking
  <2>3. CourseInv'
    BY <2>1, <2>2 DEF Enter, FreshInv, CourseInv
  <2>4. Shape(dist)' /\ s \notin AfterSlashes /\ stage \notin AfterSlashes
    BY <1>0, <2>1, <2>2 DEF Shape, AfterSlashes, AfterDelegations, AfterRedelegations,
         AfterUnbondings, AfterJail, AfterSigning
  <2>5. DistInv' /\ HeightsInv'
    BY <1>0, <2>1, <2>2, <2>4, Entering
  <2>6. QED BY <2>3, <2>5 DEF FreshInv
<1>4. CASE EndLoop
  <2>1. /\ stage \in DOMAIN Following /\ todo = {} /\ Enter(Following[stage])
        /\ stage = "jail" => closes
        /\ ctx' = (IF stage = "delegations" THEN LastHeight ELSE ctx)
        /\ UNCHANGED <<zero, allowed, closes, dels, height, dist, val, index, created, signing>>
    BY <1>4, Zenon DEF EndLoop, request, staking
  <2>2. CourseInv'
    BY <2>1 DEF Enter, Following, FreshInv, CourseInv
  <2>3. /\ Shape(dist)'
        /\ stage \in AfterSlashes \/ Following[stage] \notin AfterSlashes
    BY <1>0, <2>1 DEF Shape, Following, AfterSlashes, AfterDelegations, AfterRedelegations,
         AfterUnbondings, AfterJail, AfterSigning
  <2>4. DistInv' /\ HeightsInv'
    BY <1>0, <2>1, <2>3, Entering
  <2>5. QED BY <2>2, <2>4 DEF FreshInv
<1>5. CASE ClearSlashEvents
  <2>1. /\ stage = "slashes" /\ Enter("historical") /\ dist' = DeleteSlashEvents(dist)
        /\ UNCHANGED <<zero, allowed, closes, dels, ctx, height, val, index, created, signing>>
    BY <1>5, Zenon DEF ClearSlashEvents, request, staking
  <2>2. CourseInv'
    BY <2>1 DEF Enter, FreshInv, CourseInv
  <2>3. /\ Shape(dist)' /\ \A v \in Validators : dist'.slashed[v] = {}
        /\ dist'.start = dist.start
    <3>1. Shape(DeleteSlashEvents(dist))
          /\ DeleteSlashEvents(dist).slashed = [v \in Validators |-> {}]
      BY <1>0, Deleting
    <3>2. DeleteSlashEvents(dist).start = dist.start
      BY <1>0 DEF Shape, Fields, DeleteSlashEvents
    <3>3. QED BY <2>1, <3>1, <3>2 DEF Shape
  <2>4. stage \notin AfterSlashes
    BY <2>1 DEF AfterSlashes, AfterDelegations, AfterRedelegations,
         AfterUnbondings, AfterJail, AfterSigning
  <2>5. DistInv' /\ HeightsInv'
    BY <1>0, <2>1, <2>3, <2>4, Entering
  <2>6. QED BY <2>2, <2>5 DEF FreshInv
<1>6. CASE ClearHistorical
  <2>1. /\ stage = "historical" /\ Enter("validators") /\ dist' = DeleteHistorical(dist)
        /\ ctx' = 0
        /\ UNCHANGED <<zero, allowed, closes, dels, height, val, index, created, signing>>
    BY <1>6, Zenon DEF ClearHistorical, FreshHeight, request, staking
  <2>2. CourseInv'
    BY <2>1 DEF Enter, FreshInv, CourseInv
  <2>3. /\ Shape(dist)' /\ dist'.slashed = dist.slashed /\ dist'.start = dist.start
    <3>1. Shape(DeleteHistorical(dist)) /\ DeleteHistorical(dist).slashed = dist.slashed
      BY <1>0, Deleting
    <3>2. DeleteHistorical(dist).start = dist.start
      BY <1>0 DEF Shape, Fields, DeleteHistorical
    <3>3. QED BY <2>1, <3>1, <3>2 DEF Shape
  <2>4. stage \in AfterSlashes
    BY <2>1 DEF AfterSlashes
  <2>5. DistInv' /\ HeightsInv'
    BY <1>0, <2>1, <2>3, <2>4, Entering
  <2>6. QED BY <2>2, <2>5 DEF FreshInv
<1>7. CASE ApplyUpdates
  <2>1. /\ stage = "apply" /\ \E s \in {"panicked", "signing"} : Enter(s)
        /\ val' = val \/ val' = AppliedUpdates(val, index, ctx)
        /\ UNCHANGED <<zero, allowed, closes, dels, ctx, height, dist, index, created, signing>>
    BY <1>7 DEF ApplyUpdates, request
  <2>2. val' = val
    BY <2>1, Applying DEF SeatsInv
  <2>3. PICK s \in {"panicked", "signing"} : Enter(s)
    BY <2>1
  <2>4. CourseInv'
    BY <2>1, <2>3 DEF Enter, FreshInv, CourseInv
  <2>5. Shape(dist)' /\ stage \in AfterSlashes
    BY <1>0, <2>1 DEF Shape, AfterSlashes, AfterDelegations, AfterRedelegations,
         AfterUnbondings, AfterJail
  <2>6. DistInv' /\ HeightsInv'
    BY <1>0, <2>1, <2>2, <2>3, <2>5, Entering
  <2>7. QED BY <2>4, <2>6 DEF FreshInv
<1>8. CASE ExportGenesis
  <2>1. /\ stage = "export" /\ Enter("done")
        /\ UNCHANGED <<zero, allowed, closes, dels, ctx, height, dist, val, index, created, signing>>
    BY <1>8, Zenon DEF ExportGenesis, request, staking
  <2>2. CourseInv'
    BY <2>1 DEF Enter, FreshInv, CourseInv
  <2>3. Shape(dist)' /\ stage \in AfterSlashes
    BY <1>0, <2>1 DEF Shape, AfterSlashes, AfterDelegations, AfterRedelegations,
         AfterUnbondings, AfterJail, AfterSigning
  <2>4. DistInv' /\ HeightsInv'
    BY <1>0, <2>1, <2>3, Entering
  <2>5. QED BY <2>2, <2>4 DEF FreshInv
<1>9. ASSUME NEW s, NEW x, Visit(s, x), UNCHANGED <<zero, closes, dels, ctx, height>>
      PROVE  /\ CourseInv' /\ stage' = stage /\ stage = s
             /\ \A t, after, y : Visited(t, after, y)' =>
                  Visited(t, after, y) \/ (t = s /\ y = x)
  <2>1. stage' = stage /\ stage = s /\ todo' = todo \ {x}
    BY <1>9 DEF Visit
  <2>2. CourseInv'
    BY <1>9, <2>1 DEF FreshInv, CourseInv
  <2>3. \A t, after, y : Visited(t, after, y)' => Visited(t, after, y) \/ (t = s /\ y = x)
    BY <2>1 DEF Visited
  <2>4. QED BY <2>1, <2>2, <2>3
<1>10. ASSUME NEW s, NEW x, Visit(s, x), s # "delegations", Shape(dist)',
              UNCHANGED <<zero, closes, dels, ctx, height>>,
              \/ s \in {"commission", "rewards"}
              \/ dist'.start = dist.start /\ dist'.slashed = dist.slashed
       PROVE  DistInv'
  <2>1. /\ stage' = stage /\ stage = s
        /\ \A y : Visited("delegations", AfterDelegations, y)'
                    => Visited("delegations", AfterDelegations, y)
    BY <1>9, <1>10
  <2>2. CASE dist'.start = dist.start /\ dist'.slashed = dist.slashed
    BY <1>10, <2>1, <2>2 DEF FreshInv, DistInv
  <2>3. CASE s \in {"commission", "rewards"}
    <3>1. stage' \notin AfterSlashes /\ \A y : ~Visited("delegations", AfterDelegations, y)'
      BY <2>1, <2>3 DEF Visited, AfterSlashes, AfterDelegations, AfterRedelegations,
           AfterUnbondings, AfterJail, AfterSigning
    <3>2. QED BY <1>10, <3>1 DEF DistInv
  <2>4. QED BY <1>10, <2>2, <2>3
<1>11. ASSUME NEW s, NEW x, Visit(s, x),
              s \notin {"redelegations", "unbondings", "jail", "signing"},
              UNCHANGED <<zero, closes, dels, ctx, height, val, created, signing>>
       PROVE  HeightsInv'
  <2>1. \A t \in {"redelegations", "unbondings", "jail", "signing"} : \A after, y :
          Visited(t, after, y)' => Visited(t, after, y)
    BY <1>9, <1>11
  <2>2. QED BY <1>11, <2>1 DEF FreshInv, HeightsInv
<1>12. ASSUME NEW v \in Validators, WithdrawAllCommission(v)
       PROVE  FreshInv'
  <2>1. /\ Visit("commission", v) /\ dist' = WithdrawCommission(dist, v)
        /\ UNCHANGED <<zero, allowed, closes, dels, ctx, height, val, index, created, signing>>
    BY <1>12, Zenon DEF WithdrawAllCommission, request, staking
  <2>2. Shape(dist)'
    BY <1>0, <2>1, Commissions DEF Shape
  <2>3. QED BY <2>1, <2>2, <1>9, <1>10, <1>11 DEF FreshInv
<1>13. ASSUME NEW x \in dels, WithdrawAllRewards(x)
       PROVE  FreshInv'
  <2>1. /\ Visit("rewards", x) /\ dist' = WithdrawRewards(dist, x)
        /\ UNCHANGED <<zero, allowed, closes, dels, ctx, height, val, index, created, signing>>
    BY <1>13, Zenon DEF WithdrawAllRewards, request, staking
  <2>2. Shape(dist)'
    BY <1>0, <2>1, Withdrawing DEF Shape
  <2>3. QED BY <2>1, <2>2, <1>9, <1>10, <1>11 DEF FreshInv
<1>14. ASSUME NEW v \in Validators, ReinitializeValidator(v)
       PROVE  FreshInv'
  <2> DEFINE n == dist.pool + Scraps(dist, v)
             after == InitializeValidator([dist EXCEPT !.pool = n], v)
  <2>1. /\ Visit("validators", v) /\ dist' = after
        /\ UNCHANGED <<zero, allowed, closes, dels, ctx, height, val, index, created, signing>>
    BY <1>14, Zenon DEF ReinitializeValidator, request, staking
  <2>2. Shape(after) /\ after.start = dist.start /\ after.slashed = dist.slashed
    <3> HIDE DEF n
    <3>1. QED BY <1>0, Validating
  <2> HIDE DEF after
  <2>3. Shape(dist)' /\ dist'.start = dist.start /\ dist'.slashed = dist.slashed
    BY <2>1, <2>2 DEF Shape
  <2>4. QED BY <2>1, <2>3, <1>9, <1>10, <1>11 DEF FreshInv
<1>15. ASSUME NEW x \in dels, ReinitializeDelegation(x)
       PROVE  FreshInv'
  <2> DEFINE d == IncrementPeriod(dist, x[2])
             after == InitializeDelegation(d, x, ctx)
  <2>1. /\ Visit("delegations", x) /\ dist' = after
        /\ UNCHANGED <<zero, allowed, closes, dels, ctx, height, val, index, created, signing>>
    BY <1>15, Zenon DEF ReinitializeDelegation, request, staking
  <2>2. Shape(d) /\ d.start = dist.start /\ d.slashed = dist.slashed
    BY <1>0, Incrementing
  <2> HIDE DEF d
  <2>3. /\ Shape(after) /\ after.slashed = dist.slashed /\ after.start[x].height = ctx
        /\ \A y \in dels \ {x} : after.start[y] = dist.start[y]
    BY <2>2, Initializing
  <2> HIDE DEF after
  <2>4. /\ CourseInv' /\ HeightsInv' /\ stage' = stage /\ stage = "delegations"
        /\ \A y : Visited("delegations", AfterDelegations, y)' =>
             Visited("delegations", AfterDelegations, y) \/ y = x
    BY <2>1, <1>9, <1>11
  <2>5. ctx = 0
    BY <2>4 DEF FreshInv, CourseInv
  <2>6. DistInv'
    BY <2>1, <2>3, <2>4, <2>5 DEF FreshInv, DistInv, Shape
  <2>7. QED BY <2>4, <2>6 DEF FreshInv
<1>16. ASSUME NEW e \in Entries, ResetCreationHeight(e)
       PROVE  FreshInv'
  <2>1. PICK s \in {"redelegations", "unbondings"} : Visit(s, e)
    BY <1>16 DEF ResetCreationHeight
  <2>2. /\ created' = [created EXCEPT ![e] = 0]
        /\ UNCHANGED <<zero, allowed, closes, dels, ctx, height, dist, val, index, signing>>
    BY <1>16, Zenon DEF ResetCreationHeight, request
  <2>3. CourseInv' /\ DistInv'
    <3>1. Shape(dist)'
      BY <1>0, <2>2 DEF Shape
    <3>2. QED BY <2>1, <2>2, <3>1, <1>9, <1>10
  <2>4. /\ \A t, after, y : Visited(t, after, y)' => Visited(t, after, y) \/ y = e
        /\ \A t \in {"jail", "signing"} : \A after, y :
             Visited(t, after, y)' => Visited(t, after, y)
    BY <2>1, <2>2, <1>9
  <2>5. /\ created' \in [Entries -> Nat] /\ created'[e] = 0
        /\ \A y \in Entries \ {e} : created'[y] = created[y]
    BY <2>2 DEF FreshInv, HeightsInv
  <2>6. HeightsInv'
    BY <2>2, <2>4, <2>5 DEF FreshInv, HeightsInv
  <2>7. QED BY <2>3, <2>6 DEF FreshInv
<1>17. ASSUME NEW v \in Validators, ResetValidator(v)
       PROVE  FreshInv'
  <2>1. /\ Visit("jail", v) /\ val' = [val EXCEPT ![v] = Reset(@, Jails(v))]
        /\ UNCHANGED <<zero, allowed, closes, dels, ctx, height, dist, index, created, signing>>
    BY <1>17, Zenon DEF ResetValidator, request
  <2>2. CourseInv' /\ DistInv'
    <3>1. Shape(dist)'
      BY <1>0, <2>1 DEF Shape
    <3>2. QED BY <2>1, <3>1, <1>9, <1>10
  <2>3. /\ \A t, after, y : Visited(t, after, y)' =>
             Visited(t, after, y) \/ (t = "jail" /\ y = v)
    BY <2>1, <1>9
  <2>4. Reset(val[v], Jails(v)).unbondingHeight = 0
    <3>1. val[v] \in ValidatorRecords /\ Jails(v) \in BOOLEAN
      BY <1>0 DEF Jails
    <3>2. QED BY <3>1, Resetting, Zenon
  <2>5. /\ val'[v].unbondingHeight = 0
        /\ \A w \in Validators \ {v} : val'[w] = val[w]
    BY <1>0, <2>1, <2>4
  <2>6. HeightsInv'
    BY <1>0, <2>1, <2>3, <2>5 DEF FreshInv, HeightsInv
  <2>7. QED BY <2>2, <2>6 DEF FreshInv
<1>18. ASSUME NEW v \in Validators, ResetStartHeight(v)
       PROVE  FreshInv'
  <2>1. /\ Visit("signing", v) /\ signing' = [signing EXCEPT ![v] = 0]
        /\ UNCHANGED <<zero, allowed, closes, dels, ctx, height, dist, val, index, created>>
    BY <1>18, Zenon DEF ResetStartHeight, request, staking
  <2>2. CourseInv' /\ DistInv'
    <3>1. Shape(dist)'
      BY <1>0, <2>1 DEF Shape
    <3>2. QED BY <2>1, <3>1, <1>9, <1>10
  <2>3. /\ \A t, after, y : Visited(t, after, y)' =>
             Visited(t, after, y) \/ (t = "signing" /\ y = v)
    BY <2>1, <1>9
  <2>4. /\ signing' \in [Validators -> Nat] /\ signing'[v] = 0
        /\ \A w \in Validators \ {v} : signing'[w] = signing[w]
    BY <2>1 DEF FreshInv, HeightsInv
  <2>5. HeightsInv'
    <3>1. closes
      BY <2>1, <1>9 DEF FreshInv, CourseInv
    <3>2. QED BY <1>0, <2>1, <2>3, <2>4, <3>1 DEF FreshInv, HeightsInv
  <2>6. QED BY <2>2, <2>5 DEF FreshInv
<1>19. CASE CloseFails
  <2>1. /\ stage = "jail" /\ todo = {} /\ ~closes /\ Enter("export")
        /\ UNCHANGED <<zero, allowed, closes, dels, ctx, height, dist, val, index, created, signing>>
    BY <1>19, Zenon DEF CloseFails, request, staking
  <2>2. CourseInv'
    BY <2>1 DEF Enter, FreshInv, CourseInv
  <2>3. Shape(dist)' /\ stage \in AfterSlashes
    BY <1>0, <2>1 DEF Shape, AfterSlashes, AfterDelegations, AfterRedelegations,
         AfterUnbondings
  <2>4. DistInv' /\ HeightsInv'
    BY <1>0, <2>1, <2>3, Entering
  <2>5. QED BY <2>2, <2>4 DEF FreshInv
<1>20. QED
  BY <1>1, <1>2, <1>3, <1>4, <1>5, <1>6, <1>7, <1>8, <1>12, <1>13, <1>14, <1>15, <1>16,
     <1>17, <1>18, <1>19, Zenon DEF Next

(* FreshStart for any validators, delegations and powers: no step brings   *)
(* back a height of the old chain, and all that is left of it are the      *)
(* signing infos of an export whose iterator did not close.                *)
THEOREM NothingOfTheOldChain == Spec => []FreshStart
BY SeatsInvariant, FreshInit, FreshNext, Finished, PTL DEF Spec
---------------------------------------------------------------------------
(* What the money and the reference counts are invariants of               *)

Of(v) == {x \in dels : x[2] = v}
Most == 2 * Cardinality(Delegators) + 2

(* The reference counts in row, when cur is the current period and slash   *)
(* events refer to those in slashed, and the delegations in S hold one     *)
(* reference each, to the period they start at.                            *)
Class(S, start, p) == {x \in S : start[x].period = p}
Tally(row, cur, slashed, start, S) ==
  /\ \A p \in Periods :
       row[p] = Cardinality(Class(S, start, p)) + One(p = cur - 1) + One(p \in slashed)
  /\ cur > 0
  /\ \A x \in S : start[x].period \in 0 .. cur - 1
  /\ slashed \subseteq 0 .. cur - 1

Counts(D, v, S) == Tally(D.hist[v], D.cur[v], D.slashed[v], D.start, S)

AllPeriods(D) ==
  /\ D.cur \in [Validators -> Nat]
  /\ D.hist \in [Validators -> [Periods -> Nat]]
  /\ D.slashed \in [Validators -> SUBSET Periods]
  /\ D.start \in [dels -> [period : Periods, height : {0, LastHeight}]]

AllMoney(D) ==
  /\ D.out \in [Validators -> Nat] /\ D.com \in [Validators -> Nat] /\ D.due \in [dels -> Nat]
  /\ D.pool \in Nat /\ D.bank \in Nat /\ D.paid \in Nat /\ D.lost \in Nat

(* The delegations that hold a reference, and those for which a period is  *)
(* still to end.                                                           *)
Holding(v) == IF stage = "delegations" THEN Of(v) \ todo ELSE Of(v)
Ending(v) ==
  IF stage \in {"begin", "assert", "commission"} THEN Of(v)
  ELSE IF stage \in {"rewards", "delegations"} THEN Of(v) \cap todo ELSE {}


(* Between the calls each row of counts is the tally of who refers to it,  *)
(* and the current period leaves room for those that are still to end.     *)
(* While the infos are rebuilt only the visited part of them counts.       *)
PeriodsInv ==
  /\ AllPeriods(dist)
  /\ \A v \in Validators : dist.cur[v] + Cardinality(Ending(v)) <= Most /\ dist.cur[v] > 0
  /\ stage \notin {"historical", "validators"} =>
       \A v \in Validators : Counts(dist, v, Holding(v))
  /\ stage = "validators" =>
       \A v \in Validators :
         /\ dist.hist[v] = [p \in Periods |-> One(v \notin todo /\ p = 0)]
         /\ v \notin todo => dist.cur[v] = 1

AfterValidators == {"delegations"} \cup AfterDelegations

(* The balance is accounted for: by the pool, by what is outstanding, and  *)
(* by the commissions that were refused.  What is outstanding of a         *)
(* validator covers its shares, and no scraps are left where they have     *)
(* been donated.                                                           *)
Accounted(D) == D.bank = D.pool + Total(D.out) + D.lost

MoneyInv ==
  /\ AllMoney(dist)
  /\ Accounted(dist) /\ CanWithdraw(dist)
  /\ zero => \A v \in Validators : Visited("validators", AfterValidators, v) => dist.out[v] = 0
---------------------------------------------------------------------------
(* x/distribution: what its calls change                                   *)

(* A row of reference counts when a period ends, and what a call leaves.   *)
Ended(row, p) == [[row EXCEPT ![p - 1] = row[p - 1] - 1] EXCEPT ![p] = 1]
More(row, p) == [row EXCEPT ![p] = row[p] + 1]
Less(row, p) == [row EXCEPT ![p] = row[p] - 1]
SameMoney(D, E) ==
  /\ E.out = D.out /\ E.com = D.com /\ E.due = D.due
  /\ E.pool = D.pool /\ E.bank = D.bank /\ E.paid = D.paid /\ E.lost = D.lost
SamePeriods(D, E) ==
  E.cur = D.cur /\ E.hist = D.hist /\ E.slashed = D.slashed /\ E.start = D.start

(* E is D after the call.                                                  *)
AfterIncrement(D, v, E) ==
  /\ SameMoney(D, E) /\ E.slashed = D.slashed /\ E.start = D.start
  /\ E.cur = [D.cur EXCEPT ![v] = D.cur[v] + 1]
  /\ v \in DOMAIN D.hist => E.hist = [D.hist EXCEPT ![v] = Ended(D.hist[v], D.cur[v])]

AfterInitialize(D, x, h, E) ==
  LET p == D.cur[x[2]] - 1
  IN /\ SameMoney(D, E) /\ E.slashed = D.slashed /\ E.cur = D.cur
     /\ E.start = [D.start EXCEPT ![x] = [period |-> p, height |-> h]]
     /\ E.hist = [D.hist EXCEPT ![x[2]] = More(D.hist[x[2]], p)]

AfterCommission(D, v, E) ==
  LET coins == Whole(D.com[v])
  IN /\ SamePeriods(D, E) /\ E.due = D.due /\ E.pool = D.pool
     /\ E.com = [D.com EXCEPT ![v] = D.com[v] - coins]
     /\ E.out = [D.out EXCEPT ![v] = D.out[v] - coins]
     /\ E.bank = D.bank - Sent(D, v) /\ E.paid = D.paid + Sent(D, v)
     /\ E.lost = D.lost + (coins - Sent(D, v))

AfterPaying(D, x, d, E) ==
  LET coins == Whole(D.due[x])
  IN /\ Shape(E) /\ E.com = D.com /\ E.due = [D.due EXCEPT ![x] = 0]
     /\ E.out = [D.out EXCEPT ![x[2]] = D.out[x[2]] - D.due[x]]
     /\ E.pool = D.pool + (D.due[x] - coins)
     /\ E.bank = D.bank - coins /\ E.paid = D.paid + coins /\ E.lost = D.lost
     /\ E.cur = d.cur /\ E.slashed = D.slashed /\ E.start = D.start
     /\ E.hist = [d.hist EXCEPT ![x[2]] = Less(d.hist[x[2]], D.start[x].period)]

AfterValidator(D, v, n, E) ==
  /\ E.slashed = D.slashed /\ E.start = D.start
  /\ E.pool = n /\ E.bank = D.bank /\ E.paid = D.paid /\ E.lost = D.lost
  /\ E.cur = [D.cur EXCEPT ![v] = 1]
  /\ E.hist = [D.hist EXCEPT ![v] = [D.hist[v] EXCEPT ![0] = 1]]
  /\ E.com = [D.com EXCEPT ![v] = 0]
  /\ E.out = [D.out EXCEPT ![v] = 0]
  /\ E.due = [x \in DOMAIN D.due |-> IF x[2] = v THEN 0 ELSE D.due[x]]

LEMMA IncrementChanges ==
  ASSUME NEW D, Shape(D), NEW v
  PROVE  AfterIncrement(D, v, IncrementPeriod(D, v))
<1> DEFINE p == D.cur[v]
           a == D.hist[v][p - 1] - 1
           b == p + 1
           D1 == [D EXCEPT !.hist[v][p - 1] = a, !.hist[v][p] = 1, !.cur[v] = b]
           A == [D EXCEPT !.hist[v][p - 1] = a]
           B == [A EXCEPT !.hist[v][p] = 1]
<1>1. IncrementPeriod(D, v) = D1
  BY Zenon DEF IncrementPeriod
<1>2. D1 = [B EXCEPT !.cur[v] = b]
  BY Zenon
<1> HIDE DEF a, b, p
<1>3. /\ Shape(A) /\ SameMoney(D, A) /\ A.slashed = D.slashed /\ A.start = D.start
      /\ A.cur = D.cur
      /\ A.hist = [D.hist EXCEPT ![v] = [D.hist[v] EXCEPT ![p - 1] = a]]
  BY DEF Shape, Fields, SameMoney
<1> HIDE DEF A
<1>4. /\ Shape(B) /\ SameMoney(A, B) /\ B.slashed = A.slashed /\ B.start = A.start
      /\ B.cur = A.cur
      /\ B.hist = [A.hist EXCEPT ![v] = [A.hist[v] EXCEPT ![p] = 1]]
  BY <1>3 DEF Shape, Fields, SameMoney
<1> HIDE DEF B, D1
<1>5. /\ SameMoney(B, D1) /\ D1.slashed = B.slashed /\ D1.start = B.start
      /\ D1.hist = B.hist /\ D1.cur = [B.cur EXCEPT ![v] = b]
  BY <1>2, <1>4 DEF Shape, Fields, SameMoney
<1>6. v \in DOMAIN D.hist => D1.hist = [D.hist EXCEPT ![v] = Ended(D.hist[v], p)]
  BY <1>3, <1>4, <1>5 DEF Ended, a, p
<1>7. SameMoney(D, D1) /\ D1.slashed = D.slashed /\ D1.start = D.start
      /\ D1.cur = [D.cur EXCEPT ![v] = D.cur[v] + 1]
  BY <1>3, <1>4, <1>5 DEF SameMoney, b, p
<1>8. QED BY <1>1, <1>6, <1>7 DEF p, AfterIncrement

LEMMA InitializeChanges ==
  ASSUME NEW D, Shape(D), NEW x, NEW h
  PROVE  AfterInitialize(D, x, h, InitializeDelegation(D, x, h))
<1> DEFINE p == D.cur[x[2]] - 1
           n == D.hist[x[2]][p] + 1
           r == [period |-> p, height |-> h]
           E == [D EXCEPT !.hist[x[2]][p] = n, !.start[x] = r]
<1>1. InitializeDelegation(D, x, h) = E
  BY Zenon DEF InitializeDelegation
<1> HIDE DEF p, n, r
<1>2. /\ SameMoney(D, E) /\ E.slashed = D.slashed /\ E.cur = D.cur
      /\ E.start = [D.start EXCEPT ![x] = r]
      /\ E.hist = [D.hist EXCEPT ![x[2]] = [D.hist[x[2]] EXCEPT ![p] = n]]
  BY DEF Shape, Fields, SameMoney
<1> HIDE DEF E
<1>3. QED BY <1>1, <1>2, Zenon DEF p, n, r, More, AfterInitialize

LEMMA CommissionChanges ==
  ASSUME NEW D, Shape(D), NEW v
  PROVE  AfterCommission(D, v, WithdrawCommission(D, v))
<1> DEFINE coins == Whole(D.com[v])
           c == D.com[v] - coins
           o == D.out[v] - coins
           b == D.bank - Sent(D, v)
           q == D.paid + Sent(D, v)
           l == D.lost + (coins - Sent(D, v))
           E == [D EXCEPT !.com[v] = c, !.out[v] = o, !.bank = b, !.paid = q, !.lost = l]
<1>1. WithdrawCommission(D, v) = E
  BY Zenon DEF WithdrawCommission
<1> HIDE DEF coins, c, o, b, q, l
<1>2. /\ SamePeriods(D, E) /\ E.due = D.due /\ E.pool = D.pool
      /\ E.com = [D.com EXCEPT ![v] = c] /\ E.out = [D.out EXCEPT ![v] = o]
      /\ E.bank = b /\ E.paid = q /\ E.lost = l
  BY DEF Shape, Fields, SamePeriods
<1> HIDE DEF E
<1>3. QED BY <1>1, <1>2, Zenon DEF coins, c, o, b, q, l, AfterCommission

LEMMA ValidatorChanges ==
  ASSUME NEW D, Shape(D), NEW v, NEW n
  PROVE  AfterValidator(D, v, n, InitializeValidator([D EXCEPT !.pool = n], v))
BY DEF Shape, Fields, InitializeValidator, AfterValidator

LEMMA DeletingChanges ==
  ASSUME NEW D, Shape(D)
  PROVE  /\ SameMoney(D, DeleteSlashEvents(D)) /\ SameMoney(D, DeleteHistorical(D))
         /\ DeleteSlashEvents(D).slashed = [v \in Validators |-> {}]
         /\ DeleteSlashEvents(D).cur = D.cur /\ DeleteSlashEvents(D).hist = D.hist
         /\ DeleteSlashEvents(D).start = D.start
         /\ DeleteHistorical(D).hist = [v \in Validators |-> [p \in Periods |-> 0]]
         /\ DeleteHistorical(D).cur = D.cur /\ DeleteHistorical(D).start = D.start
         /\ DeleteHistorical(D).slashed = D.slashed
BY DEF Shape, Fields, SameMoney, DeleteSlashEvents, DeleteHistorical

(* What a withdrawal pays, between the end of a period and the start of    *)
(* the delegation's next one.                                              *)
PaidOut(D, x) ==
  LET d == IncrementPeriod(D, x[2])
      coins == Whole(D.due[x])
  IN [d EXCEPT !.out[x[2]] = @ - D.due[x], !.pool = @ + (D.due[x] - coins),
               !.bank = @ - coins, !.paid = @ + coins, !.due[x] = 0,
               !.hist[x[2]][D.start[x].period] = @ - 1]

LEMMA PayingChanges ==
  ASSUME NEW D, Shape(D), NEW x
  PROVE  AfterPaying(D, x, IncrementPeriod(D, x[2]), PaidOut(D, x))
<1> DEFINE d == IncrementPeriod(D, x[2])
           coins == Whole(D.due[x])
           o == d.out[x[2]] - D.due[x]
           p == d.pool + (D.due[x] - coins)
           b == d.bank - coins
           q == d.paid + coins
           n == D.start[x].period
           r == d.hist[x[2]][n] - 1
           E == [d EXCEPT !.out[x[2]] = o, !.pool = p, !.bank = b, !.paid = q,
                          !.due[x] = 0, !.hist[x[2]][n] = r]
<1>1. PaidOut(D, x) = E
  BY Zenon DEF PaidOut
<1>2. Shape(d) /\ SameMoney(D, d) /\ d.slashed = D.slashed /\ d.start = D.start
  BY Incrementing, IncrementChanges, Zenon DEF AfterIncrement
<1> HIDE DEF d, coins, o, p, b, q, n, r
<1>3. /\ Shape(E) /\ E.com = d.com /\ E.due = [d.due EXCEPT ![x] = 0]
      /\ E.out = [d.out EXCEPT ![x[2]] = o] /\ E.pool = p /\ E.bank = b /\ E.paid = q
      /\ E.lost = d.lost
      /\ E.cur = d.cur /\ E.slashed = d.slashed /\ E.start = d.start
      /\ E.hist = [d.hist EXCEPT ![x[2]] = [d.hist[x[2]] EXCEPT ![n] = r]]
  BY <1>2 DEF Shape, Fields
<1>4. /\ o = D.out[x[2]] - D.due[x] /\ p = D.pool + (D.due[x] - coins)
      /\ b = D.bank - coins /\ q = D.paid + coins
  BY <1>2, Zenon DEF SameMoney, o, p, b, q
<1> HIDE DEF E
<1>5. /\ Shape(E) /\ E.com = D.com /\ E.due = [D.due EXCEPT ![x] = 0]
      /\ E.out = [D.out EXCEPT ![x[2]] = o] /\ E.pool = p /\ E.bank = b /\ E.paid = q
      /\ E.lost = D.lost
      /\ E.cur = d.cur /\ E.slashed = D.slashed /\ E.start = D.start
      /\ E.hist = [d.hist EXCEPT ![x[2]] = [d.hist[x[2]] EXCEPT ![n] = r]]
  BY <1>2, <1>3, Zenon DEF SameMoney
<1>6. QED BY <1>1, <1>4, <1>5, Zenon DEF d, coins, n, r, Less, AfterPaying

LEMMA WithdrawalChanges ==
  ASSUME NEW D, NEW x
  PROVE  WithdrawRewards(D, x) \in
           {IncrementPeriod(D, x[2]), InitializeDelegation(PaidOut(D, x), x, ctx)}
BY Zenon DEF WithdrawRewards, PaidOut
---------------------------------------------------------------------------
(* Counting references                                                     *)

LEMMA Classes ==
  ASSUME NEW S, IsFiniteSet(S), NEW start, NEW p
  PROVE  /\ IsFiniteSet(Class(S, start, p)) /\ Cardinality(Class(S, start, p)) \in Nat
         /\ (Cardinality(Class(S, start, p)) = 0) <=> (\A x \in S : start[x].period # p)
<1> DEFINE A == Class(S, start, p)
<1>1. IsFiniteSet(A)
  BY FS_Subset DEF Class
<1>2. Cardinality(A) \in Nat /\ (Cardinality(A) = 0 <=> A = {})
  BY <1>1, FS_CardinalityType, FS_EmptySet
<1>3. A = {} <=> \A x \in S : start[x].period # p
  BY DEF Class
<1>4. QED BY <1>1, <1>2, <1>3

LEMMA BoundPeriods ==
  Most \in Nat /\ Periods = 0 .. Most /\ Periods \subseteq Nat /\ IsFiniteSet(Periods)
<1>1. Cardinality(Delegators) \in Nat
  BY DelegatorsAssumption, FS_CardinalityType
<1>2. Most \in Int /\ 0 \in Int /\ Periods = 0 .. Most /\ Most \in Nat
  BY <1>1 DEF Most, Periods
<1> HIDE DEF Most, Periods
<1>3. IsFiniteSet(Periods)
  BY <1>2, FS_Interval
<1>4. QED BY <1>2, <1>3

(* A period ends: the reference of being current moves on.                 *)
LEMMA TallyEnded ==
  ASSUME NEW S, IsFiniteSet(S), NEW start, NEW row \in [Periods -> Nat],
         NEW cur \in Periods, NEW slashed \in SUBSET Periods,
         Tally(row, cur, slashed, start, S)
  PROVE  /\ Tally(Ended(row, cur), cur + 1, slashed, start, S)
         /\ Ended(row, cur) \in [Periods -> Nat]
<1> DEFINE new == Ended(row, cur)
           size(p) == Cardinality(Class(S, start, p))
<1>1. cur \in Nat /\ cur > 0 /\ cur - 1 \in Periods /\ cur - 1 # cur
  BY BoundPeriods DEF Tally
<1>2. \A p \in Periods : new[p] = IF p = cur THEN 1
                                  ELSE IF p = cur - 1 THEN row[p] - 1 ELSE row[p]
  BY <1>1 DEF Ended
<1>3. \A p \in Periods : row[p] = size(p) + One(p = cur - 1) + One(p \in slashed)
  BY DEF Tally
<1>4. \A p \in Periods : size(p) \in Nat
  BY Classes
<1>5. size(cur) = 0 /\ cur \notin slashed
  <2>1. \A x \in S : start[x].period # cur
    BY <1>1 DEF Tally
  <2>2. cur \notin slashed
    BY <1>1 DEF Tally
  <2>3. QED BY <2>1, <2>2, Classes
<1> HIDE DEF size, new
<1>6. ASSUME NEW p \in Periods
      PROVE  /\ new[p] = size(p) + One(p = (cur + 1) - 1) + One(p \in slashed)
             /\ new[p] \in Nat
  <2>1. size(p) \in Nat /\ One(p \in slashed) \in Nat /\ (cur + 1) - 1 = cur
    BY <1>1, <1>4 DEF One
  <2>2. CASE p = cur
    BY <1>2, <1>5, <2>1, <2>2 DEF One
  <2>3. CASE p = cur - 1
    <3>1. One(p = cur - 1) = 1 /\ One(p = cur) = 0 /\ new[p] = row[p] - 1
      BY <1>1, <1>2, <2>3 DEF One
    <3>2. row[p] = size(p) + 1 + One(p \in slashed)
      BY <1>3, <3>1
    <3> HIDE DEF One
    <3>3. QED BY <2>1, <3>1, <3>2
  <2>4. CASE p # cur /\ p # cur - 1
    <3>1. One(p = cur - 1) = 0 /\ One(p = cur) = 0 /\ new[p] = row[p]
      BY <1>2, <2>4 DEF One
    <3>2. QED BY <1>3, <2>1, <3>1
  <2>5. QED BY <2>2, <2>3, <2>4
<1>7. new \in [Periods -> Nat]
  BY <1>6 DEF new, Ended
<1>8. /\ cur + 1 > 0 /\ \A x \in S : start[x].period \in 0 .. (cur + 1) - 1
      /\ slashed \subseteq 0 .. (cur + 1) - 1
  BY <1>1 DEF Tally
<1>9. QED BY <1>6, <1>7, <1>8, Zenon DEF Tally, size, new

(* A delegation starts at the period just ended.                           *)
LEMMA TallyStarted ==
  ASSUME NEW S, IsFiniteSet(S), NEW start, NEW row \in [Periods -> Nat],
         NEW cur \in Nat, cur - 1 \in Periods, NEW slashed \in SUBSET Periods,
         Tally(row, cur, slashed, start, S), NEW x, x \notin S, NEW later,
         later[x].period = cur - 1, \A y \in S : later[y] = start[y]
  PROVE  /\ Tally(More(row, cur - 1), cur, slashed, later, S \cup {x})
         /\ More(row, cur - 1) \in [Periods -> Nat]
<1> DEFINE new == More(row, cur - 1)
           size(p) == Cardinality(Class(S, start, p))
<1>1. \A p \in Periods : new[p] = IF p = cur - 1 THEN row[p] + 1 ELSE row[p]
  BY DEF More
<1>2. ASSUME NEW p \in Periods
      PROVE  /\ Cardinality(Class(S \cup {x}, later, p)) = size(p) + One(p = cur - 1)
             /\ size(p) \in Nat
  <2>1. IsFiniteSet(Class(S, start, p)) /\ size(p) \in Nat
    BY Classes
  <2>2. CASE p = cur - 1
    <3>1. Class(S \cup {x}, later, p) = Class(S, start, p) \cup {x}
          /\ x \notin Class(S, start, p)
      BY <2>2 DEF Class
    <3>2. QED BY <2>1, <2>2, <3>1, FS_AddElement DEF One
  <2>3. CASE p # cur - 1
    <3>1. Class(S \cup {x}, later, p) = Class(S, start, p)
      BY <2>3 DEF Class
    <3>2. QED BY <2>1, <2>3, <3>1 DEF One
  <2>4. QED BY <2>2, <2>3
<1>3. \A p \in Periods : row[p] = size(p) + One(p = cur - 1) + One(p \in slashed)
  BY DEF Tally
<1> HIDE DEF size
<1>4. ASSUME NEW p \in Periods
      PROVE  new[p] = Cardinality(Class(S \cup {x}, later, p))
                      + One(p = cur - 1) + One(p \in slashed)
  <2> HIDE DEF new
  <2>1. new[p] = row[p] + One(p = cur - 1)
    BY <1>1 DEF One
  <2>2. One(p = cur - 1) \in Nat /\ One(p \in slashed) \in Nat /\ size(p) \in Nat
    BY <1>2 DEF One
  <2>3. row[p] = size(p) + One(p = cur - 1) + One(p \in slashed)
    BY <1>3
  <2> DEFINE a == One(p = cur - 1)
             b == One(p \in slashed)
  <2> HIDE DEF a, b
  <2>4. a \in Nat /\ b \in Nat /\ new[p] = size(p) + a + b + a
    BY <2>1, <2>2, <2>3 DEF a, b
  <2>5. new[p] = (size(p) + a) + a + b
    BY <2>2, <2>4
  <2>6. QED BY <1>2, <2>5, Zenon DEF a, b
<1>5. new \in [Periods -> Nat]
  BY <1>1 DEF More
<1>6. \A y \in S \cup {x} : later[y].period \in 0 .. cur - 1
  <2>1. cur - 1 \in 0 .. cur - 1
    BY DEF Tally
  <2>2. QED BY <2>1 DEF Tally
<1>7. QED BY <1>4, <1>5, <1>6, Zenon DEF Tally

(* A delegation gives its reference up.                                    *)
LEMMA TallyReleased ==
  ASSUME NEW S, IsFiniteSet(S), NEW start, NEW row \in [Periods -> Nat],
         NEW cur \in Nat, NEW slashed \in SUBSET Periods,
         Tally(row, cur, slashed, start, S), NEW x \in S, start[x].period \in Periods
  PROVE  /\ Tally(Less(row, start[x].period), cur, slashed, start, S \ {x})
         /\ Less(row, start[x].period) \in [Periods -> Nat]
<1> DEFINE n == start[x].period
           new == Less(row, n)
           size(p) == Cardinality(Class(S, start, p))
           later(p) == Cardinality(Class(S \ {x}, start, p))
<1>0. n \in Periods
  OBVIOUS
<1>1. \A p \in Periods : new[p] = IF p = n THEN row[p] - 1 ELSE row[p]
  BY DEF Less
<1>2. ASSUME NEW p \in Periods
      PROVE  size(p) = later(p) + One(p = n) /\ later(p) \in Nat
  <2>1. IsFiniteSet(Class(S \ {x}, start, p)) /\ later(p) \in Nat
    <3>1. IsFiniteSet(S \ {x})
      BY FS_RemoveElement
    <3>2. QED BY <3>1, Classes
  <2>2. CASE p = n
    <3>1. Class(S, start, p) = Class(S \ {x}, start, p) \cup {x}
          /\ x \notin Class(S \ {x}, start, p)
      BY <2>2 DEF Class
    <3>2. QED BY <2>1, <2>2, <3>1, FS_AddElement DEF One
  <2>3. CASE p # n
    <3>1. Class(S, start, p) = Class(S \ {x}, start, p)
      BY <2>3 DEF Class
    <3>2. QED BY <2>1, <2>3, <3>1 DEF One
  <2>4. QED BY <2>2, <2>3
<1>3. \A p \in Periods : row[p] = size(p) + One(p = cur - 1) + One(p \in slashed)
  BY DEF Tally
<1> HIDE DEF size, later, n
<1>4. ASSUME NEW p \in Periods
      PROVE  /\ new[p] = later(p) + One(p = cur - 1) + One(p \in slashed)
             /\ new[p] \in Nat
  <2> HIDE DEF new
  <2>1. QED BY <1>1, <1>2, <1>3 DEF One
<1>5. new \in [Periods -> Nat]
  BY <1>4 DEF Less
<1>6. \A y \in S \ {x} : start[y].period \in 0 .. cur - 1
  BY DEF Tally
<1>7. QED BY <1>4, <1>5, <1>6, Zenon DEF Tally, later, n

(* The counts add up to the number of references.                          *)
LEMMA TallyTotal ==
  ASSUME NEW S, IsFiniteSet(S), NEW start, NEW row \in [Periods -> Nat],
         NEW cur \in Nat, cur - 1 \in Periods, NEW slashed \in SUBSET Periods,
         Tally(row, cur, slashed, start, S), \A x \in S : start[x].period \in Periods
  PROVE  /\ Total(row) = 1 + Cardinality(S) + Cardinality(slashed)
         /\ row[cur - 1] > 0 /\ \A x \in S : row[start[x].period] > 0
<1> DEFINE Current(p) == {q \in {cur - 1} : q = p}
           Slash(p) == {q \in slashed : q = p}
           f == [p \in Periods |-> Cardinality(Class(S, start, p))]
           g == [p \in Periods |-> Cardinality(Current(p))]
           h == [p \in Periods |-> Cardinality(Slash(p))]
           fg == [p \in Periods |-> f[p] + g[p]]
<1>1. IsFiniteSet(Periods) /\ IsFiniteSet(slashed)
  BY BoundPeriods, FS_Subset
<1>2. \A p \in Periods : f[p] \in Nat
  BY Classes
<1>3. \A p \in Periods : g[p] = One(p = cur - 1)
  <2>1. SUFFICES ASSUME NEW p \in Periods PROVE Cardinality(Current(p)) = One(p = cur - 1)
    OBVIOUS
  <2>2. Current(p) = IF p = cur - 1 THEN {cur - 1} ELSE {}
    OBVIOUS
  <2> HIDE DEF Current
  <2>3. QED BY <2>2, FS_EmptySet, FS_Singleton DEF One
<1>4. \A p \in Periods : h[p] = One(p \in slashed)
  <2>1. SUFFICES ASSUME NEW p \in Periods PROVE Cardinality(Slash(p)) = One(p \in slashed)
    OBVIOUS
  <2>2. Slash(p) = IF p \in slashed THEN {p} ELSE {}
    OBVIOUS
  <2> HIDE DEF Slash
  <2>3. QED BY <2>2, FS_EmptySet, FS_Singleton DEF One
<1>5. SumFunctionOnSet(f, Periods) = Cardinality(S)
  <2> DEFINE k == [x \in S |-> start[x].period]
  <2>1. f = [p \in Periods |-> Cardinality({x \in S : k[x] = p})]
    BY DEF Class
  <2>2. \A x \in S : k[x] \in Periods
    OBVIOUS
  <2> HIDE DEF f, k
  <2>3. QED BY <1>1, <2>1, <2>2, ClassesAddUp
<1>6. SumFunctionOnSet(g, Periods) = 1
  <2> DEFINE k == [x \in {cur - 1} |-> x]
  <2>1. g = [p \in Periods |-> Cardinality({x \in {cur - 1} : k[x] = p})]
    OBVIOUS
  <2>2. \A x \in {cur - 1} : k[x] \in Periods
    OBVIOUS
  <2>3. IsFiniteSet({cur - 1}) /\ Cardinality({cur - 1}) = 1
    BY FS_Singleton
  <2> HIDE DEF g, k
  <2>4. SumFunctionOnSet(g, Periods) = Cardinality({cur - 1})
    BY <1>1, <2>1, <2>2, <2>3, ClassesAddUp
  <2>5. QED BY <2>3, <2>4
<1>7. SumFunctionOnSet(h, Periods) = Cardinality(slashed)
  <2> DEFINE k == [x \in slashed |-> x]
  <2>1. h = [p \in Periods |-> Cardinality({x \in slashed : k[x] = p})]
    OBVIOUS
  <2>2. \A x \in slashed : k[x] \in Periods
    OBVIOUS
  <2> HIDE DEF h, k
  <2>3. QED BY <1>1, <2>1, <2>2, ClassesAddUp
<1>8. \A p \in Periods : row[p] = f[p] + One(p = cur - 1) + One(p \in slashed)
  BY DEF Tally
<1>9. \A p \in Periods : /\ g[p] \in Nat /\ h[p] \in Nat /\ fg[p] \in Nat
                         /\ fg[p] = f[p] + g[p] /\ row[p] = fg[p] + h[p]
  <2> HIDE DEF f, g, h
  <2>1. QED BY <1>2, <1>3, <1>4, <1>8 DEF One
<1> HIDE DEF f, g, h, fg
<1>10. SumFunctionOnSet(fg, Periods) = Cardinality(S) + 1
  BY <1>1, <1>2, <1>5, <1>6, <1>9, SumPlus
<1>11. SumFunctionOnSet(row, Periods) = (Cardinality(S) + 1) + Cardinality(slashed)
  BY <1>1, <1>7, <1>9, <1>10, SumPlus
<1>12. Total(row) = 1 + Cardinality(S) + Cardinality(slashed)
  <2>1. DOMAIN row = Periods
    OBVIOUS
  <2>2. Cardinality(S) \in Nat /\ Cardinality(slashed) \in Nat
    BY <1>1, FS_CardinalityType
  <2>3. QED BY <1>11, <2>1, <2>2 DEF Total, SumFunction
<1>13. row[cur - 1] > 0
  BY <1>2, <1>8 DEF One
<1>14. ASSUME NEW x \in S PROVE row[start[x].period] > 0
  <2>1. Cardinality(Class(S, start, start[x].period)) \in Nat \ {0}
    BY Classes
  <2>2. f[start[x].period] > 0
    BY <2>1 DEF f
  <2>3. QED BY <1>2, <1>8, <2>2 DEF One
<1>15. QED BY <1>12, <1>13, <1>14
---------------------------------------------------------------------------
(* What the calls of x/distribution do to the counts                       *)

LEMMA Delegating ==
  ASSUME dels \subseteq Pairs
  PROVE  /\ IsFiniteSet(dels)
         /\ \A x \in dels : x = <<x[1], x[2]>> /\ x[1] \in Delegators /\ x[2] \in Validators
         /\ \A v \in Validators :
              /\ Of(v) \subseteq dels /\ IsFiniteSet(Of(v))
              /\ Cardinality(Of(v)) \in Nat
              /\ Cardinality(Of(v)) <= Cardinality(Delegators)
<1>1. IsFiniteSet(dels)
  BY DelegatorsAssumption, ValidatorsAssumption, FS_Product, FS_Subset DEF Pairs
<1>2. \A x \in dels : x = <<x[1], x[2]>> /\ x[1] \in Delegators /\ x[2] \in Validators
  BY DEF Pairs
<1>3. ASSUME NEW v \in Validators
      PROVE  /\ Of(v) \subseteq dels /\ IsFiniteSet(Of(v))
             /\ Cardinality(Of(v)) \in Nat
             /\ Cardinality(Of(v)) <= Cardinality(Delegators)
  <2> DEFINE f == [x \in Of(v) |-> x[1]]
  <2>1. Of(v) \subseteq dels /\ IsFiniteSet(Of(v))
    BY <1>1, FS_Subset DEF Of
  <2>2. f \in [Of(v) -> Delegators]
    BY <1>2, <2>1
  <2>3. \A x, y \in Of(v) : f[x] = f[y] => x = y
    BY <1>2 DEF Of
  <2>4. f \in Injection(Of(v), Delegators)
    BY <2>2, <2>3 DEF Injection, IsInjective
  <2> HIDE DEF f
  <2>5. QED BY <2>1, <2>4, DelegatorsAssumption, FS_Injection, FS_CardinalityType
<1>4. QED BY <1>1, <1>2, <1>3

LEMMA CountsElsewhere ==
  ASSUME NEW D, NEW E, NEW v, NEW S, Counts(D, v, S), E.hist[v] = D.hist[v],
         E.cur[v] = D.cur[v], E.slashed[v] = D.slashed[v],
         \A x \in S : E.start[x] = D.start[x]
  PROVE  Counts(E, v, S)
<1>1. \A p \in Periods : Class(S, E.start, p) = Class(S, D.start, p)
  BY DEF Class
<1>2. QED BY <1>1 DEF Counts, Tally

LEMMA EndPeriod ==
  ASSUME NEW D, Shape(D), AllPeriods(D), NEW v \in Validators, D.cur[v] \in Periods,
         NEW S, IsFiniteSet(S), Counts(D, v, S)
  PROVE  LET E == IncrementPeriod(D, v) IN
         /\ AllPeriods(E) /\ Counts(E, v, S) /\ E.cur[v] = D.cur[v] + 1
         /\ \A w \in Validators \ {v} : E.hist[w] = D.hist[w] /\ E.cur[w] = D.cur[w]
<1> DEFINE E == IncrementPeriod(D, v)
<1>1. AfterIncrement(D, v, E)
  BY IncrementChanges, Zenon
<1> HIDE DEF E
<1>2. Tally(Ended(D.hist[v], D.cur[v]), D.cur[v] + 1, D.slashed[v], D.start, S)
      /\ Ended(D.hist[v], D.cur[v]) \in [Periods -> Nat]
  <2>1. D.hist[v] \in [Periods -> Nat] /\ D.slashed[v] \in SUBSET Periods
    BY DEF AllPeriods
  <2>2. QED BY <2>1, TallyEnded, Zenon DEF Counts
<1>3. /\ E.hist = [D.hist EXCEPT ![v] = Ended(D.hist[v], D.cur[v])]
      /\ E.hist[v] = Ended(D.hist[v], D.cur[v]) /\ E.cur[v] = D.cur[v] + 1
      /\ \A w \in Validators \ {v} : E.hist[w] = D.hist[w] /\ E.cur[w] = D.cur[w]
  BY <1>1 DEF AllPeriods, AfterIncrement
<1>4. AllPeriods(E)
  BY <1>1, <1>2, <1>3 DEF AllPeriods, AfterIncrement
<1>5. Counts(E, v, S)
  BY <1>1, <1>2, <1>3, Zenon DEF Counts, AfterIncrement
<1>6. QED BY <1>3, <1>4, <1>5, Zenon DEF E

LEMMA StartPeriod ==
  ASSUME NEW D, Shape(D), AllPeriods(D), NEW x \in dels, x[2] \in Validators,
         NEW h \in {0, LastHeight}, D.cur[x[2]] - 1 \in Periods,
         NEW S \in SUBSET dels, IsFiniteSet(S), x \notin S, Counts(D, x[2], S)
  PROVE  LET E == InitializeDelegation(D, x, h) IN
         /\ AllPeriods(E) /\ Counts(E, x[2], S \cup {x})
         /\ E.cur = D.cur /\ E.slashed = D.slashed
         /\ \A w \in Validators \ {x[2]} : E.hist[w] = D.hist[w]
         /\ \A y \in dels \ {x} : E.start[y] = D.start[y]
<1> DEFINE E == InitializeDelegation(D, x, h)
           v == x[2]
           p == D.cur[v] - 1
           row == More(D.hist[v], p)
<1>0. AfterInitialize(D, x, h, E)
  BY InitializeChanges, Zenon
<1> HIDE DEF E
<1>1. /\ E.slashed = D.slashed /\ E.cur = D.cur
      /\ E.start = [D.start EXCEPT ![x] = [period |-> p, height |-> h]]
      /\ E.hist = [D.hist EXCEPT ![v] = row]
  BY <1>0 DEF AfterInitialize
<1>2. /\ E.start[x] = [period |-> p, height |-> h]
      /\ \A y \in dels \ {x} : E.start[y] = D.start[y]
      /\ E.start \in [dels -> [period : Periods, height : {0, LastHeight}]]
  BY <1>1 DEF AllPeriods
<1>3. Tally(row, D.cur[v], D.slashed[v], E.start, S \cup {x}) /\ row \in [Periods -> Nat]
  <2>1. /\ D.hist[v] \in [Periods -> Nat] /\ D.slashed[v] \in SUBSET Periods
        /\ D.cur[v] \in Nat
    BY DEF AllPeriods
  <2>2. E.start[x].period = D.cur[v] - 1 /\ \A y \in S : E.start[y] = D.start[y]
    BY <1>2
  <2> DEFINE R == D.hist[v]
             c == D.cur[v]
             s == D.slashed[v]
             t == E.start
  <2>3. /\ R \in [Periods -> Nat] /\ s \in SUBSET Periods /\ c \in Nat /\ c - 1 \in Periods
        /\ Tally(R, c, s, D.start, S)
        /\ t[x].period = c - 1 /\ \A y \in S : t[y] = D.start[y]
    BY <2>1, <2>2 DEF Counts
  <2> HIDE DEF R, c, s, t
  <2>4. /\ Tally(More(R, c - 1), c, s, t, S \cup {x})
        /\ More(R, c - 1) \in [Periods -> Nat]
    BY <2>3, TallyStarted
  <2>5. QED BY <2>4 DEF R, c, s, t
<1> HIDE DEF row, p
<1>4. E.hist[v] = row /\ \A w \in Validators \ {v} : E.hist[w] = D.hist[w]
  BY <1>1 DEF AllPeriods
<1>5. AllPeriods(E)
  BY <1>1, <1>2, <1>3 DEF AllPeriods
<1>6. Counts(E, v, S \cup {x})
  BY <1>1, <1>3, <1>4, Zenon DEF Counts
<1>7. QED BY <1>1, <1>2, <1>4, <1>5, <1>6, Zenon DEF E

LEMMA PayOut ==
  ASSUME NEW D, Shape(D), AllPeriods(D), NEW x \in dels, x[2] \in Validators,
         D.cur[x[2]] \in Periods, NEW S, IsFiniteSet(S), x \in S, Counts(D, x[2], S)
  PROVE  LET E == PaidOut(D, x) IN
         /\ AllPeriods(E) /\ Counts(E, x[2], S \ {x}) /\ E.cur[x[2]] = D.cur[x[2]] + 1
         /\ E.start = D.start /\ E.slashed = D.slashed
         /\ \A w \in Validators \ {x[2]} : E.hist[w] = D.hist[w] /\ E.cur[w] = D.cur[w]
<1> DEFINE d == IncrementPeriod(D, x[2])
           E == PaidOut(D, x)
           v == x[2]
           row == Less(d.hist[v], D.start[x].period)
<1>0. AfterPaying(D, x, d, E)
  BY PayingChanges, Zenon
<1>2. /\ AllPeriods(d) /\ Counts(d, v, S) /\ d.cur[v] = D.cur[v] + 1
      /\ \A w \in Validators \ {v} : d.hist[w] = D.hist[w] /\ d.cur[w] = D.cur[w]
  BY EndPeriod, Zenon
<1>3. d.slashed = D.slashed /\ d.start = D.start
  BY IncrementChanges, Zenon DEF AfterIncrement
<1> HIDE DEF E, d
<1>1. /\ E.cur = d.cur /\ E.slashed = D.slashed /\ E.start = D.start
      /\ E.hist = [d.hist EXCEPT ![v] = row]
  BY <1>0 DEF AfterPaying
<1>4. Tally(row, d.cur[v], D.slashed[v], D.start, S \ {x}) /\ row \in [Periods -> Nat]
  <2>1. /\ d.hist[v] \in [Periods -> Nat] /\ D.slashed[v] \in SUBSET Periods
        /\ d.cur[v] \in Nat /\ D.start[x].period \in Periods
    BY <1>2 DEF AllPeriods
  <2>2. Tally(d.hist[v], d.cur[v], D.slashed[v], D.start, S)
    BY <1>2, <1>3, Zenon DEF Counts
  <2>3. QED BY <2>1, <2>2, TallyReleased, Zenon
<1> HIDE DEF row
<1>5. E.hist[v] = row /\ \A w \in Validators \ {v} : E.hist[w] = d.hist[w]
  BY <1>1, <1>2 DEF AllPeriods
<1>6. AllPeriods(E)
  BY <1>1, <1>2, <1>4 DEF AllPeriods
<1>7. Counts(E, v, S \ {x})
  BY <1>1, <1>4, <1>5, Zenon DEF Counts
<1>8. QED BY <1>1, <1>2, <1>5, <1>6, <1>7, Zenon DEF E

(* A withdrawal, refused or not, moves the period on and leaves one        *)
(* reference to every delegation.                                          *)
LEMMA WithdrawCounts ==
  ASSUME NEW D, Shape(D), AllPeriods(D), NEW x \in dels, x[2] \in Validators,
         ctx \in {0, LastHeight}, D.cur[x[2]] \in Periods,
         NEW S \in SUBSET dels, IsFiniteSet(S), x \in S, Counts(D, x[2], S)
  PROVE  LET E == WithdrawRewards(D, x) IN
         /\ AllPeriods(E) /\ Counts(E, x[2], S) /\ E.cur[x[2]] = D.cur[x[2]] + 1
         /\ E.slashed = D.slashed
         /\ \A w \in Validators \ {x[2]} : E.hist[w] = D.hist[w] /\ E.cur[w] = D.cur[w]
         /\ \A y \in dels \ {x} : E.start[y] = D.start[y]
<1> DEFINE d == IncrementPeriod(D, x[2])
           P == PaidOut(D, x)
           E == InitializeDelegation(P, x, ctx)
           v == x[2]
<1>1. /\ AllPeriods(d) /\ Counts(d, v, S) /\ d.cur[v] = D.cur[v] + 1
      /\ \A w \in Validators \ {v} : d.hist[w] = D.hist[w] /\ d.cur[w] = D.cur[w]
      /\ d.slashed = D.slashed /\ d.start = D.start
  BY EndPeriod, IncrementChanges, Zenon DEF AfterIncrement
<1>2. /\ AllPeriods(P) /\ Counts(P, v, S \ {x}) /\ P.cur[v] = D.cur[v] + 1
      /\ P.start = D.start /\ P.slashed = D.slashed
      /\ \A w \in Validators \ {v} : P.hist[w] = D.hist[w] /\ P.cur[w] = D.cur[w]
  BY PayOut, Zenon
<1>3. Shape(P)
  BY PayingChanges, Zenon DEF AfterPaying
<1> HIDE DEF P, d
<1>4. /\ P.cur[v] - 1 \in Periods /\ S \ {x} \in SUBSET dels /\ x \notin S \ {x}
      /\ (S \ {x}) \cup {x} = S
  BY <1>2, BoundPeriods
<1>5. IsFiniteSet(S \ {x})
  BY FS_RemoveElement
<1>6. /\ AllPeriods(E) /\ Counts(E, x[2], (S \ {x}) \cup {x})
      /\ E.cur = P.cur /\ E.slashed = P.slashed
      /\ \A w \in Validators \ {v} : E.hist[w] = P.hist[w]
      /\ \A y \in dels \ {x} : E.start[y] = P.start[y]
  <2> DEFINE T == S \ {x}
  <2>1. /\ AllPeriods(P) /\ Counts(P, x[2], T) /\ P.cur[x[2]] - 1 \in Periods
        /\ T \in SUBSET dels /\ IsFiniteSet(T) /\ x \notin T
    BY <1>2, <1>4, <1>5, Zenon
  <2> HIDE DEF T
  <2>2. LET F == InitializeDelegation(P, x, ctx) IN
        /\ AllPeriods(F) /\ Counts(F, x[2], T \cup {x})
        /\ F.cur = P.cur /\ F.slashed = P.slashed
        /\ \A w \in Validators \ {x[2]} : F.hist[w] = P.hist[w]
        /\ \A y \in dels \ {x} : F.start[y] = P.start[y]
    BY <1>3, <2>1, StartPeriod, Zenon
  <2>3. QED BY <2>2, Zenon DEF T
<1> DEFINE Q(F) ==
      /\ AllPeriods(F) /\ Counts(F, v, S) /\ F.cur[v] = D.cur[v] + 1
      /\ F.slashed = D.slashed
      /\ \A w \in Validators \ {v} : F.hist[w] = D.hist[w] /\ F.cur[w] = D.cur[w]
      /\ \A y \in dels \ {x} : F.start[y] = D.start[y]
<1> HIDE DEF E
<1>7. WithdrawRewards(D, x) \in {d, E}
  BY WithdrawalChanges DEF d, E, P
<1>8. Q(d)
  BY <1>1
<1>9. Q(E)
  BY <1>2, <1>4, <1>6
<1> HIDE DEF Q
<1>10. Q(WithdrawRewards(D, x))
  BY <1>7, <1>8, <1>9
<1>11. QED BY <1>10 DEF Q
---------------------------------------------------------------------------
(* The reference counts through the export                                 *)

(* A step into another part of the export that leaves x/distribution       *)
(* alone.                                                                  *)
LEMMA PeriodsEntering ==
  ASSUME PeriodsInv, dels \subseteq Pairs, UNCHANGED <<dels, dist>>, NEW s, Enter(s),
         stage = "validators" => \A v \in Validators : dist.slashed[v] = {},
         \/ stage = "begin" /\ s \in {"assert", "export"}
         \/ stage = "assert" /\ s \in {"commission", "panicked", "exited"}
         \/ stage \in DOMAIN Following /\ todo = {} /\ s = Following[stage]
         \/ stage = "jail" /\ s = "export"
         \/ stage = "apply" /\ s \in {"panicked", "signing"}
         \/ stage = "export" /\ s = "done"
  PROVE  PeriodsInv'
<1>1. /\ stage' = s /\ todo' = Items(s) /\ s \notin {"historical", "validators"}
      /\ s \in {"rewards", "delegations"} => todo' = dels
      /\ stage # "historical"
  BY DEF Enter, Items, Following
<1>2. \A v \in Validators : Of(v)' = Of(v)
  BY DEF Of
<1>3. ASSUME NEW v \in Validators
      PROVE  dist.cur[v] + Cardinality(Ending(v)') <= Most
  <2>1. /\ dist.cur[v] \in Nat /\ dist.cur[v] + Cardinality(Ending(v)) <= Most
        /\ Cardinality(Of(v)) \in Nat
        /\ Cardinality(Of(v)) <= Cardinality(Delegators)
        /\ Of(v) \subseteq dels
    BY Delegating DEF PeriodsInv, AllPeriods
  <2>2. CASE stage = "validators"
    <3>1. dist.cur[v] = 1 /\ s = "delegations"
      BY <2>2 DEF PeriodsInv, Following
    <3>2. Ending(v)' = Of(v)
      BY <1>1, <1>2, <2>1, <3>1 DEF Ending
    <3>3. Cardinality(Delegators) \in Nat
      BY DelegatorsAssumption, FS_CardinalityType
    <3>4. QED BY <2>1, <3>1, <3>2, <3>3 DEF Most
  <2>3. CASE stage # "validators"
    <3>1. s # "delegations"
      BY <2>3 DEF Following
    <3>2. /\ s # "begin"
          /\ s \in {"assert", "commission", "rewards"} => stage \in {"begin", "assert", "commission"}
      BY <2>3 DEF Following
    <3>3. Ending(v)' \in {{}, Ending(v)}
      BY <1>1, <1>2, <2>1, <3>1, <3>2 DEF Ending
    <3>4. IsFiniteSet(Ending(v)) /\ Cardinality({}) = 0
      <4>1. Ending(v) \subseteq Of(v)
        BY DEF Ending
      <4>2. QED BY <4>1, Delegating, FS_Subset, FS_EmptySet
    <3>5. Cardinality(Ending(v)) \in Nat
      BY <3>4, FS_CardinalityType
    <3>6. Cardinality(Ending(v)') <= Cardinality(Ending(v)) /\ Cardinality(Ending(v)') \in Nat
      BY <3>3, <3>4, <3>5
    <3> DEFINE m == Cardinality(Ending(v))
               n == Cardinality(Ending(v)')
    <3>7. m \in Nat /\ n \in Nat /\ n <= m /\ dist.cur[v] + m <= Most /\ Most \in Nat
      BY <2>1, <3>5, <3>6, BoundPeriods
    <3> HIDE DEF m, n
    <3>8. dist.cur[v] + n <= Most
      BY <2>1, <3>7
    <3>9. QED BY <3>8 DEF n
  <2>4. QED BY <2>2, <2>3
<1>4. ASSUME NEW v \in Validators
      PROVE  Counts(dist, v, Holding(v)')
  <2>1. CASE stage = "validators"
    <3>1. s = "delegations" /\ todo = {}
      BY <2>1 DEF Following
    <3>2. Holding(v)' = {}
      BY <1>1, <3>1 DEF Holding, Of
    <3>3. /\ dist.hist[v] = [p \in Periods |-> One(p = 0)] /\ dist.cur[v] = 1
          /\ dist.slashed[v] = {}
      BY <2>1, <3>1 DEF PeriodsInv
    <3>4. \A p \in Periods : Cardinality(Class({}, dist.start, p)) = 0
      BY FS_EmptySet DEF Class
    <3>5. QED BY <3>2, <3>3, <3>4 DEF Counts, Tally, One
  <2>2. CASE stage # "validators"
    <3>1. s # "delegations"
      BY <2>2 DEF Following
    <3>2. Holding(v)' = Of(v)
      BY <1>1, <1>2, <3>1 DEF Holding
    <3>3. Holding(v) = Of(v)
      <4>1. stage = "delegations" => todo = {}
        BY DEF Following
      <4>2. QED BY <4>1 DEF Holding
    <3>4. QED BY <1>1, <2>2, <3>2, <3>3 DEF PeriodsInv
  <2>3. QED BY <2>1, <2>2
<1>5. AllPeriods(dist)' /\ \A v \in Validators : dist.cur[v] > 0
  BY DEF PeriodsInv, AllPeriods
<1>6. QED BY <1>1, <1>3, <1>4, <1>5 DEF PeriodsInv

(* A step of a loop that leaves the counts alone.                          *)
LEMMA PeriodsVisiting ==
  ASSUME PeriodsInv, dels' = dels, SamePeriods(dist, dist'), NEW s, NEW x, Visit(s, x),
         s \notin {"historical", "rewards", "validators", "delegations"}
  PROVE  PeriodsInv'
<1>1. stage' = stage /\ stage = s
  BY DEF Visit
<1>2. \A v \in Validators : Of(v)' = Of(v) /\ Ending(v)' = Ending(v) /\ Holding(v)' = Holding(v)
  BY <1>1 DEF Of, Ending, Holding
<1>3. /\ dist'.cur = dist.cur /\ dist'.hist = dist.hist
      /\ dist'.slashed = dist.slashed /\ dist'.start = dist.start
  BY DEF SamePeriods
<1>4. AllPeriods(dist)'
  BY <1>3 DEF PeriodsInv, AllPeriods
<1>5. \A v \in Validators : Counts(dist', v, Holding(v)')
  BY <1>1, <1>2, <1>3 DEF PeriodsInv, Counts
<1>6. QED BY <1>1, <1>2, <1>3, <1>4, <1>5 DEF PeriodsInv

(* One delegation less to end a period for.                                *)
LEMMA EndingLess ==
  ASSUME dels \subseteq Pairs, dels' = dels, NEW x \in dels,
         NEW s \in {"rewards", "delegations"}, Visit(s, x)
  PROVE  /\ Cardinality(Ending(x[2]))' + 1 = Cardinality(Ending(x[2]))
         /\ Cardinality(Ending(x[2]))' \in Nat
         /\ \A v \in Validators \ {x[2]} : Ending(v)' = Ending(v)
<1>1. stage' = stage /\ stage = s /\ todo' = todo \ {x} /\ x \in todo
  BY DEF Visit
<1>2. \A v \in Validators : Of(v)' = Of(v) /\ Ending(v) = Of(v) \cap todo
                            /\ Ending(v)' = Of(v) \cap (todo \ {x})
  BY <1>1 DEF Of, Ending
<1>3. x[2] \in Validators /\ IsFiniteSet(Of(x[2])) /\ x \in Of(x[2])
  BY Delegating DEF Of
<1>4. /\ Ending(x[2])' = Ending(x[2]) \ {x} /\ x \in Ending(x[2])
      /\ \A v \in Validators \ {x[2]} : Ending(v)' = Ending(v)
  BY <1>1, <1>2, <1>3 DEF Of
<1>5. IsFiniteSet(Ending(x[2]))
  BY <1>2, <1>3, FS_Subset
<1> DEFINE A == Ending(x[2])
           B == Ending(x[2])'
<1> HIDE DEF A, B
<1>6. B = A \ {x} /\ x \in A /\ IsFiniteSet(A)
  BY <1>4, <1>5 DEF A, B
<1>7. Cardinality(B) + 1 = Cardinality(A) /\ Cardinality(B) \in Nat
  <2>1. IsFiniteSet(B) /\ Cardinality(B) = Cardinality(A) - 1
    BY <1>6, FS_RemoveElement
  <2>2. Cardinality(B) \in Nat /\ Cardinality(A) \in Nat
    BY <1>6, <2>1, FS_CardinalityType
  <2>3. QED BY <2>1, <2>2
<1>8. QED BY <1>4, <1>7 DEF A, B

LEMMA PeriodsRewards ==
  ASSUME PeriodsInv, Shape(dist), ctx \in {0, LastHeight}, dels \subseteq Pairs,
         dels' = dels, NEW x \in dels, Visit("rewards", x),
         dist' = WithdrawRewards(dist, x)
  PROVE  PeriodsInv'
<1>1. stage' = stage /\ stage = "rewards"
  BY DEF Visit
<1> DEFINE v == x[2]
<1>2. /\ v \in Validators /\ x \in Of(v) /\ Of(v) \in SUBSET dels /\ IsFiniteSet(Of(v))
      /\ \A w \in Validators : Of(w)' = Of(w) /\ Of(w) \subseteq dels
      /\ \A w \in Validators \ {v} : x \notin Of(w)
  BY Delegating DEF Of
<1>3. /\ Cardinality(Ending(v))' + 1 = Cardinality(Ending(v))
      /\ Cardinality(Ending(v))' \in Nat
      /\ \A w \in Validators \ {v} : Ending(w)' = Ending(w)
  BY EndingLess
<1>4. /\ AllPeriods(dist) /\ dist.cur[v] \in Nat /\ dist.cur[v] > 0
      /\ dist.cur[v] + Cardinality(Ending(v)) <= Most
      /\ \A w \in Validators : Counts(dist, w, Of(w))
  BY <1>1, <1>2 DEF PeriodsInv, AllPeriods, Holding
<1>5. dist.cur[v] \in Periods /\ dist.cur[v] + 1 + Cardinality(Ending(v))' <= Most
  <2> DEFINE m == Cardinality(Ending(v))
             n == Cardinality(Ending(v))'
  <2> HIDE DEF m, n
  <2>1. n + 1 = m /\ n \in Nat /\ dist.cur[v] + m <= Most
    BY <1>3, <1>4 DEF m, n
  <2>2. QED BY <1>4, <2>1, BoundPeriods DEF n
<1>6. /\ AllPeriods(dist') /\ Counts(dist', v, Of(v)) /\ dist'.cur[v] = dist.cur[v] + 1
      /\ dist'.slashed = dist.slashed
      /\ \A w \in Validators \ {v} : dist'.hist[w] = dist.hist[w]
                                     /\ dist'.cur[w] = dist.cur[w]
      /\ \A y \in dels \ {x} : dist'.start[y] = dist.start[y]
  <2> DEFINE E == WithdrawRewards(dist, x)
  <2>1. /\ AllPeriods(E) /\ Counts(E, v, Of(v)) /\ E.cur[v] = dist.cur[v] + 1
        /\ E.slashed = dist.slashed
        /\ \A w \in Validators \ {v} : E.hist[w] = dist.hist[w] /\ E.cur[w] = dist.cur[w]
        /\ \A y \in dels \ {x} : E.start[y] = dist.start[y]
    BY <1>2, <1>4, <1>5, WithdrawCounts
  <2>2. dist' = E
    OBVIOUS
  <2> HIDE DEF E
  <2>3. QED BY <2>1, <2>2, Zenon
<1>7. \A w \in Validators : Counts(dist', w, Of(w))
  <2>1. SUFFICES ASSUME NEW w \in Validators \ {v} PROVE Counts(dist', w, Of(w))
    BY <1>6
  <2>2. \A y \in Of(w) : dist'.start[y] = dist.start[y]
    BY <1>2, <1>6
  <2>3. QED BY <1>4, <1>6, <2>2, CountsElsewhere
<1>8. \A w \in Validators : Holding(w)' = Of(w)
  BY <1>1, <1>2 DEF Holding
<1>9. \A w \in Validators : dist'.cur[w] + Cardinality(Ending(w)') <= Most /\ dist'.cur[w] > 0
  BY <1>3, <1>4, <1>5, <1>6 DEF PeriodsInv
<1>10. AllPeriods(dist)'
  BY <1>6 DEF AllPeriods
<1>11. QED BY <1>1, <1>7, <1>8, <1>9, <1>10 DEF PeriodsInv

LEMMA PeriodsDelegations ==
  ASSUME PeriodsInv, Shape(dist), ctx \in {0, LastHeight}, dels \subseteq Pairs,
         dels' = dels, NEW x \in dels, Visit("delegations", x),
         dist' = InitializeDelegation(IncrementPeriod(dist, x[2]), x, ctx)
  PROVE  PeriodsInv'
<1>1. stage' = stage /\ stage = "delegations" /\ todo' = todo \ {x} /\ x \in todo
  BY DEF Visit
<1> DEFINE v == x[2]
           d == IncrementPeriod(dist, v)
           H == Holding(v)
<1>2. /\ v \in Validators /\ x \in Of(v) /\ Of(v) \in SUBSET dels /\ IsFiniteSet(Of(v))
      /\ \A w \in Validators : Of(w)' = Of(w) /\ Of(w) \subseteq dels
      /\ \A w \in Validators \ {v} : x \notin Of(w)
  BY Delegating DEF Of
<1>3. /\ Cardinality(Ending(v))' + 1 = Cardinality(Ending(v))
      /\ Cardinality(Ending(v))' \in Nat
      /\ \A w \in Validators \ {v} : Ending(w)' = Ending(w)
  BY EndingLess
<1>4. /\ AllPeriods(dist) /\ dist.cur[v] \in Nat /\ dist.cur[v] > 0
      /\ dist.cur[v] + Cardinality(Ending(v)) <= Most
      /\ \A w \in Validators : Counts(dist, w, Holding(w))
  BY <1>1, <1>2 DEF PeriodsInv, AllPeriods
<1>5. dist.cur[v] \in Periods /\ dist.cur[v] + 1 + Cardinality(Ending(v))' <= Most
  <2> DEFINE m == Cardinality(Ending(v))
             n == Cardinality(Ending(v))'
  <2> HIDE DEF m, n
  <2>1. n + 1 = m /\ n \in Nat /\ dist.cur[v] + m <= Most
    BY <1>3, <1>4 DEF m, n
  <2>2. QED BY <1>4, <2>1, BoundPeriods DEF n
<1>6. /\ H \in SUBSET dels /\ IsFiniteSet(H) /\ x \notin H
      /\ Holding(v)' = H \cup {x}
      /\ \A w \in Validators \ {v} : Holding(w)' = Holding(w) /\ x \notin Holding(w)
                                     /\ Holding(w) \subseteq dels
  <2>1. /\ H \in SUBSET dels /\ x \notin H /\ H \subseteq Of(v)
        /\ Holding(v)' = H \cup {x}
        /\ \A w \in Validators \ {v} : Holding(w)' = Holding(w) /\ x \notin Holding(w)
                                       /\ Holding(w) \subseteq dels
    BY <1>1, <1>2 DEF Holding
  <2>2. IsFiniteSet(H)
    BY <1>2, <2>1, FS_Subset
  <2>3. QED BY <2>1, <2>2
<1> HIDE DEF H
<1>7. /\ AllPeriods(d) /\ Counts(d, v, H) /\ d.cur[v] = dist.cur[v] + 1
      /\ \A w \in Validators \ {v} : d.hist[w] = dist.hist[w] /\ d.cur[w] = dist.cur[w]
  <2>1. Counts(dist, v, H)
    BY <1>2, <1>4 DEF H
  <2>2. QED BY <1>2, <1>4, <1>5, <1>6, <2>1, EndPeriod, Zenon
<1>8. Shape(d) /\ d.slashed = dist.slashed /\ d.start = dist.start
  BY Incrementing, Zenon
<1> HIDE DEF d
<1>9. /\ AllPeriods(dist') /\ Counts(dist', v, H \cup {x})
      /\ dist'.cur = d.cur /\ dist'.slashed = d.slashed
      /\ \A w \in Validators \ {v} : dist'.hist[w] = d.hist[w]
      /\ \A y \in dels \ {x} : dist'.start[y] = d.start[y]
  <2>1. d.cur[v] - 1 \in Periods
    BY <1>4, <1>5, <1>7, BoundPeriods
  <2> DEFINE E == InitializeDelegation(d, x, ctx)
  <2>2. dist' = E
    BY DEF d
  <2>3. /\ AllPeriods(E) /\ Counts(E, x[2], H \cup {x})
        /\ E.cur = d.cur /\ E.slashed = d.slashed
        /\ \A w \in Validators \ {x[2]} : E.hist[w] = d.hist[w]
        /\ \A y \in dels \ {x} : E.start[y] = d.start[y]
    <3>1. /\ Shape(d) /\ AllPeriods(d) /\ x[2] \in Validators /\ d.cur[x[2]] - 1 \in Periods
          /\ H \in SUBSET dels /\ IsFiniteSet(H) /\ x \notin H /\ Counts(d, x[2], H)
      BY <1>2, <1>6, <1>7, <1>8, <2>1
    <3>2. QED BY <3>1, StartPeriod
  <2> HIDE DEF E
  <2>4. QED BY <2>2, <2>3, Zenon
<1>10. \A w \in Validators : Counts(dist', w, Holding(w)')
  <2>1. Counts(dist', v, Holding(v)')
    BY <1>6, <1>9
  <2>2. ASSUME NEW w \in Validators \ {v} PROVE Counts(dist', w, Holding(w)')
    <3>1. Holding(w)' = Holding(w) /\ Counts(dist, w, Holding(w))
      BY <1>4, <1>6
    <3>2. \A y \in Holding(w) : dist'.start[y] = dist.start[y]
      BY <1>6, <1>8, <1>9
    <3>3. /\ dist'.hist[w] = dist.hist[w] /\ dist'.cur[w] = dist.cur[w]
          /\ dist'.slashed[w] = dist.slashed[w]
      BY <1>7, <1>8, <1>9
    <3>4. Counts(dist', w, Holding(w))
      BY <3>1, <3>2, <3>3, CountsElsewhere
    <3>5. QED BY <3>1, <3>4
  <2>3. QED BY <2>1, <2>2
<1>11. \A w \in Validators : dist'.cur[w] + Cardinality(Ending(w)') <= Most /\ dist'.cur[w] > 0
  BY <1>3, <1>4, <1>5, <1>7, <1>9 DEF PeriodsInv
<1>12. AllPeriods(dist)'
  BY <1>9 DEF AllPeriods
<1>13. QED BY <1>1, <1>10, <1>11, <1>12 DEF PeriodsInv

LEMMA PeriodsValidators ==
  ASSUME PeriodsInv, dels' = dels, NEW v \in Validators, Visit("validators", v),
         NEW n, AfterValidator(dist, v, n, dist')
  PROVE  PeriodsInv'
<1>1. stage' = stage /\ stage = "validators" /\ todo' = todo \ {v} /\ v \in todo
  BY DEF Visit
<1>2. /\ AllPeriods(dist)
      /\ \A w \in Validators :
           /\ dist.cur[w] + Cardinality(Ending(w)) <= Most /\ dist.cur[w] > 0
           /\ dist.hist[w] = [p \in Periods |-> One(w \notin todo /\ p = 0)]
           /\ w \notin todo => dist.cur[w] = 1
  BY <1>1 DEF PeriodsInv
<1>3. /\ dist'.cur = [dist.cur EXCEPT ![v] = 1]
      /\ dist'.hist = [dist.hist EXCEPT ![v] = [dist.hist[v] EXCEPT ![0] = 1]]
      /\ dist'.slashed = dist.slashed /\ dist'.start = dist.start
  BY DEF AfterValidator
<1>4. /\ dist'.cur[v] = 1 /\ dist'.hist[v] = [dist.hist[v] EXCEPT ![0] = 1]
      /\ \A w \in Validators \ {v} : dist'.hist[w] = dist.hist[w] /\ dist'.cur[w] = dist.cur[w]
  BY <1>2, <1>3 DEF AllPeriods
<1>5. dist'.hist[v] = [p \in Periods |-> One(v \notin todo' /\ p = 0)]
  <2>1. dist.hist[v] = [p \in Periods |-> 0]
    BY <1>1, <1>2 DEF One
  <2>2. v \notin todo'
    BY <1>1
  <2>3. QED BY <1>4, <2>1, <2>2 DEF One
<1>6. \A w \in Validators \ {v} :
        dist'.hist[w] = [p \in Periods |-> One(w \notin todo' /\ p = 0)]
  <2>1. \A w \in Validators \ {v} : w \in todo' <=> w \in todo
    BY <1>1
  <2>2. QED BY <1>2, <1>4, <2>1
<1>7. AllPeriods(dist)'
  <2>1. dist'.hist[v] \in [Periods -> Nat]
    BY <1>5 DEF One
  <2>2. dist'.hist \in [Validators -> [Periods -> Nat]]
    BY <1>2, <1>3, <1>4, <2>1 DEF AllPeriods
  <2>3. QED BY <1>2, <1>3, <2>2 DEF AllPeriods
<1>8. \A w \in Validators : dist'.cur[w] + Cardinality(Ending(w)') <= Most /\ dist'.cur[w] > 0
  <2>1. \A w \in Validators : Ending(w)' = {} /\ Ending(w) = {}
    BY <1>1 DEF Ending
  <2>2. 1 + Cardinality({}) <= Most
    <3>1. Cardinality(Delegators) \in Nat
      BY DelegatorsAssumption, FS_CardinalityType
    <3>2. QED BY <3>1, FS_EmptySet DEF Most
  <2>3. ASSUME NEW w \in Validators
        PROVE  dist'.cur[w] + Cardinality({}) <= Most /\ dist'.cur[w] > 0
    <3>1. dist.cur[w] + Cardinality({}) <= Most /\ dist.cur[w] > 0
      BY <1>2, <2>1
    <3>2. CASE w = v
      BY <1>4, <2>2, <3>2
    <3>3. CASE w # v
      BY <1>4, <3>1, <3>3
    <3>4. QED BY <3>2, <3>3
  <2>4. QED BY <2>1, <2>3
<1>9. \A w \in Validators : w \notin todo' => dist'.cur[w] = 1
  BY <1>1, <1>2, <1>4
<1>10. QED BY <1>1, <1>5, <1>6, <1>7, <1>8, <1>9 DEF PeriodsInv

LEMMA PeriodsClearing ==
  ASSUME PeriodsInv, Shape(dist), dels \subseteq Pairs, dels' = dels,
         \/ /\ stage = "slashes" /\ Enter("historical")
            /\ dist' = DeleteSlashEvents(dist)
         \/ /\ stage = "historical" /\ Enter("validators")
            /\ dist' = DeleteHistorical(dist)
  PROVE  PeriodsInv'
<1>1. \A v \in Validators : Ending(v) = {} /\ Ending(v)' = {}
  BY DEF Ending, Enter
<1>2. AllPeriods(dist) /\ dist'.cur = dist.cur
  BY DeletingChanges DEF PeriodsInv
<1>3. \A v \in Validators : dist'.cur[v] + Cardinality(Ending(v)') <= Most /\ dist'.cur[v] > 0
  BY <1>1, <1>2 DEF PeriodsInv
<1>4. CASE stage = "slashes"
  <2>1. /\ stage' = "historical" /\ dist'.slashed = [v \in Validators |-> {}]
        /\ dist'.hist = dist.hist /\ dist'.start = dist.start
    BY <1>4, DeletingChanges DEF Enter
  <2>2. AllPeriods(dist)'
    BY <1>2, <2>1 DEF AllPeriods
  <2>3. QED BY <1>3, <2>1, <2>2 DEF PeriodsInv
<1>5. CASE stage = "historical"
  <2>1. /\ stage' = "validators" /\ todo' = Validators
        /\ dist'.hist = [v \in Validators |-> [p \in Periods |-> 0]]
        /\ dist'.slashed = dist.slashed /\ dist'.start = dist.start
    BY <1>5, DeletingChanges DEF Enter, Items
  <2>2. AllPeriods(dist)'
    BY <1>2, <2>1 DEF AllPeriods
  <2>3. \A v \in Validators : dist'.hist[v] = [p \in Periods |-> One(v \notin todo' /\ p = 0)]
    BY <2>1 DEF One
  <2>4. QED BY <1>3, <2>1, <2>2, <2>3 DEF PeriodsInv
<1>6. QED BY <1>4, <1>5
---------------------------------------------------------------------------
(* The periods of the exported state                                       *)

(* The delegations of a validator take its first places one after the      *)
(* other.                                                                  *)
LEMMA Places ==
  ASSUME dels \subseteq Pairs, NEW v \in Validators
  PROVE  LET k == Cardinality(Of(v)) IN
         /\ \A x \in Of(v) : Place(dels, x) \in 1 .. k
         /\ \A p \in 1 .. k : \E x \in Of(v) : Place(dels, x) = p
         /\ \A x, y \in Of(v) : Place(dels, x) = Place(dels, y) => x = y
<1> DEFINE k == Cardinality(Of(v))
           Before(x) == {y \in dels : y[2] = x[2] /\ y[1] <= x[1]}
           f == [x \in Of(v) |-> Cardinality(Before(x))]
<1>1. /\ IsFiniteSet(dels) /\ IsFiniteSet(Of(v)) /\ k \in Nat
      /\ \A x \in Of(v) : x = <<x[1], v>> /\ x[1] \in Nat /\ x \in dels
  BY Delegating, DelegatorsAssumption DEF Of
<1>2. \A x \in Of(v) : Before(x) \subseteq Of(v) /\ x \in Before(x)
  BY <1>1 DEF Of
<1>3. \A x \in Of(v) : f[x] \in 1 .. k /\ IsFiniteSet(Before(x)) /\ f[x] \in Nat
  <2>1. SUFFICES ASSUME NEW x \in Of(v)
                 PROVE  /\ Cardinality(Before(x)) \in 1 .. k /\ IsFiniteSet(Before(x))
                        /\ Cardinality(Before(x)) \in Nat
    OBVIOUS
  <2>2. IsFiniteSet(Before(x)) /\ Cardinality(Before(x)) <= k
    <3>1. Before(x) \in SUBSET Of(v)
      BY <1>2
    <3> HIDE DEF Before
    <3>2. QED BY <1>1, <3>1, FS_Subset
  <2>3. Cardinality(Before(x)) \in Nat /\ Cardinality(Before(x)) # 0
    <3>1. Before(x) # {}
      BY <1>2
    <3> HIDE DEF Before
    <3>2. QED BY <2>2, <3>1, FS_CardinalityType, FS_EmptySet
  <2> HIDE DEF Before
  <2>4. QED BY <1>1, <2>2, <2>3
<1>4. ASSUME NEW x \in Of(v), NEW y \in Of(v), x # y, f[x] = f[y]
      PROVE  FALSE
  <2>1. x[1] # y[1] /\ x[1] \in Nat /\ y[1] \in Nat /\ x[2] = v /\ y[2] = v
    BY <1>1, <1>4 DEF Of
  <2>2. ASSUME NEW a \in Of(v), NEW b \in Of(v), a[1] < b[1]
        PROVE  f[a] # f[b]
    <3>1. a[1] \in Nat /\ b[1] \in Nat /\ a[2] = v /\ b[2] = v
      BY <1>1 DEF Of
    <3>2. Before(a) \subseteq Before(b) /\ b \in Before(b) /\ b \notin Before(a)
      BY <1>1, <2>2, <3>1 DEF Of
    <3> HIDE DEF Before
    <3>3. Before(a) \in SUBSET Before(b) /\ Before(a) # Before(b) /\ IsFiniteSet(Before(b))
      BY <1>3, <3>2
    <3>4. Cardinality(Before(b)) # Cardinality(Before(a))
      BY <3>3, FS_Subset
    <3>5. QED BY <3>4
  <2>3. x[1] < y[1] \/ y[1] < x[1]
    BY <2>1
  <2> HIDE DEF f
  <2>4. QED BY <1>4, <2>2, <2>3
<1>5. f \in [Of(v) -> 1 .. k]
  <2> HIDE DEF Before
  <2>1. QED BY <1>3
<1>6. f \in Injection(Of(v), 1 .. k)
  <2> HIDE DEF f
  <2>1. QED BY <1>4, <1>5 DEF Injection, IsInjective
<1>7. f \in Surjection(Of(v), 1 .. k)
  <2>1. IsFiniteSet(1 .. k) /\ Cardinality(1 .. k) = k
    BY <1>1, FS_Interval
  <2> HIDE DEF f
  <2>2. QED BY <1>6, <2>1, FS_Injection
<1>8. \A p \in 1 .. k : \E x \in Of(v) : f[x] = p
  <2> HIDE DEF f
  <2>1. QED BY <1>7 DEF Surjection
<1>9. \A x \in Of(v) : f[x] = Place(dels, x)
  BY DEF Place
<1> HIDE DEF f
<1>10. QED BY <1>3, <1>4, <1>8, <1>9

(* The exported distribution state, its parts named.                       *)
Exported(due, com, dust, slash, D) ==
  /\ D.out = [v \in Validators |-> com[v] + dust[v] + SumFunctionOnSet(due, Of(v))]
  /\ D.com = com /\ D.due = due /\ D.pool = 0 /\ D.paid = 0 /\ D.lost = 0
  /\ D.bank = Total(com) + Total(dust) + Total(due)
  /\ D.cur = [v \in Validators |-> Cardinality(Of(v)) + 1 + Cardinality(slash[v])]
  /\ D.slashed = slash
  /\ D.start = [x \in dels |-> [period |-> Place(dels, x), height |-> LastHeight]]
  /\ D.hist = [v \in Validators |-> [p \in Periods |->
                 One(p \in 1 .. Cardinality(Of(v))) + One(p = D.cur[v] - 1)
                 + One(p \in slash[v])]]

LEMMA ExportedState ==
  ASSUME Init
  PROVE  \E due \in [dels -> Nat], com \in [Validators -> Nat], dust \in [Validators -> Nat],
            slash \in [Validators -> SUBSET Nat] :
           /\ \A v \in Validators : slash[v] \in {{}, {Cardinality(Of(v)) + 1}}
           /\ Exported(due, com, dust, slash, dist)
<1>1. PICK chain \in Chains : InitDist(chain, dels) /\ dels \in chain.delegations
  BY Zenon DEF Init
<1>2. /\ chain.rewards \subseteq Nat /\ chain.commissions \subseteq Nat
      /\ chain.dusts \subseteq Nat /\ dels \subseteq Pairs
  BY <1>1, ChainsAssumption DEF Chain
<1> DEFINE k == [v \in Validators |-> Cardinality({x \in dels : x[2] = v})]
           slash(s) == [v \in Validators |-> IF s[v] THEN {k[v] + 1} ELSE {}]
           cur(s) == [v \in Validators |-> k[v] + 1 + Cardinality(slash(s)[v])]
           out(due, com, dust) ==
             [v \in Validators |->
               com[v] + dust[v] + SumFunctionOnSet(due, {x \in dels : x[2] = v})]
           bank(due, com, dust) == Total(com) + Total(dust) + Total(due)
           start == [x \in dels |-> [period |-> Place(dels, x), height |-> LastHeight]]
           hist(s) == [v \in Validators |-> [p \in Periods |->
              One(p \in 1 .. k[v]) + One(p = cur(s)[v] - 1) + One(p \in slash(s)[v])]]
<1>3. PICK due \in [dels -> chain.rewards], com \in [Validators -> chain.commissions],
           dust \in [Validators -> chain.dusts], s \in [Validators -> chain.slashed] :
        dist = [out |-> out(due, com, dust), com |-> com, due |-> due, pool |-> 0,
                paid |-> 0, lost |-> 0, bank |-> bank(due, com, dust), cur |-> cur(s),
                slashed |-> slash(s), start |-> start, hist |-> hist(s)]
  BY <1>1, Zenon DEF InitDist
<1>4. /\ due \in [dels -> Nat] /\ com \in [Validators -> Nat] /\ dust \in [Validators -> Nat]
  BY <1>2
<1>5. /\ slash(s) \in [Validators -> SUBSET Nat]
      /\ \A v \in Validators : slash(s)[v] \in {{}, {Cardinality(Of(v)) + 1}}
  <2>1. \A v \in Validators : k[v] = Cardinality(Of(v)) /\ Cardinality(Of(v)) \in Nat
    <3>1. \A v \in Validators : k[v] = Cardinality(Of(v))
      BY DEF Of
    <3>2. QED BY <1>2, <3>1, Delegating
  <2> HIDE DEF k
  <2>2. \A v \in Validators : /\ slash(s)[v] \in SUBSET Nat
                              /\ slash(s)[v] \in {{}, {Cardinality(Of(v)) + 1}}
    BY <2>1
  <2>3. QED BY <2>2
<1>6. /\ dist.out = out(due, com, dust) /\ dist.com = com /\ dist.due = due /\ dist.pool = 0
      /\ dist.paid = 0 /\ dist.lost = 0
      /\ dist.bank = bank(due, com, dust) /\ dist.cur = cur(s)
      /\ dist.slashed = slash(s) /\ dist.start = start /\ dist.hist = hist(s)
  <2> HIDE DEF out, bank, cur, slash, start, hist
  <2>1. QED BY <1>3
<1>7. Exported(due, com, dust, slash(s), dist)
  <2>1. k = [v \in Validators |-> Cardinality(Of(v))]
    BY DEF Of
  <2>2. out(due, com, dust)
          = [v \in Validators |-> com[v] + dust[v] + SumFunctionOnSet(due, Of(v))]
    BY Zenon DEF Of
  <2> HIDE DEF slash, k, out
  <2>3. /\ cur(s) = [v \in Validators |-> Cardinality(Of(v)) + 1 + Cardinality(slash(s)[v])]
        /\ \A v \in Validators : k[v] = Cardinality(Of(v))
    BY <2>1
  <2> HIDE DEF cur
  <2>4. hist(s) = [v \in Validators |-> [p \in Periods |->
                   One(p \in 1 .. Cardinality(Of(v))) + One(p = cur(s)[v] - 1)
                   + One(p \in slash(s)[v])]]
    BY <2>3 DEF One
  <2> HIDE DEF hist
  <2>5. /\ dist.cur = cur(s) /\ dist.hist = hist(s)
        /\ dist.out = out(due, com, dust) /\ dist.slashed = slash(s)
        /\ dist.com = com /\ dist.due = due /\ dist.pool = 0
        /\ dist.paid = 0 /\ dist.lost = 0
        /\ dist.bank = bank(due, com, dust) /\ dist.start = start
    BY <1>6, Zenon
  <2> DEFINE H(c) == [v \in Validators |-> [p \in Periods |->
                   One(p \in 1 .. Cardinality(Of(v))) + One(p = c[v] - 1)
                   + One(p \in slash(s)[v])]]
  <2>6. dist.hist = H(dist.cur)
    <3>1. hist(s) = H(cur(s))
      BY <2>4, Zenon
    <3> HIDE DEF H
    <3>2. QED BY <2>5, <3>1, Zenon
  <2>7. QED BY <2>2, <2>3, <2>5, <2>6, Zenon DEF Exported
<1>8. QED BY <1>4, <1>5, <1>7

LEMMA PeriodsInit == Init => PeriodsInv
<1> SUFFICES ASSUME Init PROVE PeriodsInv
  OBVIOUS
<1>1. PICK due \in [dels -> Nat], com \in [Validators -> Nat], dust \in [Validators -> Nat],
           slash \in [Validators -> SUBSET Nat] :
           /\ \A v \in Validators : slash[v] \in {{}, {Cardinality(Of(v)) + 1}}
           /\ Exported(due, com, dust, slash, dist)
  BY ExportedState
<1>2. stage = "begin" /\ dels \subseteq Pairs
  BY ChainsAssumption DEF Init, Chain
<1> DEFINE k(v) == Cardinality(Of(v))
           c(v) == k(v) + 1 + Cardinality(slash[v])
<1>3. \A v \in Validators : dist.cur[v] = c(v) /\ dist.slashed[v] = slash[v]
  BY <1>1 DEF Exported
<1>4. \A v \in Validators : \A p \in Periods :
        dist.hist[v][p] = One(p \in 1 .. k(v)) + One(p = c(v) - 1) + One(p \in slash[v])
  BY <1>1 DEF Exported
<1>5. \A x \in dels : dist.start[x].period = Place(dels, x)
  <2>1. SUFFICES ASSUME NEW x \in dels PROVE dist.start[x].period = Place(dels, x)
    OBVIOUS
  <2>2. dist.start = [y \in dels |-> [period |-> Place(dels, y), height |-> LastHeight]]
    BY <1>1 DEF Exported
  <2>3. dist.start[x] = [period |-> Place(dels, x), height |-> LastHeight]
    BY <2>2
  <2>4. QED BY <2>3
<1>6. ASSUME NEW v \in Validators
      PROVE  /\ k(v) \in Nat /\ c(v) \in {k(v) + 1, k(v) + 2} /\ c(v) + k(v) <= Most
             /\ slash[v] \subseteq 0 .. c(v) - 1 /\ slash[v] \in SUBSET Periods
  <2>1. /\ k(v) \in Nat /\ k(v) <= Cardinality(Delegators) /\ Cardinality(Delegators) \in Nat
    BY <1>2, Delegating, DelegatorsAssumption, FS_CardinalityType
  <2>2. slash[v] = {} \/ slash[v] = {k(v) + 1}
    BY <1>1
  <2>3. Cardinality(slash[v]) = (IF slash[v] = {} THEN 0 ELSE 1)
    BY <2>2, FS_EmptySet, FS_Singleton
  <2> HIDE DEF k
  <2>4. c(v) = k(v) + 1 + Cardinality(slash[v])
    BY DEF k
  <2> HIDE DEF c
  <2>5. c(v) \in {k(v) + 1, k(v) + 2}
    BY <2>1, <2>3, <2>4
  <2>6. c(v) + k(v) <= Most
    BY <2>1, <2>5 DEF Most
  <2>7. slash[v] \subseteq 0 .. c(v) - 1
    <3>1. CASE slash[v] = {}
      BY <3>1
    <3>2. CASE slash[v] = {k(v) + 1}
      BY <2>1, <2>3, <2>4, <3>2
    <3>3. QED BY <2>2, <3>1, <3>2
  <2>8. slash[v] \in SUBSET Periods
    BY <2>1, <2>5, <2>6, <2>7, BoundPeriods
  <2>9. QED BY <2>1, <2>5, <2>6, <2>7, <2>8
<1>7. ASSUME NEW v \in Validators
      PROVE  /\ \A x \in Of(v) : Place(dels, x) \in 1 .. k(v)
             /\ \A p \in Periods : Cardinality(Class(Of(v), dist.start, p)) = One(p \in 1 .. k(v))
  <2>1. /\ \A x \in Of(v) : Place(dels, x) \in 1 .. k(v)
        /\ \A p \in 1 .. k(v) : \E x \in Of(v) : Place(dels, x) = p
        /\ \A x, y \in Of(v) : Place(dels, x) = Place(dels, y) => x = y
    BY <1>2, Places
  <2>2. \A x \in Of(v) : dist.start[x].period = Place(dels, x)
    <3>1. Of(v) \subseteq dels
      BY DEF Of
    <3>2. QED BY <1>5, <3>1, Zenon
  <2>3. ASSUME NEW p \in Periods
        PROVE  Cardinality(Class(Of(v), dist.start, p)) = One(p \in 1 .. k(v))
    <3>1. CASE p \in 1 .. k(v)
      <4>1. PICK x \in Of(v) : Place(dels, x) = p
        BY <2>1, <3>1
      <4>2. Class(Of(v), dist.start, p) = {x}
        BY <2>1, <2>2, <4>1 DEF Class
      <4>3. QED BY <3>1, <4>2, FS_Singleton DEF One
    <3>2. CASE p \notin 1 .. k(v)
      <4>1. Class(Of(v), dist.start, p) = {}
        BY <2>1, <2>2, <3>2 DEF Class
      <4>2. QED BY <3>2, <4>1, FS_EmptySet DEF One
    <3>3. QED BY <3>1, <3>2
  <2>4. QED BY <2>1, <2>3
<1>8. ASSUME NEW v \in Validators
      PROVE  Counts(dist, v, Of(v))
  <2>1. \A p \in Periods :
          dist.hist[v][p] = Cardinality(Class(Of(v), dist.start, p))
                            + One(p = dist.cur[v] - 1) + One(p \in dist.slashed[v])
    BY <1>3, <1>4, <1>7
  <2>2. \A x \in Of(v) : dist.start[x].period \in 0 .. c(v) - 1
    <3>1. SUFFICES ASSUME NEW x \in Of(v) PROVE Place(dels, x) \in 0 .. c(v) - 1
      <4>1. \A x \in Of(v) : dist.start[x].period = Place(dels, x)
        BY <1>5, Zenon DEF Of
      <4> HIDE DEF c
      <4>2. QED BY <4>1, Zenon
    <3>2. Place(dels, x) \in 1 .. k(v)
      BY <1>7
    <3>3. k(v) \in Nat /\ c(v) \in {k(v) + 1, k(v) + 2}
      BY <1>6
    <3> HIDE DEF k, c
    <3>4. QED BY <3>2, <3>3
  <2>3. c(v) > 0 /\ slash[v] \subseteq 0 .. c(v) - 1
    BY <1>6
  <2>4. QED BY <1>3, <2>1, <2>2, <2>3 DEF Counts, Tally
<1>9. AllPeriods(dist)
  <2>1. dist.cur \in [Validators -> Nat]
    <3>1. \A v \in Validators : c(v) \in Nat
      BY <1>6
    <3>2. dist.cur = [v \in Validators |-> c(v)]
      BY <1>1, Zenon DEF Exported
    <3>3. QED BY <3>1, <3>2
  <2>2. dist.slashed \in [Validators -> SUBSET Periods]
    <3>1. dist.slashed = slash
      BY <1>1 DEF Exported
    <3>2. QED BY <1>6, <3>1
  <2>3. dist.hist \in [Validators -> [Periods -> Nat]]
    BY <1>1 DEF Exported, One
  <2>4. dist.start \in [dels -> [period : Periods, height : {0, LastHeight}]]
    <3>1. \A x \in dels : Place(dels, x) \in Periods
      <4>1. SUFFICES ASSUME NEW x \in dels PROVE Place(dels, x) \in Periods
        OBVIOUS
      <4>2. x[2] \in Validators /\ x \in Of(x[2])
        BY <1>2, Delegating DEF Of
      <4>3. Place(dels, x) \in 1 .. k(x[2]) /\ k(x[2]) \in Nat
            /\ c(x[2]) \in {k(x[2]) + 1, k(x[2]) + 2} /\ c(x[2]) + k(x[2]) <= Most
        BY <1>6, <1>7, <4>2
      <4> HIDE DEF k, c
      <4>4. QED BY <4>3, BoundPeriods
    <3>2. dist.start = [x \in dels |-> [period |-> Place(dels, x), height |-> LastHeight]]
      BY <1>1 DEF Exported
    <3>3. QED BY <3>1, <3>2
  <2>5. QED BY <2>1, <2>2, <2>3, <2>4 DEF AllPeriods
<1>10. \A v \in Validators : Ending(v) = Of(v) /\ Holding(v) = Of(v)
  BY <1>2 DEF Ending, Holding
<1>11. \A v \in Validators : dist.cur[v] + Cardinality(Ending(v)) <= Most /\ dist.cur[v] > 0
  <2>1. SUFFICES ASSUME NEW v \in Validators PROVE c(v) + k(v) <= Most /\ c(v) > 0
    BY <1>3, <1>10
  <2>2. QED BY <1>6
<1>12. QED BY <1>2, <1>8, <1>9, <1>10, <1>11 DEF PeriodsInv
---------------------------------------------------------------------------
(* The steps of the export, as x/distribution sees them                    *)

(* Those that leave it alone and go on to another part, those that leave   *)
(* it alone and visit something, and those that call it.                   *)
Crosses(s) ==
  /\ Enter(s) /\ UNCHANGED dist
  /\ \/ stage = "begin" /\ s = (IF zero THEN "assert" ELSE "export")
     \/ stage = "assert" /\ s = "exited"
     \/ /\ stage = "assert" /\ s \in {"commission", "panicked"}
        /\ allowed \cap Malformed = {}
     \/ stage \in DOMAIN Following /\ todo = {} /\ s = Following[stage]
     \/ stage = "jail" /\ todo = {} /\ s = "export"
     \/ stage = "apply" /\ s \in {"panicked", "signing"}
     \/ stage = "export" /\ s = "done"
VisitsOnly(s, x) ==
  Visit(s, x) /\ UNCHANGED dist /\ s \in {"redelegations", "unbondings", "jail", "signing"}
Clears ==
  \/ stage = "slashes" /\ Enter("historical") /\ dist' = DeleteSlashEvents(dist)
  \/ stage = "historical" /\ Enter("validators") /\ dist' = DeleteHistorical(dist)

LEMMA DistSteps ==
  ASSUME [Next]_vars
  PROVE  /\ UNCHANGED request
         /\ \/ UNCHANGED <<stage, todo, dist>>
            \/ \E s \in Stages : Crosses(s)
            \/ \E s \in Stages : \E x \in todo : VisitsOnly(s, x)
            \/ Clears
            \/ \E v \in Validators :
                 Visit("commission", v) /\ dist' = WithdrawCommission(dist, v)
            \/ \E x \in dels : Visit("rewards", x) /\ dist' = WithdrawRewards(dist, x)
            \/ \E v \in Validators :
                 /\ Visit("validators", v)
                 /\ dist' = InitializeValidator([dist EXCEPT !.pool = @ + Scraps(dist, v)], v)
            \/ \E x \in dels :
                 /\ Visit("delegations", x)
                 /\ dist' = InitializeDelegation(IncrementPeriod(dist, x[2]), x, ctx)
<1>1. CASE UNCHANGED vars
  BY <1>1 DEF vars, request
<1>2. CASE Begin
  <2>1. Crosses(IF zero THEN "assert" ELSE "export")
    BY <1>2 DEF Begin, Crosses
  <2>2. (IF zero THEN "assert" ELSE "export") \in Stages
    BY DEF Stages
  <2>3. QED BY <1>2, <2>1, <2>2, Zenon DEF Begin
<1>3. CASE AssertInvariants
  <2> DEFINE s == IF ReferencesAreCounted(dist) /\ Covered(dist) /\ CanWithdraw(dist)
                  THEN "commission" ELSE "panicked"
  <2>1. s \in Stages /\ s \in {"commission", "panicked"}
    BY DEF Stages
  <2>2. /\ Enter(s) /\ stage = "assert" /\ allowed \cap Malformed = {}
        /\ UNCHANGED dist /\ UNCHANGED request
    BY <1>3, Zenon DEF AssertInvariants
  <2> HIDE DEF s
  <2>3. QED BY <2>1, <2>2, Zenon DEF Crosses
<1>4. CASE EndLoop
  <2>1. Crosses(Following[stage]) /\ Following[stage] \in Stages
    BY <1>4 DEF EndLoop, Crosses, Following, Stages
  <2>2. QED BY <1>4, <2>1, Zenon DEF EndLoop
<1>5. CASE ClearSlashEvents \/ ClearHistorical
  BY <1>5, Zenon DEF ClearSlashEvents, ClearHistorical, Clears
<1>6. CASE ApplyUpdates
  <2> DEFINE s == IF \E v \in Reached(val, index) : val[v].jailed
                  THEN "panicked" ELSE "signing"
  <2>1. s \in Stages /\ s \in {"panicked", "signing"}
    BY DEF Stages
  <2>2. Enter(s) /\ stage = "apply" /\ UNCHANGED dist /\ UNCHANGED request
    BY <1>6, Zenon DEF ApplyUpdates
  <2> HIDE DEF s
  <2>3. QED BY <2>1, <2>2, Zenon DEF Crosses
<1>7. CASE ExportGenesis
  <2>1. Crosses("done") /\ "done" \in Stages
    BY <1>7 DEF ExportGenesis, Crosses, Stages
  <2>2. QED BY <1>7, <2>1, Zenon DEF ExportGenesis
<1>8. ASSUME NEW v \in Validators, WithdrawAllCommission(v) \/ ReinitializeValidator(v)
      PROVE  /\ UNCHANGED request
             /\ \/ Visit("commission", v) /\ dist' = WithdrawCommission(dist, v)
                \/ /\ Visit("validators", v)
                   /\ dist' = InitializeValidator([dist EXCEPT !.pool = @ + Scraps(dist, v)], v)
  BY <1>8, Zenon DEF WithdrawAllCommission, ReinitializeValidator
<1>9. ASSUME NEW v \in Validators, ResetValidator(v) \/ ResetStartHeight(v)
      PROVE  /\ UNCHANGED request
             /\ \E s \in Stages : \E x \in todo : VisitsOnly(s, x)
  <2>1. "jail" \in Stages /\ "signing" \in Stages
    BY DEF Stages
  <2>2. v \in todo /\ (VisitsOnly("jail", v) \/ VisitsOnly("signing", v)) /\ UNCHANGED request
    BY <1>9 DEF ResetValidator, ResetStartHeight, VisitsOnly, Visit
  <2>3. QED BY <2>1, <2>2, Zenon
<1>10. ASSUME NEW x \in dels, WithdrawAllRewards(x) \/ ReinitializeDelegation(x)
       PROVE  /\ UNCHANGED request
              /\ \/ Visit("rewards", x) /\ dist' = WithdrawRewards(dist, x)
                 \/ /\ Visit("delegations", x)
                    /\ dist' = InitializeDelegation(IncrementPeriod(dist, x[2]), x, ctx)
  BY <1>10, Zenon DEF WithdrawAllRewards, ReinitializeDelegation
<1>11. ASSUME NEW e \in Entries, ResetCreationHeight(e)
       PROVE  /\ UNCHANGED request
              /\ \E s \in Stages : \E x \in todo : VisitsOnly(s, x)
  <2>1. "redelegations" \in Stages /\ "unbondings" \in Stages
    BY DEF Stages
  <2>2. e \in todo /\ (VisitsOnly("redelegations", e) \/ VisitsOnly("unbondings", e))
        /\ UNCHANGED request
    BY <1>11 DEF ResetCreationHeight, VisitsOnly, Visit
  <2>3. QED BY <2>1, <2>2, Zenon
<1>12. CASE RejectAllowList \/ CloseFails
  <2>1. "exited" \in Stages /\ "export" \in Stages
    BY DEF Stages
  <2>2. (Crosses("exited") \/ Crosses("export")) /\ UNCHANGED request
    BY <1>12, Zenon DEF RejectAllowList, CloseFails, Crosses
  <2>3. QED BY <2>1, <2>2, Zenon
<1>13. QED
  BY <1>1, <1>2, <1>3, <1>4, <1>5, <1>6, <1>7, <1>8, <1>9, <1>10, <1>11, <1>12, Zenon DEF Next

(* Where the export stands, for all the loops and for the heights; it gets *)
(* past the assertion with a list that could be read.                      *)
WayInv ==
  /\ stage \in Stages /\ todo \subseteq Items(stage)
  /\ closes \in BOOLEAN /\ allowed \subseteq Validators \cup Strangers /\ dels \subseteq Pairs
  /\ zero /\ stage \notin {"begin", "assert", "exited"} => allowed \cap Malformed = {}
  /\ ctx \in {0, LastHeight} /\ height \in {0, LastHeight + 1}

LEMMA WayInit == Init => WayInv
<1> SUFFICES ASSUME Init PROVE WayInv
  OBVIOUS
<1>1. /\ closes \in BOOLEAN /\ allowed \subseteq Validators \cup Strangers
      /\ dels \subseteq Pairs
  BY ChainsAssumption DEF Init, Chain
<1>2. QED BY <1>1 DEF Init, WayInv, Stages, Items

LEMMA WayNext ==
  ASSUME WayInv, SeatsInv, [Next]_vars
  PROVE  WayInv'
<1>1. UNCHANGED <<zero, allowed, closes, dels>>
  BY DistSteps DEF request
<1>2. ctx' \in {0, LastHeight}
  BY Steps DEF WayInv
<1>3. ASSUME NEW s, NEW x, Visit(s, x)
      PROVE  stage' \in Stages /\ todo' \subseteq Items(stage)'
  BY <1>1, <1>3 DEF Visit, WayInv, Items
<1>4. ASSUME NEW s \in Stages, Enter(s)
      PROVE  stage' \in Stages /\ todo' \subseteq Items(stage)'
  BY <1>1, <1>4 DEF Enter, Items
<1>5. stage' \in Stages /\ todo' \subseteq Items(stage)'
  <2>1. CASE UNCHANGED <<stage, todo, dist>>
    BY <1>1, <2>1 DEF WayInv, Items
  <2>2. CASE \E s \in Stages : Crosses(s)
    BY <1>4, <2>2, Zenon DEF Crosses
  <2>3. CASE \E s \in Stages : \E x \in todo : VisitsOnly(s, x)
    BY <1>3, <2>3, Zenon DEF VisitsOnly
  <2>4. CASE Clears
    <3>1. "historical" \in Stages /\ "validators" \in Stages
      BY DEF Stages
    <3>2. QED BY <1>4, <2>4, <3>1, Zenon DEF Clears
  <2>5. ASSUME NEW x, Visit("commission", x) \/ Visit("rewards", x)
                      \/ Visit("validators", x) \/ Visit("delegations", x)
        PROVE  stage' \in Stages /\ todo' \subseteq Items(stage)'
    BY <1>3, <2>5, Zenon
  <2>6. QED BY <2>1, <2>2, <2>3, <2>4, <2>5, DistSteps, Zenon
<1>6. height' \in {0, LastHeight + 1}
  <2>1. height' = height \/ height' = (IF zero THEN 0 ELSE LastHeight + 1)
    BY DEF Next, vars, Begin, RejectAllowList, AssertInvariants, EndLoop, CloseFails,
           ClearSlashEvents, ClearHistorical, ApplyUpdates, ExportGenesis,
           WithdrawAllCommission, ReinitializeValidator, ResetValidator, ResetStartHeight,
           WithdrawAllRewards, ReinitializeDelegation, ResetCreationHeight
  <2>2. QED BY <2>1 DEF WayInv
<1>7. ASSUME zero, stage' \notin {"begin", "assert", "exited"}
      PROVE  allowed \cap Malformed = {}
  <2>1. CASE stage \notin {"begin", "assert", "exited"}
    BY <1>7, <2>1 DEF WayInv
  <2>2. CASE stage \in {"begin", "assert", "exited"}
    <3>1. stage' # stage
      BY <1>7, <2>2
    <3>2. PICK s \in Stages : Crosses(s)
      BY <2>2, <3>1, DistSteps DEF VisitsOnly, Visit, Clears
    <3>3. QED BY <1>7, <2>2, <3>2 DEF Crosses, Enter, Following
  <2>3. QED BY <2>1, <2>2
<1>8. QED BY <1>1, <1>2, <1>5, <1>6, <1>7 DEF WayInv

LEMMA PeriodsNext ==
  ASSUME PeriodsInv, WayInv, FreshInv, [Next]_vars
  PROVE  PeriodsInv'
<1>1. /\ dels \subseteq Pairs /\ dels' = dels /\ ctx \in {0, LastHeight} /\ Shape(dist)
  BY DistSteps DEF request, WayInv, FreshInv, DistInv
<1>2. stage = "validators" => \A v \in Validators : dist.slashed[v] = {}
  BY DEF FreshInv, CourseInv, DistInv, AfterSlashes
<1>3. CASE UNCHANGED <<stage, todo, dist>>
  <2>1. \A v \in Validators :
          Of(v)' = Of(v) /\ Ending(v)' = Ending(v) /\ Holding(v)' = Holding(v)
    BY <1>1, <1>3 DEF Ending, Holding, Of
  <2>2. AllPeriods(dist)' <=> AllPeriods(dist)
    BY <1>1, <1>3 DEF AllPeriods
  <2>3. QED BY <1>3, <2>1, <2>2 DEF PeriodsInv, Counts, One
<1>4. CASE \E s \in Stages : Crosses(s)
  <2>1. (IF zero THEN "assert" ELSE "export") \in {"assert", "export"}
    OBVIOUS
  <2>2. QED BY <1>1, <1>2, <1>4, <2>1, PeriodsEntering, Zenon DEF Crosses
<1>5. CASE \E s \in Stages : \E x \in todo : VisitsOnly(s, x)
  <2>1. PICK s, x : Visit(s, x) /\ UNCHANGED dist
                    /\ s \in {"redelegations", "unbondings", "jail", "signing"}
    BY <1>5, Zenon DEF VisitsOnly
  <2>2. s \notin {"historical", "rewards", "validators", "delegations"}
        /\ SamePeriods(dist, dist')
    BY <2>1 DEF SamePeriods
  <2>3. QED BY <1>1, <2>1, <2>2, PeriodsVisiting, Zenon
<1>6. CASE Clears
  BY <1>1, <1>6, PeriodsClearing, Zenon DEF Clears
<1>7. ASSUME NEW v \in Validators, Visit("commission", v), dist' = WithdrawCommission(dist, v)
      PROVE  PeriodsInv'
  <2>1. SamePeriods(dist, dist')
    BY <1>1, <1>7, CommissionChanges, Zenon DEF AfterCommission
  <2>2. "commission" \notin {"historical", "rewards", "validators", "delegations"}
    OBVIOUS
  <2>3. QED BY <1>1, <1>7, <2>1, <2>2, PeriodsVisiting, Zenon
<1>8. ASSUME NEW x \in dels, Visit("rewards", x), dist' = WithdrawRewards(dist, x)
      PROVE  PeriodsInv'
  BY <1>1, <1>8, PeriodsRewards, Zenon
<1>9. ASSUME NEW v \in Validators, Visit("validators", v),
             dist' = InitializeValidator([dist EXCEPT !.pool = @ + Scraps(dist, v)], v)
      PROVE  PeriodsInv'
  <2>1. AfterValidator(dist, v, dist.pool + Scraps(dist, v), dist')
    <3> DEFINE n == dist.pool + Scraps(dist, v)
    <3>1. dist' = InitializeValidator([dist EXCEPT !.pool = n], v)
      BY <1>9, Zenon
    <3> HIDE DEF n
    <3>2. AfterValidator(dist, v, n, InitializeValidator([dist EXCEPT !.pool = n], v))
      BY <1>1, ValidatorChanges, Zenon
    <3> DEFINE E == InitializeValidator([dist EXCEPT !.pool = n], v)
    <3> HIDE DEF E
    <3>3. AfterValidator(dist, v, n, dist')
      BY <3>1, <3>2, Zenon DEF E
    <3>4. QED BY <3>3 DEF n
  <2>2. QED BY <1>1, <1>9, <2>1, PeriodsValidators, Zenon
<1>10. ASSUME NEW x \in dels, Visit("delegations", x),
              dist' = InitializeDelegation(IncrementPeriod(dist, x[2]), x, ctx)
       PROVE  PeriodsInv'
  BY <1>1, <1>10, PeriodsDelegations, Zenon
<1>11. QED BY <1>3, <1>4, <1>5, <1>6, <1>7, <1>8, <1>9, <1>10, DistSteps, Zenon
---------------------------------------------------------------------------
(* What is counted when nothing is deleted                                 *)

LEMMA OwnAt ==
  ASSUME NEW D, D.due \in [dels -> Nat], NEW v
  PROVE  At(D, v) = Of(v)
BY DEF At, Of

LEMMA ReferencesCounted ==
  ASSUME PeriodsInv, dels \subseteq Pairs, dist.due \in [dels -> Nat],
         stage \notin {"historical", "validators", "delegations"}
  PROVE  ReferencesAreCounted(dist)
<1>1. /\ AllPeriods(dist)
      /\ \A v \in Validators : dist.cur[v] + Cardinality(Ending(v)) <= Most /\ dist.cur[v] > 0
      /\ \A v \in Validators : Counts(dist, v, Of(v))
  BY DEF PeriodsInv, Holding
<1>2. SUFFICES ASSUME NEW v \in Validators
               PROVE  /\ Total(dist.hist[v]) = 1 + Cardinality(At(dist, v))
                                                 + Cardinality(dist.slashed[v])
                      /\ dist.hist[v][dist.cur[v] - 1] > 0
                      /\ \A x \in At(dist, v) : dist.hist[v][dist.start[x].period] > 0
  BY DEF ReferencesAreCounted
<1>3. At(dist, v) = Of(v)
  BY OwnAt
<1>4. /\ IsFiniteSet(Of(v)) /\ Of(v) \subseteq dels
  BY Delegating
<1>5. /\ dist.hist[v] \in [Periods -> Nat] /\ dist.slashed[v] \in SUBSET Periods
      /\ dist.cur[v] \in Nat /\ \A x \in Of(v) : dist.start[x].period \in Periods
  BY <1>1, <1>4 DEF AllPeriods
<1>6. dist.cur[v] - 1 \in Periods
  <2> DEFINE c == dist.cur[v]
             n == Cardinality(Ending(v))
  <2>1. IsFiniteSet(Ending(v))
    BY <1>4, FS_EmptySet, FS_Subset DEF Ending
  <2>2. n \in Nat /\ c \in Nat /\ c + n <= Most /\ c > 0
    BY <1>1, <1>5, <2>1, FS_CardinalityType
  <2> HIDE DEF c, n
  <2>3. c - 1 \in Periods
    BY <2>2, BoundPeriods
  <2>4. QED BY <2>3 DEF c
<1>7. Tally(dist.hist[v], dist.cur[v], dist.slashed[v], dist.start, Of(v))
  BY <1>1 DEF Counts
<1>8. /\ Total(dist.hist[v]) = 1 + Cardinality(Of(v)) + Cardinality(dist.slashed[v])
      /\ dist.hist[v][dist.cur[v] - 1] > 0
      /\ \A x \in Of(v) : dist.hist[v][dist.start[x].period] > 0
  <2> DEFINE S == Of(v)
             start == dist.start
             row == dist.hist[v]
             cur == dist.cur[v]
             slashed == dist.slashed[v]
  <2>1. /\ IsFiniteSet(S) /\ row \in [Periods -> Nat] /\ cur \in Nat /\ cur - 1 \in Periods
        /\ slashed \in SUBSET Periods /\ Tally(row, cur, slashed, start, S)
        /\ \A x \in S : start[x].period \in Periods
    BY <1>4, <1>5, <1>6, <1>7
  <2> HIDE DEF S, start, row, cur, slashed
  <2>2. /\ Total(row) = 1 + Cardinality(S) + Cardinality(slashed)
        /\ row[cur - 1] > 0 /\ \A x \in S : row[start[x].period] > 0
    BY <2>1, TallyTotal, Zenon
  <2>3. QED BY <2>2 DEF S, start, row, cur, slashed
<1>9. QED BY <1>3, <1>8, Zenon
---------------------------------------------------------------------------
(* The money                                                               *)

Sound(D) == AllMoney(D) /\ Accounted(D) /\ CanWithdraw(D)
Due(D, v) == SumFunctionOnSet(D.due, Of(v))

LEMMA WholePart ==
  ASSUME NEW n \in Nat
  PROVE  Whole(n) \in Nat /\ Whole(n) <= n
<1> DEFINE q == n \div Coin
           r == n % Coin
<1>1. Coin \in Nat /\ Coin > 0 /\ q \in Int /\ r \in 0 .. Coin - 1 /\ n = Coin * q + r
  BY CoinAssumption
<1>2. q >= 0
  BY CoinAssumption
<1> HIDE DEF q, r
<1>3. q * Coin \in Nat /\ q * Coin <= n
  BY <1>1, <1>2
<1>4. QED BY <1>3 DEF Whole, q

(* The sums that the balance and the shares are compared with.             *)
LEMMA SoundSums ==
  ASSUME dels \subseteq Pairs, NEW D, AllMoney(D)
  PROVE  /\ Total(D.out) = SumFunctionOnSet(D.out, Validators) /\ Total(D.out) \in Nat
         /\ \A v \in Validators : /\ Owed(D, v) = D.com[v] + Due(D, v)
                                  /\ Due(D, v) \in Nat /\ D.com[v] \in Nat /\ D.out[v] \in Nat
<1>1. /\ IsFiniteSet(Validators) /\ IsFiniteSet(dels)
      /\ \A v \in Validators : Of(v) \in SUBSET dels
  BY ValidatorsAssumption, Delegating
<1>2. /\ DOMAIN D.out = Validators /\ \A v \in Validators : D.out[v] \in Nat /\ D.com[v] \in Nat
      /\ D.due \in [dels -> Nat]
  BY DEF AllMoney
<1>3. Total(D.out) = SumFunctionOnSet(D.out, Validators)
  BY <1>2, Zenon DEF Total, SumFunction
<1>4. SumFunctionOnSet(D.out, Validators) \in Nat
  BY <1>1, <1>2, SumType
<1>5. \A x \in dels : D.due[x] \in Nat
  BY <1>2
<1>6. \A s \in SUBSET dels : SumFunctionOnSet(D.due, s) \in Nat
  BY <1>1, <1>5, SumType
<1>7. \A v \in Validators : At(D, v) = Of(v)
  BY <1>2, OwnAt
<1>8. QED BY <1>1, <1>2, <1>3, <1>4, <1>6, <1>7 DEF Due, Owed

LEMMA SoundSame ==
  ASSUME NEW D, NEW E, SameMoney(D, E), Sound(D)
  PROVE  Sound(E)
<1>1. /\ E.out = D.out /\ E.com = D.com /\ E.due = D.due
      /\ E.pool = D.pool /\ E.bank = D.bank /\ E.paid = D.paid /\ E.lost = D.lost
  BY DEF SameMoney
<1>2. AllMoney(E)
  BY <1>1 DEF Sound, AllMoney
<1>3. Accounted(E)
  BY <1>1 DEF Sound, Accounted
<1>4. \A v \in Validators : Owed(E, v) = Owed(D, v)
  BY <1>1, Zenon DEF Owed, At
<1>5. QED BY <1>1, <1>2, <1>3, <1>4 DEF Sound, CanWithdraw

(* A part n of what is outstanding of v goes out, off the balance or not,  *)
(* and no more of it than the share of v shrinks by.                       *)
LEMMA SoundPart ==
  ASSUME dels \subseteq Pairs, NEW D, Sound(D), NEW E, AllMoney(E), NEW v \in Validators,
         NEW n \in Nat, n <= D.out[v], E.out = [D.out EXCEPT ![v] = D.out[v] - n],
         (D.bank - D.lost) - (E.bank - E.lost) = n + D.pool - E.pool,
         \A w \in Validators : w # v => Owed(E, w) = Owed(D, w),
         Owed(E, v) + n <= Owed(D, v) \/ Owed(E, v) = 0
  PROVE  Sound(E)
<1>1. AllMoney(D) /\ Accounted(D) /\ CanWithdraw(D)
  BY DEF Sound
<1>2. /\ \A w \in Validators : D.out[w] \in Nat /\ E.out[w] \in Nat
      /\ E.out[v] = D.out[v] - n /\ \A w \in Validators : w # v => E.out[w] = D.out[w]
      /\ D.bank \in Nat /\ E.bank \in Nat /\ D.pool \in Nat /\ E.pool \in Nat
      /\ D.lost \in Nat /\ E.lost \in Nat
  BY <1>1 DEF AllMoney
<1> DEFINE A == SumFunctionOnSet(D.out, Validators)
           B == SumFunctionOnSet(E.out, Validators)
<1>3. /\ Total(D.out) = A /\ Total(E.out) = B /\ A \in Nat /\ B \in Nat
  BY <1>1, SoundSums
<1>4. B + D.out[v] = A + E.out[v]
  <2>1. IsFiniteSet(Validators)
    BY ValidatorsAssumption
  <2> DEFINE f == D.out
             g == E.out
  <2>2. /\ \A w \in Validators : f[w] \in Nat /\ g[v] \in Nat
        /\ \A w \in Validators : w # v => g[w] = f[w]
    BY <1>2
  <2> HIDE DEF f, g
  <2>3. SumFunctionOnSet(g, Validators) + f[v] = SumFunctionOnSet(f, Validators) + g[v]
    BY <2>1, <2>2, SumChange
  <2>4. QED BY <2>3 DEF f, g
<1>5. D.bank = D.pool + A + D.lost
  BY <1>1, <1>3, Zenon DEF Accounted
<1> HIDE DEF A, B
<1>6. E.bank = E.pool + B + E.lost
  <2> DEFINE a == D.out[v]
             b == E.out[v]
             p == D.pool
             q == E.pool
             r == D.bank
             t == E.bank
             k == D.lost
             l == E.lost
  <2>1. /\ a \in Nat /\ b \in Nat /\ p \in Nat /\ q \in Nat /\ r \in Nat /\ t \in Nat
        /\ k \in Nat /\ l \in Nat /\ b = a - n /\ B + a = A + b /\ r = p + A + k
        /\ (r - k) - (t - l) = n + p - q
    BY <1>2, <1>4, <1>5
  <2> HIDE DEF a, b, p, q, r, t, k, l
  <2>2. B = A - n
    BY <1>3, <2>1
  <2>3. r - k = p + A
    BY <1>3, <2>1
  <2>4. t = q + B + l
    BY <1>3, <2>1, <2>2, <2>3
  <2>5. QED BY <2>4 DEF q, t, l
<1>7. Accounted(E)
  BY <1>3, <1>6, Zenon DEF Accounted
<1>8. ASSUME NEW w \in Validators
      PROVE  Owed(E, w) <= E.out[w]
  <2>1. Owed(D, w) <= D.out[w] /\ Owed(D, w) \in Nat /\ Owed(E, w) \in Nat
    <3>1. /\ Owed(D, w) = D.com[w] + Due(D, w) /\ Due(D, w) \in Nat /\ D.com[w] \in Nat
      BY <1>1, SoundSums
    <3>2. /\ Owed(E, w) = E.com[w] + Due(E, w) /\ Due(E, w) \in Nat /\ E.com[w] \in Nat
      BY SoundSums
    <3>3. QED BY <1>1, <3>1, <3>2 DEF CanWithdraw
  <2>2. CASE w # v
    BY <1>2, <2>1, <2>2
  <2>3. CASE w = v
    BY <1>2, <2>1, <2>3
  <2>4. QED BY <2>2, <2>3
<1>9. QED BY <1>7, <1>8 DEF Sound, CanWithdraw

(* What is outstanding of a validator is covered, its shares are covered   *)
(* by that.                                                                *)
LEMMA SoundShares ==
  ASSUME dels \subseteq Pairs, NEW D, Sound(D), NEW v \in Validators
  PROVE  /\ D.out[v] \in Nat /\ D.com[v] \in Nat /\ Due(D, v) \in Nat /\ D.bank \in Nat
         /\ D.com[v] + Due(D, v) <= D.out[v] /\ D.out[v] <= D.bank
<1>1. AllMoney(D) /\ Accounted(D) /\ CanWithdraw(D)
  BY DEF Sound
<1>2. /\ D.out[v] \in Nat /\ D.com[v] \in Nat /\ Due(D, v) \in Nat
      /\ Owed(D, v) = D.com[v] + Due(D, v)
      /\ Total(D.out) = SumFunctionOnSet(D.out, Validators) /\ Total(D.out) \in Nat
  BY <1>1, SoundSums
<1>3. /\ D.bank \in Nat /\ D.pool \in Nat /\ D.lost \in Nat
      /\ \A w \in Validators : D.out[w] \in Nat
  BY <1>1 DEF AllMoney
<1>4. D.out[v] <= Total(D.out)
  <2> DEFINE f == D.out
  <2>1. IsFiniteSet(Validators) /\ \A w \in Validators : f[w] \in Nat
    BY <1>3, ValidatorsAssumption
  <2> HIDE DEF f
  <2>2. f[v] <= SumFunctionOnSet(f, Validators)
    BY <2>1, SumChange
  <2>3. QED BY <1>2, <2>2 DEF f
<1>5. D.bank = D.pool + Total(D.out) + D.lost
  BY <1>1 DEF Accounted
<1>6. D.out[v] <= D.bank
  BY <1>2, <1>3, <1>4, <1>5
<1>7. QED BY <1>1, <1>2, <1>3, <1>6 DEF CanWithdraw

LEMMA SoundCommission ==
  ASSUME dels \subseteq Pairs, NEW D, Sound(D), NEW v \in Validators, NEW E,
         AfterCommission(D, v, E)
  PROVE  Sound(E)
<1> DEFINE n == Whole(D.com[v])
           m == Sent(D, v)
<1>1. /\ D.out[v] \in Nat /\ D.com[v] \in Nat /\ Due(D, v) \in Nat /\ D.bank \in Nat
      /\ D.com[v] + Due(D, v) <= D.out[v] /\ D.out[v] <= D.bank
  BY SoundShares
<1>2. n \in Nat /\ n <= D.com[v] /\ m \in Nat /\ m <= n
  <2>1. n \in Nat /\ n <= D.com[v] /\ m \in {0, n}
    BY <1>1, WholePart DEF Sent
  <2>2. QED BY <2>1
<1>3. AllMoney(D)
  BY DEF Sound
<1>4. /\ E.due = D.due /\ E.pool = D.pool
      /\ E.com = [D.com EXCEPT ![v] = D.com[v] - n]
      /\ E.out = [D.out EXCEPT ![v] = D.out[v] - n]
      /\ E.bank = D.bank - m /\ E.paid = D.paid + m /\ E.lost = D.lost + (n - m)
  BY DEF AfterCommission
<1> HIDE DEF n, m
<1>5. n <= D.out[v] /\ n <= D.bank
  BY <1>1, <1>2
<1>6. AllMoney(E)
  <2>1. /\ E.bank \in Nat /\ E.paid \in Nat /\ E.lost \in Nat
        /\ D.com[v] - n \in Nat /\ D.out[v] - n \in Nat
    BY <1>1, <1>2, <1>3, <1>4, <1>5 DEF AllMoney
  <2>2. QED BY <1>3, <1>4, <2>1 DEF AllMoney
<1>7. /\ \A w \in Validators : w # v => Owed(E, w) = Owed(D, w)
      /\ Owed(E, v) + n <= Owed(D, v)
  <2>1. \A w \in Validators : Due(E, w) = Due(D, w)
    BY <1>4, Zenon DEF Due
  <2>2. \A w \in Validators : Owed(E, w) = E.com[w] + Due(E, w) /\ Owed(D, w) = D.com[w] + Due(D, w)
    BY <1>3, <1>6, SoundSums
  <2>3. E.com[v] = D.com[v] - n /\ \A w \in Validators : w # v => E.com[w] = D.com[w]
    BY <1>3, <1>4 DEF AllMoney
  <2>4. Owed(E, v) + n <= Owed(D, v)
    BY <1>1, <1>2, <2>1, <2>2, <2>3
  <2>5. QED BY <2>1, <2>2, <2>3, <2>4
<1>8. (D.bank - D.lost) - (E.bank - E.lost) = n + D.pool - E.pool
  <2>1. D.pool \in Nat /\ D.lost \in Nat
    BY <1>3 DEF AllMoney
  <2>2. QED BY <1>1, <1>2, <1>4, <2>1
<1>9. QED BY <1>2, <1>4, <1>5, <1>6, <1>7, <1>8, SoundPart

LEMMA SoundPaid ==
  ASSUME dels \subseteq Pairs, NEW D, Sound(D), NEW x \in dels, NEW d, NEW E,
         AfterPaying(D, x, d, E)
  PROVE  Sound(E)
<1> DEFINE v == x[2]
           n == D.due[x]
           coins == Whole(n)
<1>0. v \in Validators /\ x \in Of(v)
  BY Delegating DEF Of
<1>1. /\ D.out[v] \in Nat /\ D.com[v] \in Nat /\ Due(D, v) \in Nat /\ D.bank \in Nat
      /\ D.com[v] + Due(D, v) <= D.out[v] /\ D.out[v] <= D.bank
  BY <1>0, SoundShares
<1>2. AllMoney(D)
  BY DEF Sound
<1>3. n \in Nat /\ coins \in Nat /\ coins <= n
  BY <1>2, WholePart DEF AllMoney
<1>4. /\ E.com = D.com /\ E.due = [D.due EXCEPT ![x] = 0]
      /\ E.out = [D.out EXCEPT ![v] = D.out[v] - n]
      /\ E.pool = D.pool + (n - coins) /\ E.bank = D.bank - coins /\ E.paid = D.paid + coins
      /\ E.lost = D.lost
  BY DEF AfterPaying
<1> HIDE DEF coins
<1>5. Due(E, v) + n = Due(D, v) /\ n <= Due(D, v) /\ \A w \in Validators : w # v => Due(E, w) = Due(D, w)
  <2> DEFINE f == D.due
             g == E.due
  <2>1. /\ f \in [dels -> Nat] /\ g = [f EXCEPT ![x] = 0]
        /\ \A w \in Validators : Of(w) \subseteq dels /\ IsFiniteSet(Of(w))
    BY <1>2, <1>4, Delegating DEF AllMoney
  <2> HIDE DEF f, g
  <2>2. g[x] = 0 /\ \A y \in dels : f[y] \in Nat /\ (y # x => g[y] = f[y])
    BY <2>1
  <2>3. /\ IsFiniteSet(Of(v)) /\ \A y \in Of(v) : f[y] \in Nat /\ g[x] \in Nat
        /\ \A y \in Of(v) : y # x => g[y] = f[y]
    BY <1>0, <2>1, <2>2
  <2>4. /\ SumFunctionOnSet(g, Of(v)) + f[x] = SumFunctionOnSet(f, Of(v)) + g[x]
        /\ f[x] <= SumFunctionOnSet(f, Of(v))
    <3> DEFINE S == Of(v)
    <3>1. /\ IsFiniteSet(S) /\ x \in S /\ \A y \in S : f[y] \in Nat /\ g[x] \in Nat
          /\ \A y \in S : y # x => g[y] = f[y]
      BY <1>0, <2>3
    <3> HIDE DEF S
    <3>2. /\ SumFunctionOnSet(g, S) + f[x] = SumFunctionOnSet(f, S) + g[x]
          /\ f[x] <= SumFunctionOnSet(f, S)
      BY <3>1, SumChange
    <3>3. QED BY <3>2 DEF S
  <2>5. \A w \in Validators : w # v => SumFunctionOnSet(g, Of(w)) = SumFunctionOnSet(f, Of(w))
    <3>1. SUFFICES ASSUME NEW w \in Validators, w # v
                   PROVE  SumFunctionOnSet(g, Of(w)) = SumFunctionOnSet(f, Of(w))
      OBVIOUS
    <3> DEFINE S == Of(w)
    <3>2. x \notin S
      BY <3>1 DEF Of
    <3>3. IsFiniteSet(S) /\ \A y \in S : f[y] \in Nat /\ g[y] = f[y]
      BY <2>1, <2>2, <3>2
    <3> HIDE DEF S
    <3>4. SumFunctionOnSet(g, S) = SumFunctionOnSet(f, S)
      BY <3>3, SumSame
    <3>5. QED BY <3>4 DEF S
  <2>6. SumFunctionOnSet(g, Of(v)) + n = SumFunctionOnSet(f, Of(v)) + 0
    BY <2>2, <2>4 DEF f
  <2>7. Due(E, v) + n = Due(D, v) + 0
    BY <2>6, Zenon DEF Due, f, g
  <2>8. n <= Due(D, v)
    BY <2>4, Zenon DEF Due, f
  <2>9. QED BY <1>1, <2>5, <2>7, <2>8 DEF Due, f, g
<1> HIDE DEF n, v
<1>6. AllMoney(E)
  <2>1. /\ E.bank \in Nat /\ E.paid \in Nat /\ E.pool \in Nat /\ D.out[v] - n \in Nat
    <3>1. D.bank \in Nat /\ D.paid \in Nat /\ D.pool \in Nat
      BY <1>2 DEF AllMoney
    <3>2. coins <= D.bank /\ n <= D.out[v]
      BY <1>1, <1>3, <1>5
    <3>3. QED BY <1>1, <1>3, <1>4, <3>1, <3>2
  <2>2. E.out \in [Validators -> Nat]
    <3> DEFINE o == D.out[v] - n
    <3>1. E.out = [D.out EXCEPT ![v] = o] /\ o \in Nat /\ D.out \in [Validators -> Nat]
      BY <1>2, <1>4, <2>1 DEF AllMoney
    <3> HIDE DEF o
    <3>2. QED BY <3>1
  <2>3. E.due \in [dels -> Nat]
    BY <1>2, <1>4 DEF AllMoney
  <2>4. E.com \in [Validators -> Nat]
    BY <1>2, <1>4 DEF AllMoney
  <2>5. QED BY <1>2, <1>4, <2>1, <2>2, <2>3, <2>4 DEF AllMoney
<1>7. /\ \A w \in Validators : w # v => Owed(E, w) = Owed(D, w)
      /\ Owed(E, v) + n <= Owed(D, v)
  <2>1. \A w \in Validators : Owed(E, w) = D.com[w] + Due(E, w) /\ Owed(D, w) = D.com[w] + Due(D, w)
    BY <1>2, <1>4, <1>6, SoundSums
  <2>2. Due(E, v) \in Nat
    BY <1>0, <1>6, SoundSums
  <2>3. Owed(E, v) + n <= Owed(D, v)
    BY <1>0, <1>1, <1>3, <1>5, <2>1, <2>2
  <2>4. QED BY <1>5, <2>1, <2>3
<1>8. (D.bank - D.lost) - (E.bank - E.lost) = n + D.pool - E.pool /\ n <= D.out[v]
  <2>1. D.pool \in Nat /\ D.lost \in Nat
    BY <1>2 DEF AllMoney
  <2>2. QED BY <1>1, <1>3, <1>4, <1>5, <2>1
<1>9. QED BY <1>0, <1>3, <1>4, <1>6, <1>7, <1>8, SoundPart

LEMMA SoundValidator ==
  ASSUME dels \subseteq Pairs, NEW D, Sound(D), NEW v \in Validators, NEW E,
         AfterValidator(D, v, D.pool + D.out[v], E)
  PROVE  Sound(E)
<1> DEFINE n == D.out[v]
<1>1. /\ n \in Nat /\ D.bank \in Nat
  BY SoundShares
<1>2. AllMoney(D)
  BY DEF Sound
<1>3. /\ E.pool = D.pool + n /\ E.bank = D.bank /\ E.paid = D.paid /\ E.lost = D.lost
      /\ E.com = [D.com EXCEPT ![v] = 0] /\ E.out = [D.out EXCEPT ![v] = 0]
      /\ E.due = [x \in DOMAIN D.due |-> IF x[2] = v THEN 0 ELSE D.due[x]]
  BY DEF AfterValidator
<1>4. AllMoney(E)
  <2>1. E.pool \in Nat
    BY <1>1, <1>2, <1>3 DEF AllMoney
  <2>2. E.due \in [dels -> Nat]
    BY <1>2, <1>3 DEF AllMoney
  <2>3. QED BY <1>2, <1>3, <2>1, <2>2 DEF AllMoney
<1>5. \A w \in Validators : Of(w) \subseteq dels /\ IsFiniteSet(Of(w))
  BY Delegating
<1>6. /\ D.due \in [dels -> Nat]
      /\ \A x \in dels : E.due[x] = IF x[2] = v THEN 0 ELSE D.due[x]
  BY <1>2, <1>3 DEF AllMoney
<1>7. Due(E, v) = 0
  <2> DEFINE S == Of(v)
             g == E.due
  <2>1. IsFiniteSet(S) /\ \A x \in S : g[x] = 0
    BY <1>5, <1>6 DEF Of
  <2> HIDE DEF S, g
  <2>2. SumFunctionOnSet(g, S) = 0
    BY <2>1, SumZero
  <2>3. QED BY <2>2 DEF S, g, Due
<1>8. ASSUME NEW w \in Validators, w # v
      PROVE  Due(E, w) = Due(D, w)
  <2> DEFINE S == Of(w)
             g == E.due
             f == D.due
  <2>1. IsFiniteSet(S) /\ \A x \in S : f[x] \in Nat /\ g[x] = f[x]
    BY <1>5, <1>6, <1>8 DEF Of
  <2> HIDE DEF S, g, f
  <2>2. SumFunctionOnSet(g, S) = SumFunctionOnSet(f, S)
    BY <2>1, SumSame
  <2>3. QED BY <2>2 DEF S, g, f, Due
<1>9. \A w \in Validators : w # v => Owed(E, w) = Owed(D, w)
  <2>1. \A w \in Validators : Owed(E, w) = E.com[w] + Due(E, w) /\ Owed(D, w) = D.com[w] + Due(D, w)
    BY <1>2, <1>4, SoundSums
  <2>2. \A w \in Validators : w # v => E.com[w] = D.com[w]
    BY <1>2, <1>3 DEF AllMoney
  <2>3. QED BY <1>8, <2>1, <2>2
<1>10. Owed(E, v) = 0
  <2>1. E.com[v] = 0 /\ Owed(E, v) = E.com[v] + Due(E, v)
    BY <1>2, <1>3, <1>4, SoundSums DEF AllMoney
  <2>2. QED BY <1>7, <2>1
<1> HIDE DEF n
<1>11. E.out = [D.out EXCEPT ![v] = D.out[v] - n] /\ n <= D.out[v]
  BY <1>1, <1>3 DEF n
<1>12. (D.bank - D.lost) - (E.bank - E.lost) = n + D.pool - E.pool
  <2>1. D.pool \in Nat /\ D.lost \in Nat
    BY <1>2 DEF AllMoney
  <2>2. QED BY <1>1, <1>3, <2>1
<1>13. QED BY <1>1, <1>4, <1>9, <1>10, <1>11, <1>12, SoundPart

LEMMA MoneyInit == Init => MoneyInv
<1> SUFFICES ASSUME Init PROVE MoneyInv
  OBVIOUS
<1>1. PICK due \in [dels -> Nat], com \in [Validators -> Nat], dust \in [Validators -> Nat],
           slash \in [Validators -> SUBSET Nat] : Exported(due, com, dust, slash, dist)
  BY ExportedState
<1>2. /\ dist.out = [v \in Validators |-> com[v] + dust[v] + SumFunctionOnSet(due, Of(v))]
      /\ dist.com = com /\ dist.due = due /\ dist.pool = 0 /\ dist.paid = 0 /\ dist.lost = 0
      /\ dist.bank = Total(com) + Total(dust) + Total(due)
  BY <1>1 DEF Exported
<1>3. stage = "begin" /\ dels \subseteq Pairs
  BY ChainsAssumption DEF Init, Chain
<1>4. /\ IsFiniteSet(Validators) /\ IsFiniteSet(dels)
      /\ \A x \in dels : x[2] \in Validators
      /\ \A v \in Validators : Of(v) \in SUBSET dels
  BY <1>3, Delegating, ValidatorsAssumption
<1> DEFINE s == [v \in Validators |-> SumFunctionOnSet(due, Of(v))]
           cd == [v \in Validators |-> com[v] + dust[v]]
           out == [v \in Validators |-> com[v] + dust[v] + SumFunctionOnSet(due, Of(v))]
<1>5. \A v \in Validators : s[v] \in Nat
  <2>1. \A x \in dels : due[x] \in Nat
    OBVIOUS
  <2>2. \A t \in SUBSET dels : SumFunctionOnSet(due, t) \in Nat
    BY <1>4, <2>1, SumType
  <2>3. QED BY <1>4, <2>2
<1>6. /\ DOMAIN out = Validators /\ DOMAIN com = Validators /\ DOMAIN dust = Validators
      /\ DOMAIN due = dels
      /\ \A v \in Validators : /\ com[v] \in Nat /\ dust[v] \in Nat
                               /\ cd[v] = com[v] + dust[v] /\ cd[v] \in Nat
                               /\ out[v] = cd[v] + s[v] /\ out[v] \in Nat
                               /\ s[v] = SumFunctionOnSet(due, Of(v)) /\ s[v] \in Nat
  <2>1. \A v \in Validators : s[v] = SumFunctionOnSet(due, Of(v))
    OBVIOUS
  <2>2. QED BY <1>5, <2>1
<1>7. SumFunctionOnSet(s, Validators) = SumFunctionOnSet(due, dels)
  <2> DEFINE g == [x \in dels |-> x[2]]
  <2>1. (\A x \in dels : g[x] \in Validators) /\ \A x \in dels : due[x] \in Nat
    BY <1>4
  <2>2. SumFunctionOnSet([v \in Validators |-> SumFunctionOnSet(due, {x \in dels : g[x] = v})],
                         Validators) = SumFunctionOnSet(due, dels)
    <3> HIDE DEF g
    <3>1. QED BY <1>4, <2>1, SumFibres
  <2>3. \A v \in Validators : {x \in dels : g[x] = v} = Of(v)
    BY DEF Of
  <2>4. [v \in Validators |-> SumFunctionOnSet(due, {x \in dels : g[x] = v})] = s
    <3> HIDE DEF g
    <3>1. QED BY <2>3
  <2>5. QED BY <2>2, <2>4, Zenon
<1> HIDE DEF s, cd, out
<1>8. SumFunctionOnSet(cd, Validators)
        = SumFunctionOnSet(com, Validators) + SumFunctionOnSet(dust, Validators)
  BY <1>4, <1>6, SumPlus
<1>9. SumFunctionOnSet(out, Validators)
        = SumFunctionOnSet(cd, Validators) + SumFunctionOnSet(s, Validators)
  BY <1>4, <1>6, SumPlus
<1>10. /\ Total(out) = SumFunctionOnSet(out, Validators)
       /\ Total(com) = SumFunctionOnSet(com, Validators)
       /\ Total(dust) = SumFunctionOnSet(dust, Validators)
       /\ Total(due) = SumFunctionOnSet(due, dels)
  BY <1>6, Zenon DEF Total, SumFunction
<1>11. /\ Total(com) \in Nat /\ Total(dust) \in Nat /\ Total(due) \in Nat
  <2>1. (\A v \in Validators : com[v] \in Nat /\ dust[v] \in Nat) /\ \A x \in dels : due[x] \in Nat
    BY <1>6
  <2>2. /\ SumFunctionOnSet(com, Validators) \in Nat /\ SumFunctionOnSet(dust, Validators) \in Nat
        /\ SumFunctionOnSet(due, dels) \in Nat
    BY <1>4, <2>1, SumType
  <2>3. QED BY <1>10, <2>2
<1>12. dist.out = out
  BY <1>2, Zenon DEF out
<1>13. AllMoney(dist)
  <2>1. out \in [Validators -> Nat]
    BY <1>6 DEF out
  <2>2. dist.bank \in Nat
    BY <1>2, <1>11
  <2>3. QED BY <1>2, <1>12, <2>1, <2>2 DEF AllMoney
<1>14. Accounted(dist)
  <2>1. Total(out) = Total(com) + Total(dust) + Total(due)
    BY <1>7, <1>8, <1>9, <1>10, Zenon
  <2>2. dist.bank = Total(out) /\ Total(out) \in Nat
    BY <1>2, <1>11, <2>1
  <2>3. dist.bank = 0 + Total(out) + 0
    BY <2>2
  <2>4. QED BY <1>2, <1>12, <2>3, Zenon DEF Accounted
<1>15. CanWithdraw(dist)
  <2>1. SUFFICES ASSUME NEW v \in Validators PROVE Owed(dist, v) <= dist.out[v]
    BY DEF CanWithdraw
  <2>2. Owed(dist, v) = com[v] + Due(dist, v)
    BY <1>2, <1>3, <1>13, SoundSums
  <2>3. Due(dist, v) = s[v]
    BY <1>2, <1>6, Zenon DEF Due
  <2>4. QED BY <1>6, <1>12, <2>2, <2>3
<1>16. QED BY <1>3, <1>13, <1>14, <1>15
    DEF MoneyInv, Visited, AfterValidators, AfterDelegations, AfterRedelegations,
        AfterUnbondings, AfterJail, AfterSigning

(* The parts of the export that come after the scraps are donated start    *)
(* when all of them are.                                                   *)
LEMMA MoneyNext ==
  ASSUME MoneyInv, WayInv, FreshInv, [Next]_vars
  PROVE  MoneyInv'
<1>1. /\ dels \subseteq Pairs /\ dels' = dels /\ zero' = zero /\ Shape(dist)
      /\ todo \subseteq Items(stage)
  BY DistSteps DEF request, WayInv, FreshInv, DistInv
<1>2. Sound(dist)
  BY DEF MoneyInv, Sound
<1>3. ASSUME Sound(dist'),
             zero => \A v \in Validators :
                       Visited("validators", AfterValidators, v)' => dist'.out[v] = 0
      PROVE  MoneyInv'
  BY <1>1, <1>3 DEF Sound, MoneyInv, AllMoney
<1>4. CASE UNCHANGED <<stage, todo, dist>>
  BY <1>1, <1>2, <1>3, <1>4 DEF MoneyInv, Visited
<1>5. CASE \E s \in Stages : Crosses(s)
  <2>1. PICK s \in Stages : Crosses(s)
    BY <1>5
  <2>2. SUFFICES ASSUME zero, NEW v \in Validators, Visited("validators", AfterValidators, v)'
                 PROVE  Visited("validators", AfterValidators, v)
    BY <1>2, <1>3, <2>1 DEF MoneyInv, Crosses
  <2>3. QED BY <2>1, <2>2 DEF Crosses, Enter, Items, Visited, Following, FreshInv, CourseInv,
              AfterValidators, AfterDelegations, AfterRedelegations, AfterUnbondings,
              AfterJail, AfterSigning
<1>6. CASE \E s \in Stages : \E x \in todo : VisitsOnly(s, x)
  <2>1. PICK s \in Stages, x \in todo : VisitsOnly(s, x)
    BY <1>6
  <2>2. SUFFICES ASSUME zero, NEW v \in Validators, Visited("validators", AfterValidators, v)'
                 PROVE  Visited("validators", AfterValidators, v)
    BY <1>2, <1>3, <2>1 DEF MoneyInv, VisitsOnly
  <2>3. QED BY <2>1, <2>2 DEF VisitsOnly, Visit, Visited
<1>7. ASSUME ~ \E v \in Validators : Visited("validators", AfterValidators, v)', Sound(dist')
      PROVE  MoneyInv'
  BY <1>3, <1>7
<1>8. CASE Clears
  <2>1. SameMoney(dist, dist')
    BY <1>1, <1>8, DeletingChanges, Zenon DEF Clears
  <2>2. ~ \E v \in Validators : Visited("validators", AfterValidators, v)'
    BY <1>8 DEF Clears, Enter, Items, Visited,
              AfterValidators, AfterDelegations, AfterRedelegations, AfterUnbondings,
              AfterJail, AfterSigning
  <2>3. QED BY <1>2, <1>7, <2>1, <2>2, SoundSame
<1>9. ASSUME NEW s \in {"commission", "rewards"}, NEW x, Visit(s, x)
      PROVE  ~ \E v \in Validators : Visited("validators", AfterValidators, v)'
  BY <1>9 DEF Visit, Visited, AfterValidators, AfterDelegations, AfterRedelegations,
              AfterUnbondings, AfterJail, AfterSigning
<1>10. ASSUME NEW v \in Validators, Visit("commission", v), dist' = WithdrawCommission(dist, v)
       PROVE  MoneyInv'
  <2>1. AfterCommission(dist, v, dist')
    BY <1>1, <1>10, CommissionChanges, Zenon
  <2>2. Sound(dist')
    BY <1>1, <1>2, <2>1, SoundCommission
  <2>3. QED BY <1>7, <1>9, <1>10, <2>2
<1>11. ASSUME NEW x \in dels, Visit("rewards", x), dist' = WithdrawRewards(dist, x)
       PROVE  MoneyInv'
  <2> DEFINE d == IncrementPeriod(dist, x[2])
             p == PaidOut(dist, x)
             E == InitializeDelegation(p, x, ctx)
  <2>1. dist' \in {d, E}
    BY <1>11, WithdrawalChanges
  <2>2. SameMoney(dist, d)
    BY <1>1, IncrementChanges, Zenon DEF AfterIncrement
  <2>3. AfterPaying(dist, x, d, p) /\ Shape(p)
    <3>1. AfterPaying(dist, x, d, p)
      BY <1>1, PayingChanges, Zenon
    <3>2. QED BY <3>1, Zenon DEF AfterPaying
  <2>4. AfterInitialize(p, x, ctx, E)
    BY <1>1, <2>3, InitializeChanges, Zenon
  <2>5. SameMoney(p, E)
    BY <2>4, Zenon DEF AfterInitialize
  <2> HIDE DEF d, p, E
  <2>6. Sound(p)
    BY <1>1, <1>2, <2>3, SoundPaid
  <2>7. Sound(d) /\ Sound(E)
    BY <1>2, <2>2, <2>5, <2>6, SoundSame
  <2>8. QED BY <1>7, <1>9, <1>11, <2>1, <2>7
<1>12. ASSUME NEW v \in Validators, Visit("validators", v),
              dist' = InitializeValidator([dist EXCEPT !.pool = @ + Scraps(dist, v)], v)
       PROVE  MoneyInv'
  <2> DEFINE n == dist.pool + dist.out[v]
             E == InitializeValidator([dist EXCEPT !.pool = n], v)
  <2>1. dist' = E
    BY <1>12, Zenon DEF Scraps
  <2>2. AfterValidator(dist, v, n, E)
    BY <1>1, ValidatorChanges, Zenon
  <2> HIDE DEF E
  <2>3. AfterValidator(dist, v, n, dist')
    BY <2>1, <2>2, Zenon
  <2>4. Sound(dist')
    BY <1>1, <1>2, <2>3, SoundValidator
  <2>5. dist'.out = [dist.out EXCEPT ![v] = 0]
    BY <2>3 DEF AfterValidator
  <2>6. SUFFICES ASSUME zero, NEW w \in Validators, w # v,
                        Visited("validators", AfterValidators, w)'
                 PROVE  Visited("validators", AfterValidators, w)
    BY <1>2, <1>3, <2>4, <2>5 DEF MoneyInv, Sound, AllMoney
  <2>7. QED BY <1>12, <2>6 DEF Visit, Visited
<1>13. ASSUME NEW x \in dels, Visit("delegations", x),
              dist' = InitializeDelegation(IncrementPeriod(dist, x[2]), x, ctx)
       PROVE  MoneyInv'
  <2> DEFINE d == IncrementPeriod(dist, x[2])
             E == InitializeDelegation(d, x, ctx)
  <2>1. SameMoney(dist, d) /\ Shape(d)
    BY <1>1, Incrementing, IncrementChanges, Zenon DEF AfterIncrement
  <2>2. SameMoney(d, E)
    BY <1>1, <2>1, InitializeChanges, Zenon DEF AfterInitialize
  <2>3. dist' = E
    BY <1>13, Zenon
  <2> HIDE DEF d, E
  <2>4. Sound(dist') /\ dist'.out = dist.out
    BY <1>2, <2>1, <2>2, <2>3, SoundSame DEF SameMoney
  <2>5. SUFFICES ASSUME zero, NEW v \in Validators, Visited("validators", AfterValidators, v)'
                 PROVE  Visited("validators", AfterValidators, v)
    BY <1>3, <2>4 DEF MoneyInv
  <2>6. QED BY <1>13, <2>5 DEF Visit, Visited, AfterValidators
<1>14. QED BY <1>4, <1>5, <1>6, <1>8, <1>10, <1>11, <1>12, <1>13, DistSteps, Zenon

(* Nothing is lost but commissions that an export for height 0 withdraws   *)
(* for validators whose operator the bank does not pay.                    *)
LossInv == dist.lost = 0 \/ (zero /\ stage \notin {"begin", "assert"} /\ Unpayable # {})

LEMMA LossInit == Init => LossInv
BY ExportedState DEF Exported, LossInv

LEMMA LossNext ==
  ASSUME LossInv, MoneyInv, WayInv, FreshInv, [Next]_vars
  PROVE  LossInv'
<1>1. dels \subseteq Pairs /\ zero' = zero /\ Shape(dist)
  BY DistSteps DEF request, WayInv, FreshInv, DistInv
<1>2. ASSUME dist'.lost = dist.lost,
             stage \in {"begin", "assert"} \/ stage' \notin {"begin", "assert"}
      PROVE  LossInv'
  BY <1>1, <1>2 DEF LossInv
<1>3. ASSUME NEW s, NEW x, Visit(s, x)
      PROVE  stage \in {"begin", "assert"} \/ stage' \notin {"begin", "assert"}
  BY <1>3 DEF Visit
<1>4. CASE UNCHANGED <<stage, todo, dist>>
  BY <1>2, <1>4
<1>5. CASE \E s \in Stages : Crosses(s)
  BY <1>2, <1>5 DEF Crosses, Enter, Following
<1>6. CASE \E s \in Stages : \E x \in todo : VisitsOnly(s, x)
  BY <1>2, <1>3, <1>6 DEF VisitsOnly
<1>7. CASE Clears
  <2>1. dist'.lost = dist.lost
    BY <1>1, <1>7, DeletingChanges, Zenon DEF Clears, SameMoney
  <2>2. stage' \notin {"begin", "assert"}
    BY <1>7 DEF Clears, Enter
  <2>3. QED BY <1>2, <2>1, <2>2
<1>8. ASSUME NEW v \in Validators, Visit("commission", v), dist' = WithdrawCommission(dist, v)
      PROVE  LossInv'
  <2>1. dist'.lost = dist.lost + (Whole(dist.com[v]) - Sent(dist, v))
    BY <1>1, <1>8, CommissionChanges, Zenon DEF AfterCommission
  <2>2. zero /\ stage' = "commission"
    BY <1>8 DEF Visit, FreshInv, CourseInv
  <2>3. CASE Unpayable = {}
    <3>1. Sent(dist, v) = Whole(dist.com[v]) /\ dist.com[v] \in Nat /\ dist.lost = 0
      BY <2>3 DEF Sent, LossInv, MoneyInv, AllMoney
    <3>2. dist'.lost = 0
      BY <2>1, <3>1, WholePart
    <3>3. QED BY <3>2 DEF LossInv
  <2>4. CASE Unpayable # {}
    BY <1>1, <2>2, <2>4 DEF LossInv
  <2>5. QED BY <2>3, <2>4
<1>9. ASSUME NEW x \in dels, Visit("rewards", x), dist' = WithdrawRewards(dist, x)
      PROVE  LossInv'
  <2> DEFINE d == IncrementPeriod(dist, x[2])
             p == PaidOut(dist, x)
             E == InitializeDelegation(p, x, ctx)
  <2>1. dist' \in {d, E}
    BY <1>9, WithdrawalChanges
  <2>2. d.lost = dist.lost
    BY <1>1, IncrementChanges, Zenon DEF AfterIncrement, SameMoney
  <2>3. p.lost = dist.lost /\ Shape(p)
    BY <1>1, PayingChanges, Zenon DEF AfterPaying
  <2>4. AfterInitialize(p, x, ctx, E)
    BY <2>3, InitializeChanges, Zenon
  <2>5. E.lost = p.lost
    BY <2>4, Zenon DEF AfterInitialize, SameMoney
  <2> HIDE DEF d, p, E
  <2>6. QED BY <1>2, <1>3, <1>9, <2>1, <2>2, <2>3, <2>5
<1>10. ASSUME NEW v \in Validators, Visit("validators", v),
              dist' = InitializeValidator([dist EXCEPT !.pool = @ + Scraps(dist, v)], v)
       PROVE  LossInv'
  <2>1. dist'.lost = dist.lost
    <3> DEFINE n == dist.pool + Scraps(dist, v)
               E == InitializeValidator([dist EXCEPT !.pool = n], v)
    <3>1. dist' = E
      BY <1>10, Zenon
    <3>2. AfterValidator(dist, v, n, E)
      BY <1>1, ValidatorChanges, Zenon
    <3> HIDE DEF n, E
    <3>3. QED BY <3>1, <3>2, Zenon DEF AfterValidator
  <2>2. QED BY <1>2, <1>3, <1>10, <2>1
<1>11. ASSUME NEW x \in dels, Visit("delegations", x),
              dist' = InitializeDelegation(IncrementPeriod(dist, x[2]), x, ctx)
       PROVE  LossInv'
  <2> DEFINE d == IncrementPeriod(dist, x[2])
             E == InitializeDelegation(d, x, ctx)
  <2>1. d.lost = dist.lost /\ Shape(d)
    BY <1>1, Incrementing, IncrementChanges, Zenon DEF AfterIncrement, SameMoney
  <2>2. AfterInitialize(d, x, ctx, E)
    BY <2>1, InitializeChanges, Zenon
  <2>3. E.lost = d.lost
    BY <2>2, Zenon DEF AfterInitialize, SameMoney
  <2>4. dist' = E
    BY <1>11, Zenon
  <2> HIDE DEF d, E
  <2>5. QED BY <1>2, <1>3, <1>11, <2>1, <2>3, <2>4
<1>12. QED BY <1>4, <1>5, <1>6, <1>7, <1>8, <1>9, <1>10, <1>11, DistSteps, Zenon
---------------------------------------------------------------------------
(* Jailing                                                                 *)

(* Whoever is jailed and in the power index has been jailed by the allow   *)
(* list, so that only an allow list makes the last election panic.         *)
JailInv ==
  /\ \A v \in Validators : val[v].unbondingHeight \in {0, LastHeight}
  /\ \A v \in index : val[v].jailed => Jails(v)
  /\ PanicsOnlyOverAllowList

LEMMA Elections ==
  ASSUME NEW V \in [Validators -> ValidatorRecords], NEW I \in SUBSET Validators, NEW h,
         NEW v \in Validators
  PROVE  /\ AppliedUpdates(V, I, h)[v].jailed = V[v].jailed
         /\ AppliedUpdates(V, I, h)[v].unbondingHeight \in {V[v].unbondingHeight, h}
<1>1. V[v] \in ValidatorRecords
  OBVIOUS
<1>2. AppliedUpdates(V, I, h)[v] \in
        {[V[v] EXCEPT !.status = "bonded"],
         [V[v] EXCEPT !.status = "unbonding", !.unbondingHeight = h], V[v]}
  BY DEF AppliedUpdates
<1>3. QED BY <1>1, <1>2 DEF ValidatorRecords

LEMMA JailInit == Init => JailInv
<1> SUFFICES ASSUME Init PROVE JailInv
  OBVIOUS
<1>1. PICK chain \in Chains : InitStaking(chain)
  BY DEF Init
<1>2. chain.powers \subseteq Nat
  BY <1>1, ChainsAssumption DEF Chain
<1>3. PICK power \in [Validators -> chain.powers], jailed \in SUBSET Validators,
           old \in [Validators -> {"unbonding", "unbonded"}] :
        LET unelected ==
              [v \in Validators |->
                [power |-> power[v], jailed |-> v \in jailed, status |-> old[v],
                 unbondingHeight |-> LastHeight]]
        IN /\ index = Validators \ jailed
           /\ val = AppliedUpdates(unelected, index, LastHeight)
  BY <1>1, Zenon DEF InitStaking
<1> DEFINE V == [v \in Validators |->
                  [power |-> power[v], jailed |-> v \in jailed, status |-> old[v],
                   unbondingHeight |-> LastHeight]]
<1>4. index = Validators \ jailed /\ val = AppliedUpdates(V, index, LastHeight)
  BY <1>3
<1>5. \A v \in Validators : /\ V[v] \in ValidatorRecords
                            /\ V[v].jailed = (v \in jailed)
                            /\ V[v].unbondingHeight = LastHeight
  <2>1. \A v \in Validators :
          power[v] \in Nat /\ (v \in jailed) \in BOOLEAN
          /\ old[v] \in {"bonded", "unbonding", "unbonded"} /\ LastHeight \in Nat
    BY <1>2, StakingAssumption
  <2>2. QED BY <2>1 DEF ValidatorRecords
<1>6. V \in [Validators -> ValidatorRecords]
  BY <1>5
<1> HIDE DEF V
<1>7. \A v \in Validators : /\ val[v].jailed = (v \in jailed)
                            /\ val[v].unbondingHeight \in {LastHeight}
  BY <1>4, <1>5, <1>6, Elections
<1>8. stage # "panicked"
  BY DEF Init
<1>9. QED BY <1>4, <1>7, <1>8 DEF JailInv, PanicsOnlyOverAllowList

(* Only two calls panic, and there is no step after a panic.               *)
LEMMA Panicking ==
  ASSUME [Next]_vars, stage' = "panicked"
  PROVE  UNCHANGED vars \/ AssertInvariants \/ ApplyUpdates
<1>1. ASSUME Begin PROVE stage' # "panicked"
  BY <1>1 DEF Begin, Enter
<1>2. ASSUME EndLoop PROVE stage' # "panicked"
  BY <1>2 DEF EndLoop, Enter, Following
<1>3. ASSUME \/ RejectAllowList \/ CloseFails
             \/ ClearSlashEvents \/ ClearHistorical \/ ExportGenesis
      PROVE  stage' # "panicked"
  BY <1>3 DEF RejectAllowList, CloseFails, ClearSlashEvents, ClearHistorical, ExportGenesis, Enter
<1>4. ASSUME NEW s, NEW x, Visit(s, x), s \in DOMAIN Following PROVE stage' # "panicked"
  BY <1>4 DEF Visit, Following
<1>5. ASSUME NEW v \in Validators,
             \/ WithdrawAllCommission(v) \/ ReinitializeValidator(v)
             \/ ResetValidator(v) \/ ResetStartHeight(v)
      PROVE  stage' # "panicked"
  BY <1>4, <1>5 DEF WithdrawAllCommission, ReinitializeValidator, ResetValidator,
     ResetStartHeight, Following
<1>6. ASSUME NEW x \in dels, WithdrawAllRewards(x) \/ ReinitializeDelegation(x)
      PROVE  stage' # "panicked"
  BY <1>4, <1>6 DEF WithdrawAllRewards, ReinitializeDelegation, Following
<1>7. ASSUME NEW e \in Entries, ResetCreationHeight(e)
      PROVE  stage' # "panicked"
  BY <1>4, <1>7 DEF ResetCreationHeight, Following
<1>8. QED BY <1>1, <1>2, <1>3, <1>5, <1>6, <1>7, Zenon DEF Next

(* The invariants that an export for height 0 asserts hold.                *)
LEMMA AssertionsHold ==
  ASSUME WayInv, PeriodsInv, MoneyInv, LossInv, stage = "assert"
  PROVE  ReferencesAreCounted(dist) /\ Covered(dist) /\ CanWithdraw(dist)
<1>1. dels \subseteq Pairs /\ dist.due \in [dels -> Nat]
  BY DEF WayInv, MoneyInv, AllMoney
<1>2. ReferencesAreCounted(dist)
  BY <1>1, ReferencesCounted
<1>3. Covered(dist)
  <2>1. dist.lost = 0 /\ dist.bank = dist.pool + Total(dist.out) + dist.lost
    BY DEF LossInv, MoneyInv, Accounted
  <2>2. dist.pool \in Nat /\ Total(dist.out) \in Nat
    BY <1>1, SoundSums DEF MoneyInv, AllMoney
  <2>3. QED BY <2>1, <2>2 DEF Covered
<1>4. QED BY <1>2, <1>3 DEF MoneyInv

LEMMA JailNext ==
  ASSUME JailInv, SeatsInv, WayInv, PeriodsInv, MoneyInv, LossInv, [Next]_vars
  PROVE  JailInv'
<1>1. UNCHANGED <<index, allowed, dels>>
  BY Steps, DistSteps DEF request
<1>2. /\ val \in [Validators -> ValidatorRecords] /\ index \in SUBSET Validators
      /\ ctx \in Nat /\ Seated(val, index)
  BY DEF SeatsInv
<1>3. /\ \A v \in Validators : val'[v].unbondingHeight \in {0, LastHeight}
      /\ \A v \in index : val'[v].jailed => Jails(v)
  <2>1. CASE val' = val
    BY <2>1 DEF JailInv
  <2>2. CASE val' = AppliedUpdates(val, index, ctx)
    BY <1>2, <2>1, <2>2, Applying
  <2>3. CASE \E v \in Validators : val' = [val EXCEPT ![v] = Reset(@, Jails(v))]
    <3>1. PICK v \in Validators : val' = [val EXCEPT ![v] = Reset(val[v], Jails(v))]
      BY <2>3
    <3> DEFINE r == Reset(val[v], Jails(v))
    <3>2. val[v] \in ValidatorRecords /\ Jails(v) \in BOOLEAN
      BY <1>2 DEF Jails
    <3>3. r.unbondingHeight = 0 /\ r.jailed = (val[v].jailed \/ Jails(v))
      BY <3>2 DEF Reset, ValidatorRecords
    <3> HIDE DEF r
    <3>4. val'[v] = r /\ \A w \in Validators : w # v => val'[w] = val[w]
      BY <1>2, <3>1 DEF r
    <3>5. \A w \in Validators :
            /\ val'[w].unbondingHeight \in {0, LastHeight}
            /\ val'[w].jailed => val[w].jailed \/ Jails(w)
      BY <3>3, <3>4 DEF JailInv
    <3>6. QED BY <1>2, <3>5 DEF JailInv
  <2>4. QED BY <2>1, <2>2, <2>3, Steps
<1>4. ASSUME stage' = "panicked"
      PROVE  allowed' # {} /\ ~ (Reached(val, index)' \subseteq allowed')
  <2>1. CASE UNCHANGED vars
    BY <1>4, <2>1 DEF vars, JailInv, PanicsOnlyOverAllowList, Reached, Ahead
  <2>2. CASE AssertInvariants
    <3>1. stage = "assert"
      BY <2>2 DEF AssertInvariants
    <3>2. QED BY <1>4, <2>2, <3>1, AssertionsHold DEF AssertInvariants, Enter
  <2>3. CASE ApplyUpdates
    <3>1. /\ \E v \in Reached(val, index) : val[v].jailed
          /\ val' = val
      BY <1>4, <2>3 DEF ApplyUpdates, Enter
    <3>2. PICK v \in Reached(val, index) : val[v].jailed
      BY <3>1
    <3>3. v \in index /\ Jails(v)
      BY <3>2 DEF Reached, JailInv
    <3>4. Reached(val, index)' = Reached(val, index)
      BY <1>1, <3>1 DEF Reached, Ahead
    <3>5. QED BY <1>1, <3>2, <3>3, <3>4 DEF Jails
  <2>4. QED BY <1>4, <2>1, <2>2, <2>3, Panicking
<1>5. QED BY <1>1, <1>3, <1>4 DEF JailInv, PanicsOnlyOverAllowList, Jails
---------------------------------------------------------------------------
(* What is built up for the next chain                                     *)

(* The delegations in S start at the periods 1 .. k, one at each.          *)
Numbered(S, start, k) ==
  /\ Cardinality(S) = k
  /\ \A y \in S : start[y].period \in 1 .. k
  /\ \A p \in 1 .. k : \E y \in S : Class(S, start, p) = {y}

(* While the infos are built up, those a validator has so far are numbered *)
(* by its periods.                                                         *)
AnewInv ==
  zero /\ stage \in AfterValidators =>
    \A v \in Validators : Numbered(Holding(v), dist.start, dist.cur[v] - 1)

LEMMA NumberedMore ==
  ASSUME NEW S, IsFiniteSet(S), NEW x, x \notin S, NEW s, NEW t, NEW k \in Nat,
         Numbered(S, s, k), \A y \in S : t[y] = s[y], t[x].period = k + 1
  PROVE  Numbered(S \cup {x}, t, k + 1)
<1> DEFINE T == S \cup {x}
<1>1. Cardinality(T) = k + 1
  BY FS_AddElement DEF Numbered
<1>2. \A y \in T : t[y].period \in 1 .. k + 1
  BY DEF Numbered
<1>3. ASSUME NEW p \in 1 .. k + 1 PROVE \E y \in T : Class(T, t, p) = {y}
  <2>1. CASE p = k + 1
    <3>1. \A y \in S : t[y].period # p
      BY <2>1 DEF Numbered
    <3>2. Class(T, t, p) = {x}
      BY <2>1, <3>1 DEF Class
    <3>3. QED BY <3>2
  <2>2. CASE p # k + 1
    <3>1. p \in 1 .. k
      BY <2>2
    <3>2. PICK y \in S : Class(S, s, p) = {y}
      BY <3>1 DEF Numbered
    <3>3. Class(T, t, p) = Class(S, s, p)
      BY <2>2 DEF Class
    <3>4. QED BY <3>2, <3>3
  <2>3. QED BY <2>1, <2>2
<1>4. QED BY <1>1, <1>2, <1>3 DEF Numbered

LEMMA NumberedSame ==
  ASSUME NEW S, NEW s, NEW t, NEW k, Numbered(S, s, k), \A y \in S : t[y] = s[y]
  PROVE  Numbered(S, t, k)
<1>1. \A p : Class(S, t, p) = Class(S, s, p)
  BY DEF Class
<1>2. QED BY <1>1 DEF Numbered

(* What the two hooks of a delegation do to its validator and to the       *)
(* others.                                                                 *)
LEMMA AnewDelegation ==
  ASSUME AllPeriods(dist), Shape(dist), dels \subseteq Pairs, NEW x \in dels,
         dist' = InitializeDelegation(IncrementPeriod(dist, x[2]), x, ctx)
  PROVE  /\ dist'.cur[x[2]] = dist.cur[x[2]] + 1
         /\ dist'.start[x].period = dist.cur[x[2]]
         /\ \A w \in Validators \ {x[2]} : dist'.cur[w] = dist.cur[w]
         /\ \A y \in dels \ {x} : dist'.start[y] = dist.start[y]
<1> DEFINE v == x[2]
           d == IncrementPeriod(dist, v)
           E == InitializeDelegation(d, x, ctx)
<1>1. v \in Validators /\ dist.cur \in [Validators -> Nat] /\ dist.start = [y \in dels |-> dist.start[y]]
  BY Delegating DEF AllPeriods, Shape
<1>2. Shape(d) /\ AfterIncrement(dist, v, d)
  BY Incrementing, IncrementChanges, Zenon
<1>3. dist' = E
  OBVIOUS
<1> HIDE DEF d
<1>4. AfterInitialize(d, x, ctx, E)
  BY <1>2, InitializeChanges, Zenon
<1> HIDE DEF E
<1>5. d.cur = [dist.cur EXCEPT ![v] = dist.cur[v] + 1] /\ d.start = dist.start
  BY <1>2 DEF AfterIncrement
<1>6. /\ dist'.cur = d.cur
      /\ dist'.start = [d.start EXCEPT ![x] = [period |-> d.cur[v] - 1, height |-> ctx]]
  BY <1>3, <1>4 DEF AfterInitialize
<1>7. d.cur[v] = dist.cur[v] + 1 /\ d.cur[v] - 1 = dist.cur[v]
  BY <1>1, <1>5
<1>8. dist'.start[x] = [period |-> dist.cur[v], height |-> ctx]
  BY <1>1, <1>5, <1>6, <1>7
<1>9. QED BY <1>1, <1>5, <1>6, <1>7, <1>8

LEMMA AnewNext ==
  ASSUME AnewInv, PeriodsInv, WayInv, FreshInv, [Next]_vars
  PROVE  AnewInv'
<1> SUFFICES ASSUME zero', stage' \in AfterValidators
             PROVE  \A v \in Validators : Numbered(Holding(v)', dist'.start, dist'.cur[v] - 1)
  BY DEF AnewInv
<1>1. /\ dels \subseteq Pairs /\ dels' = dels /\ Shape(dist) /\ AllPeriods(dist) /\ zero
  BY DistSteps DEF request, WayInv, FreshInv, DistInv, PeriodsInv
<1>2. stage \in AfterValidators =>
        \A v \in Validators : Numbered(Holding(v), dist.start, dist.cur[v] - 1)
  BY <1>1 DEF AnewInv
<1>3. stage' \in {"delegations", "redelegations", "unbondings", "jail", "apply", "signing",
                 "export", "done"}
  BY DEF AfterValidators, AfterDelegations, AfterRedelegations, AfterUnbondings, AfterJail,
         AfterSigning
<1>4. CASE UNCHANGED <<stage, todo, dist>>
  <2>1. \A v \in Validators : Holding(v)' = Holding(v)
    BY <1>1, <1>4 DEF Holding, Of
  <2>2. QED BY <1>2, <1>4, <2>1
<1>5. CASE \E s \in Stages : Crosses(s)
  <2>1. PICK s \in Stages : Crosses(s)
    BY <1>5
  <2>2. stage' = s /\ todo' = Items(s) /\ dist' = dist
    BY <2>1 DEF Crosses, Enter
  <2>3. CASE stage = "validators"
    <3>1. todo = {} /\ s = "delegations"
      BY <2>1, <2>3 DEF Crosses, Following
    <3>2. \A v \in Validators : Holding(v)' = {} /\ dist.cur[v] = 1
      BY <1>1, <2>2, <2>3, <3>1 DEF Holding, Of, Items, PeriodsInv
    <3>3. Numbered({}, dist.start, 0)
      BY FS_EmptySet DEF Numbered
    <3>4. QED BY <2>2, <3>2, <3>3
  <2>4. CASE stage # "validators"
    <3>1. /\ stage \in AfterValidators /\ s # "delegations"
          /\ stage = "delegations" => todo = {}
      BY <1>1, <1>3, <2>1, <2>2, <2>4 DEF Crosses, Following, AfterValidators, AfterDelegations,
         AfterRedelegations, AfterUnbondings, AfterJail, AfterSigning
    <3>2. \A v \in Validators : Holding(v)' = Holding(v)
      BY <1>1, <2>2, <3>1 DEF Holding, Of
    <3>3. QED BY <1>2, <2>2, <3>1, <3>2
  <2>5. QED BY <2>3, <2>4
<1>6. CASE \E s \in Stages : \E x \in todo : VisitsOnly(s, x)
  <2>1. stage' = stage /\ stage # "delegations" /\ dist' = dist
    BY <1>6 DEF VisitsOnly, Visit
  <2>2. \A v \in Validators : Holding(v)' = Holding(v)
    BY <1>1, <2>1 DEF Holding, Of
  <2>3. QED BY <1>2, <2>1, <2>2
<1>7. ~ Clears
  BY <1>3 DEF Clears, Enter
<1>8. ASSUME NEW s \in {"commission", "rewards", "validators"}, NEW y
      PROVE  ~ Visit(s, y)
  BY <1>3 DEF Visit
<1>9. ASSUME NEW x \in dels, Visit("delegations", x),
             dist' = InitializeDelegation(IncrementPeriod(dist, x[2]), x, ctx)
      PROVE  \A v \in Validators : Numbered(Holding(v)', dist'.start, dist'.cur[v] - 1)
  <2>1. stage' = stage /\ stage = "delegations" /\ todo' = todo \ {x} /\ x \in todo
    BY <1>9 DEF Visit
  <2>2. stage \in AfterValidators
    BY <2>1 DEF AfterValidators
  <2> DEFINE v == x[2]
             H(w) == Holding(w)
  <2>3. /\ dist'.cur[v] = dist.cur[v] + 1 /\ dist'.start[x].period = dist.cur[v]
        /\ \A w \in Validators \ {v} : dist'.cur[w] = dist.cur[w]
        /\ \A y \in dels \ {x} : dist'.start[y] = dist.start[y]
    BY <1>1, <1>9, AnewDelegation
  <2>4. /\ v \in Validators /\ x \in Of(v) /\ dist.cur[v] \in Nat /\ dist.cur[v] > 0
        /\ \A w \in Validators : Of(w)' = Of(w) /\ Of(w) \subseteq dels /\ IsFiniteSet(Of(w))
        /\ \A w \in Validators \ {v} : x \notin Of(w)
    BY <1>1, Delegating DEF Of, PeriodsInv, AllPeriods
  <2>5. \A w \in Validators : H(w) = Of(w) \ todo /\ Holding(w)' = Of(w) \ todo'
    BY <2>1, <2>4 DEF Holding
  <2>6. /\ Holding(v)' = H(v) \cup {x} /\ x \notin H(v) /\ IsFiniteSet(H(v))
        /\ H(v) \subseteq dels \ {x}
        /\ \A w \in Validators \ {v} : Holding(w)' = H(w) /\ H(w) \subseteq dels \ {x}
    <3>1. IsFiniteSet(Of(v) \ todo)
      BY <2>4, FS_Subset
    <3>2. QED BY <2>1, <2>4, <2>5, <3>1
  <2> HIDE DEF H
  <2>7. \A w \in Validators : Numbered(H(w), dist.start, dist.cur[w] - 1)
    BY <1>2, <2>2 DEF H
  <2>8. Numbered(Holding(v)', dist'.start, dist'.cur[v] - 1)
    <3> DEFINE k == dist.cur[v] - 1
    <3>1. /\ k \in Nat /\ dist'.cur[v] - 1 = k + 1 /\ dist'.start[x].period = k + 1
      BY <2>3, <2>4
    <3>2. \A y \in H(v) : dist'.start[y] = dist.start[y]
      BY <2>3, <2>6
    <3>3. Numbered(H(v), dist.start, k)
      BY <2>4, <2>7
    <3> HIDE DEF k
    <3>4. Numbered(H(v) \cup {x}, dist'.start, k + 1)
      BY <2>6, <3>1, <3>2, <3>3, NumberedMore
    <3>5. QED BY <2>6, <3>1, <3>4
  <2>9. ASSUME NEW w \in Validators \ {v}
        PROVE  Numbered(Holding(w)', dist'.start, dist'.cur[w] - 1)
    <3>1. \A y \in H(w) : dist'.start[y] = dist.start[y]
      BY <2>3, <2>6
    <3>2. Numbered(H(w), dist'.start, dist.cur[w] - 1)
      BY <2>7, <3>1, NumberedSame
    <3>3. QED BY <2>3, <2>6, <3>2
  <2>10. QED BY <2>8, <2>9
<1>10. QED BY <1>4, <1>5, <1>6, <1>7, <1>8, <1>9, DistSteps
---------------------------------------------------------------------------
(* What is paid and what is still to be paid                               *)

(* What the module holds and has paid, what it has paid and is to pay, and *)
(* the commissions that were lost and would be are the same for D and E.   *)
SentCommissions(D) == [v \in Validators |-> Sent(D, v)]
LostCommissions(D) == [v \in Validators |-> Whole(D.com[v]) - Sent(D, v)]
WholeRewards(D) == [x \in dels |-> IF x[1] \in Refused THEN 0 ELSE Whole(D.due[x])]
ToPay(D) == Total(SentCommissions(D)) + Total(WholeRewards(D))
Lost(D) == D.lost + Total(LostCommissions(D))
Settles(D, E) ==
  /\ E.bank + E.paid = D.bank + D.paid
  /\ E.paid + ToPay(E) = D.paid + ToPay(D)
  /\ Lost(E) = Lost(D)

LEMMA PaymentsNamed == Unpaid = ToPay(dist) /\ Losses = Lost(dist)
BY DEF Unpaid, Losses, ToPay, Lost, SentCommissions, LostCommissions, WholeRewards, Payout

(* The commissions that are sent and those that are lost depend on nothing *)
(* but the commissions.                                                    *)
LEMMA SameCommissions ==
  ASSUME NEW D, NEW E, E.com = D.com
  PROVE  SentCommissions(E) = SentCommissions(D) /\ LostCommissions(E) = LostCommissions(D)
BY DEF SentCommissions, LostCommissions, Sent

LEMMA NoWholePart ==
  /\ Whole(0) = 0
  /\ \A n \in Nat : Whole(n - Whole(n)) = 0
<1>1. Whole(0) = 0
  BY CoinAssumption DEF Whole
<1>2. ASSUME NEW n \in Nat PROVE Whole(n - Whole(n)) = 0
  <2> DEFINE q == n \div Coin
             r == n % Coin
  <2>1. Coin \in Nat /\ Coin > 0 /\ q \in Int /\ r \in 0 .. Coin - 1 /\ n = Coin * q + r
    BY CoinAssumption
  <2> HIDE DEF q, r
  <2>2. n - q * Coin = r /\ r \div Coin = 0
    BY <2>1
  <2>3. n - Whole(n) = r /\ r \div Coin = 0
    BY <2>2 DEF Whole, q
  <2>4. Whole(r) = 0
    BY <2>1, <2>3 DEF Whole
  <2>5. QED BY <2>3, <2>4
<1>3. QED BY <1>1, <1>2

(* The sums are sums of numbers.                                           *)
LEMMA PaymentSums ==
  ASSUME dels \subseteq Pairs, NEW D, AllMoney(D)
  PROVE  /\ IsFiniteSet(Validators) /\ IsFiniteSet(dels)
         /\ \A v \in Validators :
              /\ D.com[v] \in Nat /\ Whole(D.com[v]) \in Nat
              /\ SentCommissions(D)[v] = Sent(D, v) /\ SentCommissions(D)[v] \in Nat
              /\ LostCommissions(D)[v] = Whole(D.com[v]) - Sent(D, v)
              /\ LostCommissions(D)[v] \in Nat
              /\ SentCommissions(D)[v] + LostCommissions(D)[v] <= D.com[v]
         /\ \A x \in dels :
              /\ D.due[x] \in Nat /\ WholeRewards(D)[x] \in Nat /\ WholeRewards(D)[x] <= D.due[x]
              /\ WholeRewards(D)[x] = IF x[1] \in Refused THEN 0 ELSE Whole(D.due[x])
         /\ Total(SentCommissions(D)) = SumFunctionOnSet(SentCommissions(D), Validators)
         /\ Total(LostCommissions(D)) = SumFunctionOnSet(LostCommissions(D), Validators)
         /\ Total(WholeRewards(D)) = SumFunctionOnSet(WholeRewards(D), dels)
         /\ Total(SentCommissions(D)) \in Nat /\ Total(LostCommissions(D)) \in Nat
         /\ Total(WholeRewards(D)) \in Nat
         /\ D.bank \in Nat /\ D.paid \in Nat /\ D.lost \in Nat
<1>1. IsFiniteSet(Validators) /\ IsFiniteSet(dels)
  BY ValidatorsAssumption, Delegating
<1>2. ASSUME NEW v \in Validators
      PROVE  /\ D.com[v] \in Nat /\ Whole(D.com[v]) \in Nat
             /\ SentCommissions(D)[v] = Sent(D, v) /\ SentCommissions(D)[v] \in Nat
             /\ LostCommissions(D)[v] = Whole(D.com[v]) - Sent(D, v)
             /\ LostCommissions(D)[v] \in Nat
             /\ SentCommissions(D)[v] + LostCommissions(D)[v] <= D.com[v]
  <2>1. /\ D.com[v] \in Nat /\ SentCommissions(D)[v] = Sent(D, v)
        /\ LostCommissions(D)[v] = Whole(D.com[v]) - Sent(D, v)
        /\ Sent(D, v) \in {0, Whole(D.com[v])}
    BY DEF AllMoney, SentCommissions, LostCommissions, Sent
  <2>2. Whole(D.com[v]) \in Nat /\ Whole(D.com[v]) <= D.com[v]
    BY <2>1, WholePart
  <2>3. QED BY <2>1, <2>2
<1>3. ASSUME NEW x \in dels
      PROVE  /\ D.due[x] \in Nat /\ WholeRewards(D)[x] \in Nat /\ WholeRewards(D)[x] <= D.due[x]
             /\ WholeRewards(D)[x] = IF x[1] \in Refused THEN 0 ELSE Whole(D.due[x])
  <2>1. /\ D.due[x] \in Nat
        /\ WholeRewards(D)[x] = IF x[1] \in Refused THEN 0 ELSE Whole(D.due[x])
    BY DEF AllMoney, WholeRewards
  <2>2. Whole(D.due[x]) \in Nat /\ Whole(D.due[x]) <= D.due[x]
    BY <2>1, WholePart
  <2>3. QED BY <2>1, <2>2
<1>4. /\ Total(SentCommissions(D)) = SumFunctionOnSet(SentCommissions(D), Validators)
      /\ Total(LostCommissions(D)) = SumFunctionOnSet(LostCommissions(D), Validators)
      /\ Total(WholeRewards(D)) = SumFunctionOnSet(WholeRewards(D), dels)
  <2>1. /\ DOMAIN SentCommissions(D) = Validators /\ DOMAIN LostCommissions(D) = Validators
        /\ DOMAIN WholeRewards(D) = dels
    BY DEF SentCommissions, LostCommissions, WholeRewards
  <2>2. QED BY <2>1, Zenon DEF Total, SumFunction
<1>5. /\ SumFunctionOnSet(SentCommissions(D), Validators) \in Nat
      /\ SumFunctionOnSet(LostCommissions(D), Validators) \in Nat
      /\ SumFunctionOnSet(WholeRewards(D), dels) \in Nat
  <2> DEFINE f == SentCommissions(D)
             g == WholeRewards(D)
             h == LostCommissions(D)
  <2>1. (\A v \in Validators : f[v] \in Nat /\ h[v] \in Nat) /\ \A x \in dels : g[x] \in Nat
    BY <1>2, <1>3
  <2> HIDE DEF f, g, h
  <2>2. /\ SumFunctionOnSet(f, Validators) \in Nat /\ SumFunctionOnSet(h, Validators) \in Nat
        /\ SumFunctionOnSet(g, dels) \in Nat
    BY <1>1, <2>1, SumType
  <2>3. QED BY <2>2 DEF f, g, h
<1>6. QED BY <1>1, <1>2, <1>3, <1>4, <1>5, Zenon DEF AllMoney

LEMMA SettlesSame ==
  ASSUME NEW D, NEW E, SameMoney(D, E)
  PROVE  Settles(D, E)
<1>1. SentCommissions(E) = SentCommissions(D) /\ LostCommissions(E) = LostCommissions(D)
  BY SameCommissions, Zenon DEF SameMoney
<1>2. WholeRewards(E) = WholeRewards(D)
  BY DEF SameMoney, WholeRewards
<1>3. QED BY <1>1, <1>2, Zenon DEF SameMoney, Settles, ToPay, Lost

(* One commission or one reward has become nothing, and was paid or lost.  *)
LEMMA SettlesOne ==
  ASSUME NEW S, IsFiniteSet(S), NEW f, NEW g, NEW x \in S, \A y \in S : f[y] \in Nat,
         g[x] = 0, \A y \in S : y # x => g[y] = f[y]
  PROVE  SumFunctionOnSet(g, S) + f[x] = SumFunctionOnSet(f, S)
<1>1. SumFunctionOnSet(g, S) + f[x] = SumFunctionOnSet(f, S) + g[x]
  BY SumChange
<1>2. SumFunctionOnSet(f, S) \in Nat
  BY SumType
<1>3. QED BY <1>1, <1>2

LEMMA SettlesCommission ==
  ASSUME dels \subseteq Pairs, NEW D, NEW E, AllMoney(D), AllMoney(E), NEW v \in Validators,
         AfterCommission(D, v, E)
  PROVE  /\ Settles(D, E) /\ Whole(E.com[v]) = 0 /\ E.due = D.due
         /\ \A w \in Validators \ {v} : E.com[w] = D.com[w]
<1> DEFINE n == Whole(D.com[v])
           m == Sent(D, v)
           f == SentCommissions(D)
           g == SentCommissions(E)
           h == LostCommissions(D)
           k == LostCommissions(E)
<1>1. /\ E.due = D.due /\ E.com = [D.com EXCEPT ![v] = D.com[v] - n]
      /\ E.bank = D.bank - m /\ E.paid = D.paid + m /\ E.lost = D.lost + (n - m)
  BY DEF AfterCommission
<1>2. /\ IsFiniteSet(Validators) /\ \A w \in Validators : f[w] \in Nat /\ h[w] \in Nat
      /\ Total(f) = SumFunctionOnSet(f, Validators) /\ Total(g) = SumFunctionOnSet(g, Validators)
      /\ Total(h) = SumFunctionOnSet(h, Validators) /\ Total(k) = SumFunctionOnSet(k, Validators)
      /\ Total(f) \in Nat /\ Total(g) \in Nat /\ Total(h) \in Nat /\ Total(k) \in Nat
      /\ Total(WholeRewards(D)) \in Nat
      /\ D.bank \in Nat /\ D.paid \in Nat /\ D.lost \in Nat
  BY PaymentSums
<1>3. /\ D.com \in [Validators -> Nat] /\ D.com[v] \in Nat /\ n \in Nat /\ m \in Nat
      /\ n - m \in Nat /\ f[v] = m /\ h[v] = n - m
  BY PaymentSums DEF AllMoney
<1>4. /\ E.com[v] = D.com[v] - n /\ \A w \in Validators \ {v} : E.com[w] = D.com[w]
  BY <1>1, <1>3
<1>5. Whole(E.com[v]) = 0
  BY <1>3, <1>4, NoWholePart
<1>6. WholeRewards(E) = WholeRewards(D)
  BY <1>1 DEF WholeRewards
<1>7. /\ g[v] = 0 /\ k[v] = 0
      /\ \A w \in Validators : w # v => g[w] = f[w] /\ k[w] = h[w]
  BY <1>4, <1>5 DEF SentCommissions, LostCommissions, Sent
<1> HIDE DEF f, g, h, k, n, m
<1>8. /\ SumFunctionOnSet(g, Validators) + f[v] = SumFunctionOnSet(f, Validators)
      /\ SumFunctionOnSet(k, Validators) + h[v] = SumFunctionOnSet(h, Validators)
  BY <1>2, <1>7, SettlesOne
<1>9. Total(g) + m = Total(f) /\ Total(k) + (n - m) = Total(h)
  BY <1>2, <1>3, <1>8
<1>10. E.bank + E.paid = D.bank + D.paid
  BY <1>1, <1>2, <1>3
<1>11. /\ E.paid + (Total(g) + Total(WholeRewards(E)))
            = D.paid + (Total(f) + Total(WholeRewards(D)))
       /\ E.lost + Total(k) = D.lost + Total(h)
  <2> DEFINE a == Total(f)
             b == Total(g)
             c == Total(WholeRewards(D))
             x == Total(h)
             y == Total(k)
  <2>1. /\ a \in Nat /\ b \in Nat /\ c \in Nat /\ b + m = a /\ Total(WholeRewards(E)) = c
        /\ x \in Nat /\ y \in Nat /\ y + (n - m) = x
    BY <1>2, <1>6, <1>9
  <2> HIDE DEF a, b, c, x, y
  <2>2. E.paid + (b + c) = D.paid + (a + c)
    BY <1>1, <1>2, <1>3, <2>1
  <2>3. E.lost + y = D.lost + x
    BY <1>1, <1>2, <1>3, <2>1
  <2>4. QED BY <2>1, <2>2, <2>3 DEF a, b, c, x, y
<1>12. QED BY <1>1, <1>4, <1>5, <1>10, <1>11, Zenon DEF Settles, ToPay, Lost, f, g, h, k

LEMMA SettlesPaid ==
  ASSUME dels \subseteq Pairs, NEW D, NEW E, AllMoney(D), AllMoney(E), NEW x \in dels, NEW d,
         AfterPaying(D, x, d, E), x[1] \in Refused => Whole(D.due[x]) = 0
  PROVE  /\ Settles(D, E) /\ E.due[x] = 0 /\ E.com = D.com
         /\ \A y \in dels \ {x} : E.due[y] = D.due[y]
<1> DEFINE n == Whole(D.due[x])
           f == WholeRewards(D)
           g == WholeRewards(E)
<1>1. /\ E.com = D.com /\ E.due = [D.due EXCEPT ![x] = 0]
      /\ E.bank = D.bank - n /\ E.paid = D.paid + n /\ E.lost = D.lost
  BY DEF AfterPaying
<1>2. D.due \in [dels -> Nat] /\ D.due[x] \in Nat /\ n \in Nat
  BY WholePart DEF AllMoney
<1>3. E.due[x] = 0 /\ \A y \in dels \ {x} : E.due[y] = D.due[y]
  BY <1>1, <1>2
<1>4. SentCommissions(E) = SentCommissions(D) /\ LostCommissions(E) = LostCommissions(D)
  BY <1>1, SameCommissions, Zenon
<1>5. f[x] = n /\ g[x] = 0 /\ \A y \in dels : y # x => g[y] = f[y]
  BY <1>3, NoWholePart DEF WholeRewards
<1>6. /\ IsFiniteSet(dels) /\ \A y \in dels : f[y] \in Nat
      /\ Total(f) = SumFunctionOnSet(f, dels) /\ Total(g) = SumFunctionOnSet(g, dels)
      /\ Total(f) \in Nat /\ Total(g) \in Nat /\ Total(SentCommissions(D)) \in Nat
      /\ D.bank \in Nat /\ D.paid \in Nat
  BY PaymentSums
<1> HIDE DEF f, g, n
<1>7. SumFunctionOnSet(g, dels) + f[x] = SumFunctionOnSet(f, dels)
  BY <1>5, <1>6, SettlesOne
<1>8. Total(g) + n = Total(f)
  BY <1>5, <1>6, <1>7
<1>9. E.bank + E.paid = D.bank + D.paid
  BY <1>1, <1>2, <1>6
<1>10. E.paid + (Total(SentCommissions(E)) + Total(g))
         = D.paid + (Total(SentCommissions(D)) + Total(f))
  <2> DEFINE a == Total(f)
             b == Total(g)
             c == Total(SentCommissions(D))
  <2>1. a \in Nat /\ b \in Nat /\ c \in Nat /\ b + n = a /\ Total(SentCommissions(E)) = c
    BY <1>4, <1>6, <1>8
  <2> HIDE DEF a, b, c
  <2>2. E.paid + (c + b) = D.paid + (c + a)
    BY <1>1, <1>2, <1>6, <2>1
  <2>3. QED BY <2>1, <2>2 DEF a, b, c
<1>11. QED BY <1>1, <1>3, <1>4, <1>9, <1>10, Zenon DEF Settles, ToPay, Lost, f, g

(* Setting a validator up drops nothing that could be paid.                *)
LEMMA SettlesValidator ==
  ASSUME NEW D, NEW E, NEW v \in Validators, NEW n, AllMoney(D), AfterValidator(D, v, n, E),
         \A w \in Validators : Whole(D.com[w]) = 0, \A x \in dels : WholeRewards(D)[x] = 0
  PROVE  /\ Settles(D, E)
         /\ \A w \in Validators : Whole(E.com[w]) = 0
         /\ \A x \in dels : WholeRewards(E)[x] = 0
<1>1. /\ E.bank = D.bank /\ E.paid = D.paid /\ E.lost = D.lost
      /\ E.com = [D.com EXCEPT ![v] = 0]
      /\ E.due = [x \in DOMAIN D.due |-> IF x[2] = v THEN 0 ELSE D.due[x]]
  BY DEF AfterValidator
<1>2. D.com \in [Validators -> Nat] /\ D.due \in [dels -> Nat]
  BY DEF AllMoney
<1>3. \A w \in Validators : Whole(E.com[w]) = 0
  BY <1>1, <1>2, NoWholePart
<1>4. \A x \in dels : WholeRewards(E)[x] = 0
  BY <1>1, <1>2, NoWholePart DEF WholeRewards
<1>5. SentCommissions(E) = SentCommissions(D) /\ LostCommissions(E) = LostCommissions(D)
  BY <1>3 DEF SentCommissions, LostCommissions, Sent
<1>6. WholeRewards(E) = WholeRewards(D)
  BY <1>4 DEF WholeRewards
<1>7. QED BY <1>1, <1>3, <1>4, <1>5, <1>6, Zenon DEF Settles, ToPay, Lost

(* No whole coin is left of a commission or a reward that has been         *)
(* visited, but of those that the bank refuses to pay.                     *)
BeyondRewards    == {"slashes"} \cup AfterSlashes
BeyondCommission == {"rewards"} \cup BeyondRewards
Served(D, x) == x[1] \in Refused \/ Whole(D.due[x]) = 0
PaidInv ==
  zero => /\ \A v \in Validators :
               Visited("commission", BeyondCommission, v) => Whole(dist.com[v]) = 0
          /\ \A x \in dels : Visited("rewards", BeyondRewards, x) => Served(dist, x)

(* No step but ExportGenesis changes what the outside sees of the money.   *)
LEMMA PaidNext ==
  ASSUME PaidInv, MoneyInv, MoneyInv', WayInv, FreshInv, [Next]_vars
  PROVE  PaidInv' /\ Settles(dist, dist')
<1>1. /\ dels \subseteq Pairs /\ dels' = dels /\ zero' = zero /\ Shape(dist)
      /\ todo \subseteq Items(stage)
  BY DistSteps DEF request, WayInv, FreshInv, DistInv
<1>2. Sound(dist) /\ AllMoney(dist) /\ AllMoney(dist')
  BY <1>1 DEF MoneyInv, Sound, AllMoney
<1> DEFINE Commission(v) == Visited("commission", BeyondCommission, v)
           Reward(x) == Visited("rewards", BeyondRewards, x)
<1>3. ASSUME Settles(dist, dist'),
             zero => /\ \A v \in Validators : Commission(v)' => Whole(dist'.com[v]) = 0
                     /\ \A x \in dels : Reward(x)' => Served(dist', x)
      PROVE  PaidInv' /\ Settles(dist, dist')
  BY <1>1, <1>3 DEF PaidInv, Served, Whole
<1>4. ASSUME SameMoney(dist, dist'),
             zero => /\ \A v \in Validators : Commission(v)' => Commission(v)
                     /\ \A x \in dels : Reward(x)' => Reward(x)
      PROVE  PaidInv' /\ Settles(dist, dist')
  <2>1. dist'.com = dist.com /\ dist'.due = dist.due
    BY <1>4 DEF SameMoney
  <2>2. Settles(dist, dist')
    BY <1>4, SettlesSame
  <2>3. zero => /\ \A v \in Validators : Commission(v)' => Whole(dist'.com[v]) = 0
                /\ \A x \in dels : Reward(x)' => Served(dist', x)
    BY <1>4, <2>1 DEF PaidInv, Served
  <2>4. QED BY <1>3, <2>2, <2>3
<1>5. CASE UNCHANGED <<stage, todo, dist>>
  BY <1>4, <1>5 DEF SameMoney, Visited
<1>6. CASE \E s \in Stages : Crosses(s)
  <2>1. PICK s \in Stages : Crosses(s)
    BY <1>6
  <2>2. SameMoney(dist, dist')
    BY <2>1 DEF Crosses, SameMoney
  <2>3. ASSUME zero, NEW v \in Validators, Commission(v)' PROVE Commission(v)
    BY <2>1, <2>3 DEF Crosses, Enter, Items, Visited, Following, FreshInv, CourseInv,
       BeyondCommission, BeyondRewards, AfterSlashes, AfterDelegations, AfterRedelegations,
       AfterUnbondings, AfterJail, AfterSigning
  <2>4. ASSUME zero, NEW x \in dels, Reward(x)' PROVE Reward(x)
    BY <2>1, <2>4 DEF Crosses, Enter, Items, Visited, Following, FreshInv, CourseInv,
       BeyondRewards, AfterSlashes, AfterDelegations, AfterRedelegations,
       AfterUnbondings, AfterJail, AfterSigning
  <2>5. QED BY <1>4, <2>2, <2>3, <2>4
<1>7. CASE \E s \in Stages : \E x \in todo : VisitsOnly(s, x)
  <2>1. PICK s \in Stages, x \in todo : VisitsOnly(s, x)
    BY <1>7
  <2>2. SameMoney(dist, dist')
    BY <2>1 DEF VisitsOnly, SameMoney
  <2>3. /\ \A v \in Validators : Commission(v)' => Commission(v)
        /\ \A y \in dels : Reward(y)' => Reward(y)
    BY <2>1 DEF VisitsOnly, Visit, Visited
  <2>4. QED BY <1>4, <2>2, <2>3
<1>8. CASE Clears
  <2>1. SameMoney(dist, dist')
    BY <1>1, <1>8, DeletingChanges, Zenon DEF Clears
  <2>2. stage \in BeyondRewards /\ stage \in BeyondCommission
    BY <1>8 DEF Clears, BeyondCommission, BeyondRewards, AfterSlashes
  <2>3. QED BY <1>4, <2>1, <2>2 DEF Visited
<1>9. ASSUME NEW v \in Validators, Visit("commission", v), dist' = WithdrawCommission(dist, v)
      PROVE  PaidInv' /\ Settles(dist, dist')
  <2>1. AfterCommission(dist, v, dist')
    BY <1>1, <1>9, CommissionChanges, Zenon
  <2>2. /\ Settles(dist, dist') /\ Whole(dist'.com[v]) = 0
        /\ \A w \in Validators \ {v} : dist'.com[w] = dist.com[w]
    BY <1>1, <1>2, <2>1, SettlesCommission
  <2>3. ASSUME zero, NEW w \in Validators, Commission(w)' PROVE Whole(dist'.com[w]) = 0
    <3>1. w = v \/ Commission(w)
      BY <1>9, <2>3 DEF Visit, Visited
    <3>2. QED BY <2>2, <2>3, <3>1 DEF PaidInv
  <2>4. ASSUME NEW x \in dels PROVE ~ Reward(x)'
    BY <1>9 DEF Visit, Visited, BeyondRewards, AfterSlashes, AfterDelegations,
       AfterRedelegations, AfterUnbondings, AfterJail, AfterSigning
  <2>5. QED BY <1>3, <2>2, <2>3, <2>4
<1>10. ASSUME NEW x \in dels, Visit("rewards", x), dist' = WithdrawRewards(dist, x)
       PROVE  PaidInv' /\ Settles(dist, dist')
  <2> DEFINE d == IncrementPeriod(dist, x[2])
             p == PaidOut(dist, x)
             E == InitializeDelegation(p, x, ctx)
             refused == Whole(dist.due[x]) > 0 /\ x[1] \in Refused
  <2>1. dist' = IF refused THEN d ELSE E
    BY <1>10, Zenon DEF WithdrawRewards, PaidOut
  <2>2. SameMoney(dist, d)
    BY <1>1, IncrementChanges, Zenon DEF AfterIncrement
  <2>3. AfterPaying(dist, x, d, p) /\ Shape(p)
    <3>1. AfterPaying(dist, x, d, p)
      BY <1>1, PayingChanges, Zenon
    <3>2. QED BY <3>1, Zenon DEF AfterPaying
  <2>4. AfterInitialize(p, x, ctx, E)
    BY <1>1, <2>3, InitializeChanges, Zenon
  <2>5. SameMoney(p, E)
    BY <2>4, Zenon DEF AfterInitialize
  <2>6. dist.due[x] \in Nat
    BY <1>2 DEF AllMoney
  <2>7. Whole(dist.due[x]) \in Nat
    BY <2>6, WholePart
  <2> HIDE DEF d, p, E
  <2>8. ASSUME NEW y \in dels, Reward(y)' PROVE y = x \/ Reward(y)
    BY <1>10, <2>8 DEF Visit, Visited
  <2>9. ASSUME NEW v \in Validators PROVE Commission(v)
    BY <1>10 DEF Visit, Visited, BeyondCommission
  <2>10. CASE refused
    <3>1. dist' = d
      BY <2>1, <2>10
    <3>2. Settles(dist, dist') /\ dist'.com = dist.com /\ dist'.due = dist.due
      BY <2>2, <3>1, SettlesSame DEF SameMoney
    <3>3. zero => /\ \A v \in Validators : Whole(dist'.com[v]) = 0
                  /\ \A y \in dels : Reward(y)' => Served(dist', y)
      BY <2>8, <2>9, <2>10, <3>2 DEF PaidInv, Served
    <3>4. QED BY <1>3, <3>2, <3>3
  <2>11. CASE ~ refused
    <3>1. dist' = E
      BY <2>1, <2>11
    <3>2. x[1] \in Refused => Whole(dist.due[x]) = 0
      BY <2>7, <2>11
    <3>3. AllMoney(p)
      BY <1>1, <1>2, <2>3, SoundPaid DEF Sound
    <3>4. /\ Settles(dist, p) /\ p.due[x] = 0 /\ p.com = dist.com
          /\ \A y \in dels \ {x} : p.due[y] = dist.due[y]
      BY <1>1, <1>2, <2>3, <3>2, <3>3, SettlesPaid
    <3>5. Settles(p, dist') /\ dist'.com = p.com /\ dist'.due = p.due
      BY <2>5, <3>1, SettlesSame DEF SameMoney
    <3>6. Settles(dist, dist')
      BY <3>4, <3>5 DEF Settles
    <3>7. Served(dist', x)
      BY <3>4, <3>5, NoWholePart DEF Served
    <3>8. zero => /\ \A v \in Validators : Whole(dist'.com[v]) = 0
                  /\ \A y \in dels : Reward(y)' => Served(dist', y)
      BY <2>8, <2>9, <3>4, <3>5, <3>7 DEF PaidInv, Served
    <3>9. QED BY <1>3, <3>6, <3>8
  <2>12. QED BY <2>10, <2>11
<1>11. ASSUME NEW v \in Validators, Visit("validators", v),
              dist' = InitializeValidator([dist EXCEPT !.pool = @ + Scraps(dist, v)], v)
       PROVE  PaidInv' /\ Settles(dist, dist')
  <2> DEFINE n == dist.pool + dist.out[v]
             E == InitializeValidator([dist EXCEPT !.pool = n], v)
  <2>1. dist' = E
    BY <1>11, Zenon DEF Scraps
  <2>2. AfterValidator(dist, v, n, E)
    BY <1>1, ValidatorChanges, Zenon
  <2> HIDE DEF E
  <2>3. AfterValidator(dist, v, n, dist')
    BY <2>1, <2>2, Zenon
  <2>4. zero /\ stage = "validators"
    BY <1>11 DEF Visit, FreshInv, CourseInv
  <2>5. /\ \A w \in Validators : Whole(dist.com[w]) = 0
        /\ \A x \in dels : Served(dist, x)
    BY <2>4 DEF PaidInv, Visited, BeyondCommission, BeyondRewards, AfterSlashes
  <2>6. \A x \in dels : WholeRewards(dist)[x] = 0
    BY <2>5 DEF Served, WholeRewards
  <2>7. /\ Settles(dist, dist')
        /\ \A w \in Validators : Whole(dist'.com[w]) = 0
        /\ \A x \in dels : WholeRewards(dist')[x] = 0
    BY <1>2, <2>3, <2>5, <2>6, SettlesValidator
  <2>8. \A x \in dels : Served(dist', x)
    BY <2>7 DEF Served, WholeRewards
  <2>9. QED BY <1>3, <2>7, <2>8
<1>12. ASSUME NEW x \in dels, Visit("delegations", x),
              dist' = InitializeDelegation(IncrementPeriod(dist, x[2]), x, ctx)
       PROVE  PaidInv' /\ Settles(dist, dist')
  <2> DEFINE d == IncrementPeriod(dist, x[2])
             E == InitializeDelegation(d, x, ctx)
  <2>1. SameMoney(dist, d) /\ Shape(d)
    BY <1>1, Incrementing, IncrementChanges, Zenon DEF AfterIncrement
  <2>2. SameMoney(d, E)
    BY <1>1, <2>1, InitializeChanges, Zenon DEF AfterInitialize
  <2>3. dist' = E
    BY <1>12, Zenon
  <2> HIDE DEF d, E
  <2>4. SameMoney(dist, dist')
    BY <2>1, <2>2, <2>3 DEF SameMoney
  <2>5. stage \in BeyondRewards /\ stage \in BeyondCommission
    BY <1>12 DEF Visit, BeyondCommission, BeyondRewards, AfterSlashes
  <2>6. QED BY <1>4, <2>4, <2>5 DEF Visited
<1>13. QED BY <1>5, <1>6, <1>7, <1>8, <1>9, <1>10, <1>11, <1>12, DistSteps, Zenon

---------------------------------------------------------------------------
(* Who is jailed                                                           *)

(* Those that were not in the power index, and with an allow list for      *)
(* height 0 those the loop has found outside of it.  After an election     *)
(* none of them has a seat.                                                *)
JailedInv ==
  /\ stage # "panicked" =>
       \A v \in Validators :
         val[v].jailed <=> v \notin index \/ (zero /\ Jails(v) /\ Visited("jail", AfterJail, v))
  /\ zero /\ closes /\ stage \in {"signing"} \cup AfterSigning =>
       \A v \in Bonded(val) : ~ val[v].jailed

LEMMA JailedInit == Init => JailedInv
<1> SUFFICES ASSUME Init PROVE JailedInv
  OBVIOUS
<1>1. PICK chain \in Chains : InitStaking(chain)
  BY DEF Init
<1>2. chain.powers \subseteq Nat
  BY <1>1, ChainsAssumption DEF Chain
<1>3. PICK power \in [Validators -> chain.powers], jailed \in SUBSET Validators,
           old \in [Validators -> {"unbonding", "unbonded"}] :
        LET unelected ==
              [v \in Validators |->
                [power |-> power[v], jailed |-> v \in jailed, status |-> old[v],
                 unbondingHeight |-> LastHeight]]
        IN /\ index = Validators \ jailed
           /\ val = AppliedUpdates(unelected, index, LastHeight)
  BY <1>1, Zenon DEF InitStaking
<1> DEFINE V == [v \in Validators |->
                  [power |-> power[v], jailed |-> v \in jailed, status |-> old[v],
                   unbondingHeight |-> LastHeight]]
<1>4. index = Validators \ jailed /\ val = AppliedUpdates(V, index, LastHeight)
  BY <1>3
<1>5. \A v \in Validators : V[v] \in ValidatorRecords /\ V[v].jailed = (v \in jailed)
  <2>1. \A v \in Validators :
          power[v] \in Nat /\ (v \in jailed) \in BOOLEAN
          /\ old[v] \in {"bonded", "unbonding", "unbonded"} /\ LastHeight \in Nat
    BY <1>2, StakingAssumption
  <2>2. QED BY <2>1 DEF ValidatorRecords
<1>6. V \in [Validators -> ValidatorRecords]
  BY <1>5
<1> HIDE DEF V
<1>7. \A v \in Validators : val[v].jailed = (v \in jailed)
  BY <1>4, <1>5, <1>6, Elections
<1>8. stage = "begin"
  BY DEF Init
<1>9. QED BY <1>4, <1>7, <1>8 DEF JailedInv, Visited, AfterJail, AfterSigning

LEMMA JailedNext ==
  ASSUME JailedInv, SeatsInv, WayInv, FreshInv, [Next]_vars
  PROVE  JailedInv'
<1>1. UNCHANGED <<index, zero, allowed, closes>>
  BY Steps, DistSteps DEF request
<1>2. /\ val \in [Validators -> ValidatorRecords] /\ index \in SUBSET Validators
      /\ ctx \in Nat /\ Seated(val, index)
  BY DEF SeatsInv
<1> DEFINE Passed(v) == Visited("jail", AfterJail, v)
           Settled == {"signing"} \cup AfterSigning
<1>3. ASSUME UNCHANGED val, stage = "panicked" => stage' = "panicked",
             zero /\ stage' # "panicked" => \A v \in Validators : Passed(v)' <=> Passed(v),
             zero /\ closes /\ stage' \in Settled => stage \in Settled
      PROVE  JailedInv'
  BY <1>1, <1>3 DEF JailedInv, Jails, Bonded, AfterSigning
<1>4. CASE UNCHANGED vars
  BY <1>3, <1>4 DEF vars, Visited
<1>5. ASSUME NEW s, NEW x, Visit(s, x), s # "jail", UNCHANGED val
      PROVE  JailedInv'
  BY <1>3, <1>5 DEF Visit, Visited
<1>6. ASSUME NEW s, Enter(s), UNCHANGED val,
             \/ stage = "begin" /\ s = (IF zero THEN "assert" ELSE "export")
             \/ stage = "assert" /\ s \in {"commission", "panicked", "exited"}
             \/ stage \in DOMAIN Following /\ todo = {} /\ s = Following[stage]
             \/ stage = "jail" /\ todo = {} /\ ~closes /\ s = "export"
             \/ stage = "slashes" /\ s = "historical"
             \/ stage = "historical" /\ s = "validators"
             \/ stage = "export" /\ s = "done"
      PROVE  JailedInv'
  <2>1. stage # "panicked" /\ stage' = s
    BY <1>6 DEF Enter, Following
  <2>2. zero /\ closes /\ stage' \in Settled => stage \in Settled
    BY <1>6 DEF Enter, Following, AfterSigning
  <2>3. ASSUME zero, stage' # "panicked", NEW v \in Validators PROVE Passed(v)' <=> Passed(v)
    BY <1>6, <2>3 DEF Enter, Items, Following, Visited, AfterJail, AfterSigning
  <2>4. QED BY <1>3, <1>6, <2>1, <2>2, <2>3
<1>7. CASE \/ Begin \/ RejectAllowList \/ AssertInvariants \/ EndLoop \/ CloseFails
           \/ ClearSlashEvents \/ ClearHistorical \/ ExportGenesis
  <2>1. CASE Begin
    BY <1>6, <2>1, Zenon DEF Begin, staking
  <2>2. CASE AssertInvariants
    <3> DEFINE s == IF ReferencesAreCounted(dist) /\ Covered(dist) /\ CanWithdraw(dist)
                    THEN "commission" ELSE "panicked"
    <3>1. Enter(s) /\ stage = "assert" /\ UNCHANGED val /\ s \in {"commission", "panicked"}
      BY <2>2 DEF AssertInvariants, staking
    <3>2. QED BY <1>6, <3>1, Zenon
  <2>3. CASE EndLoop
    BY <1>6, <2>3 DEF EndLoop, staking
  <2>4. CASE ClearSlashEvents
    BY <1>6, <2>4 DEF ClearSlashEvents, staking
  <2>5. CASE ClearHistorical
    BY <1>6, <2>5 DEF ClearHistorical, staking
  <2>6. CASE ExportGenesis
    BY <1>6, <2>6 DEF ExportGenesis, staking
  <2>7. CASE RejectAllowList \/ CloseFails
    BY <1>6, <2>7 DEF RejectAllowList, CloseFails, staking
  <2>8. QED BY <1>7, <2>1, <2>2, <2>3, <2>4, <2>5, <2>6, <2>7
<1>8. ASSUME NEW v \in Validators,
             WithdrawAllCommission(v) \/ ReinitializeValidator(v) \/ ResetStartHeight(v)
      PROVE  JailedInv'
  BY <1>5, <1>8 DEF WithdrawAllCommission, ReinitializeValidator, ResetStartHeight, staking
<1>9. ASSUME NEW x \in dels, WithdrawAllRewards(x) \/ ReinitializeDelegation(x)
      PROVE  JailedInv'
  BY <1>5, <1>9 DEF WithdrawAllRewards, ReinitializeDelegation, staking
<1>10. ASSUME NEW e \in Entries, ResetCreationHeight(e)
       PROVE  JailedInv'
  BY <1>5, <1>10 DEF ResetCreationHeight
<1>11. ASSUME NEW v \in Validators, ResetValidator(v)
       PROVE  JailedInv'
  <2>1. Visit("jail", v) /\ val' = [val EXCEPT ![v] = Reset(val[v], Jails(v))]
    BY <1>11 DEF ResetValidator
  <2>2. zero /\ stage = "jail" /\ stage' = "jail" /\ v \in todo /\ todo' = todo \ {v}
    BY <2>1 DEF Visit, FreshInv, CourseInv
  <2>3. val[v] \in ValidatorRecords /\ Jails(v) \in BOOLEAN
    BY <1>2 DEF Jails
  <2>4. Reset(val[v], Jails(v)).jailed = (val[v].jailed \/ Jails(v))
    BY <2>3 DEF Reset, ValidatorRecords
  <2> DEFINE r == Reset(val[v], Jails(v))
  <2> HIDE DEF r
  <2>5. val'[v] = r /\ \A w \in Validators \ {v} : val'[w] = val[w]
    BY <1>2, <2>1 DEF r
  <2>6. val'[v].jailed = (val[v].jailed \/ Jails(v))
    BY <2>4, <2>5 DEF r
  <2>7. ~ Passed(v) /\ Passed(v)' /\ \A w \in Validators \ {v} : Passed(w)' <=> Passed(w)
    BY <2>2 DEF Visited, AfterJail, AfterSigning
  <2>8. ASSUME NEW w \in Validators
        PROVE  val'[w].jailed <=> w \notin index \/ (zero /\ Jails(w) /\ Passed(w)')
    <3> HIDE DEF Passed
    <3>1. CASE w = v
      BY <2>2, <2>6, <2>7, <3>1 DEF JailedInv, Passed
    <3>2. CASE w # v
      BY <2>2, <2>5, <2>7, <3>2 DEF JailedInv, Passed
    <3>3. QED BY <3>1, <3>2
  <2>9. stage' \notin Settled
    BY <2>2 DEF AfterSigning
  <2>10. QED BY <1>1, <2>8, <2>9 DEF JailedInv, Jails
<1>12. CASE ApplyUpdates
  <2>1. val' = val /\ stage = "apply" /\ zero
    BY <1>2, <1>12, Applying DEF ApplyUpdates, FreshInv, CourseInv
  <2>2. CASE \E v \in Reached(val, index) : val[v].jailed
    <3>1. stage' = "panicked"
      BY <1>12, <2>2 DEF ApplyUpdates, Enter
    <3>2. QED BY <3>1 DEF JailedInv, AfterSigning
  <2>3. CASE \A v \in Reached(val, index) : ~ val[v].jailed
    <3>1. stage' = "signing"
      BY <1>12, <2>3 DEF ApplyUpdates, Enter
    <3>2. \A v \in Validators : Passed(v) /\ Passed(v)'
      BY <2>1, <3>1 DEF Visited, AfterJail
    <3>3. \A v \in Bonded(val) : ~ val[v].jailed
      BY <1>2, <2>3 DEF Bonded, Seated, Elected
    <3>4. QED BY <1>1, <2>1, <3>1, <3>2, <3>3 DEF JailedInv, Jails
  <2>4. QED BY <2>2, <2>3
<1>13. QED BY <1>4, <1>7, <1>8, <1>9, <1>10, <1>11, <1>12, Zenon DEF Next

---------------------------------------------------------------------------
(* The invariants of the export                                            *)

ExportInv ==
  /\ SeatsInv /\ FreshInv /\ WayInv /\ PeriodsInv
  /\ MoneyInv /\ LossInv /\ JailInv /\ AnewInv /\ PaidInv /\ JailedInv

LEMMA ExportInvariant == Spec => []ExportInv
<1>1. Init => ExportInv
  <2>1. Init => AnewInv /\ PaidInv
    BY DEF Init, AnewInv, PaidInv, Visited, BeyondCommission, BeyondRewards, AfterSlashes,
       AfterValidators, AfterDelegations, AfterRedelegations, AfterUnbondings, AfterJail,
       AfterSigning
  <2>2. QED BY <2>1, SeatsInit, FreshInit, WayInit, PeriodsInit, MoneyInit, LossInit, JailInit,
               JailedInit DEF ExportInv
<1>2. ExportInv /\ [Next]_vars => ExportInv'
  BY SeatsNext, FreshNext, WayNext, PeriodsNext, MoneyNext, LossNext, JailNext, AnewNext,
     PaidNext, JailedNext DEF ExportInv
<1>3. QED BY <1>1, <1>2, PTL DEF Spec

(* Every part of the state stays in its type, whatever is exported and in  *)
(* whatever order the iterators walk: in particular no reference count and *)
(* no amount ever falls below zero, and no period leaves the bound that    *)
(* the number of delegators gives.                                         *)
THEOREM ExportTypes == Spec => []TypeOK
<1>1. ASSUME ExportInv PROVE TypeOK
  <2>1. /\ stage \in Stages /\ todo \subseteq Items(stage)
        /\ {zero, closes} \subseteq BOOLEAN /\ dels \subseteq Pairs
        /\ allowed \subseteq Validators \cup Strangers
        /\ ctx \in {0, LastHeight} /\ height \in {0, LastHeight + 1}
    BY <1>1 DEF ExportInv, WayInv, FreshInv, CourseInv
  <2>2. index \subseteq Validators /\ created \in [Entries -> Nat]
        /\ signing \in [Validators -> Nat]
    BY <1>1 DEF ExportInv, SeatsInv, FreshInv, HeightsInv
  <2>3. val \in [Validators ->
          [power : Nat, jailed : BOOLEAN, unbondingHeight : {0, LastHeight},
           status : {"bonded", "unbonding", "unbonded"}]]
    <3>1. /\ val \in [Validators -> ValidatorRecords]
          /\ \A v \in Validators : val[v].unbondingHeight \in {0, LastHeight}
      BY <1>1 DEF ExportInv, SeatsInv, JailInv
    <3>2. \A v \in Validators : val[v] \in
            [power : Nat, jailed : BOOLEAN, unbondingHeight : {0, LastHeight},
             status : {"bonded", "unbonding", "unbonded"}]
      BY <3>1 DEF ValidatorRecords
    <3>3. QED BY <3>1, <3>2
  <2>4. dist \in
       [out : [Validators -> Nat], com : [Validators -> Nat], due : [dels -> Nat],
        pool : Nat, bank : Nat, paid : Nat, lost : Nat, cur : [Validators -> Nat],
        hist : [Validators -> [Periods -> Nat]],
        slashed : [Validators -> SUBSET Periods],
        start : [dels -> [period : Periods, height : {0, LastHeight}]]]
    <3>1. Shape(dist) /\ AllMoney(dist) /\ AllPeriods(dist)
      BY <1>1 DEF ExportInv, FreshInv, DistInv, MoneyInv, PeriodsInv
    <3>2. QED BY <3>1 DEF Shape, Fields, AllMoney, AllPeriods
  <2>5. QED BY <2>1, <2>2, <2>3, <2>4 DEF TypeOK
<1>2. QED BY <1>1, ExportInvariant, PTL

(* Between any two calls the balance of the distribution module is what it *)
(* owes and what refused commissions have lost, and at the end all but     *)
(* those is the community pool's: no withdrawal that fails half way leaves *)
(* a debt that nothing covers.                                             *)
THEOREM ExportIsSolvent == Spec => []Solvent
<1>1. ASSUME ExportInv PROVE Solvent
  <2>1. AllMoney(dist) /\ Accounted(dist) /\ CanWithdraw(dist) /\ dels \subseteq Pairs
    BY <1>1 DEF ExportInv, MoneyInv, WayInv
  <2>2. ASSUME zero, stage = "done" PROVE dist.bank = dist.pool + dist.lost
    <3>1. \A v \in Validators : dist.out[v] = 0
      BY <1>1, <2>2 DEF ExportInv, MoneyInv, Visited, AfterValidators, AfterDelegations,
         AfterRedelegations, AfterUnbondings, AfterJail, AfterSigning
    <3>2. Total(dist.out) = 0
      BY <2>1, <3>1, SoundSums, SumZero, ValidatorsAssumption
    <3>3. QED BY <2>1, <3>2 DEF Accounted, AllMoney
  <2>3. Unpayable = {} => dist.lost = 0
    BY <1>1 DEF ExportInv, LossInv
  <2>4. QED BY <2>1, <2>2, <2>3 DEF Accounted, Solvent
<1>2. QED BY <1>1, ExportInvariant, PTL

(* The reference counts are those of the delegations, slash events and     *)
(* current periods wherever a keeper relies on them.                       *)
THEOREM ReferencesAreRebuilt == Spec => []ReferencesHold
<1>1. ASSUME ExportInv PROVE ReferencesHold
  <2>1. dels \subseteq Pairs /\ dist.due \in [dels -> Nat] /\ PeriodsInv
    BY <1>1 DEF ExportInv, WayInv, MoneyInv, AllMoney
  <2>2. QED BY <2>1, ReferencesCounted DEF ReferencesHold
<1>2. QED BY <1>1, ExportInvariant, PTL

(* An export for height 0 leaves a distribution state in which nobody has  *)
(* earned anything and the delegations of each validator came one after    *)
(* the other: what a chain of gentxs and delegations has before its first  *)
(* reward.  Whatever periods, slash events and failed withdrawals the old  *)
(* chain had, and in whatever order the iterators walk, nothing of them is *)
(* left to be exported a second time.                                      *)
THEOREM ExportBeginsAnew == Spec => []BeginsAnew
<1>1. ASSUME ExportInv PROVE BeginsAnew
  <2> SUFFICES ASSUME zero, stage = "done", NEW v \in Validators
               PROVE  LET k == Cardinality(At(dist, v))
                      IN /\ dist.cur[v] = k + 1
                         /\ {dist.start[x].period : x \in At(dist, v)} = 1 .. k
                         /\ dist.hist[v] = [p \in Periods |-> One(p \in 1 .. k) + One(p = k)]
                         /\ dist.out[v] = 0 /\ dist.com[v] = 0
                         /\ \A x \in At(dist, v) : dist.due[x] = 0
    BY DEF BeginsAnew
  <2> DEFINE S == Of(v)
             k == Cardinality(S)
  <2>1. /\ dels \subseteq Pairs /\ AllMoney(dist) /\ AllPeriods(dist) /\ CanWithdraw(dist)
        /\ Counts(dist, v, S) /\ dist.out[v] = 0 /\ dist.slashed[v] = {}
        /\ Numbered(S, dist.start, dist.cur[v] - 1)
    BY <1>1 DEF ExportInv, WayInv, PeriodsInv, MoneyInv, AnewInv, FreshInv, DistInv, Holding,
       Visited, AfterSlashes, AfterValidators, AfterDelegations, AfterRedelegations,
       AfterUnbondings, AfterJail, AfterSigning
  <2>2. At(dist, v) = S /\ IsFiniteSet(S) /\ k \in Nat /\ S \subseteq dels
    BY <2>1, OwnAt, Delegating DEF AllMoney
  <2>3. dist.cur[v] = k + 1 /\ dist.cur[v] - 1 = k
    BY <2>1, <2>2 DEF Numbered, AllPeriods
  <2> HIDE DEF k
  <2>4. Numbered(S, dist.start, k)
    BY <2>1, <2>3
  <2>5. {dist.start[x].period : x \in S} = 1 .. k
    <3>1. ASSUME NEW p \in 1 .. k PROVE \E x \in S : dist.start[x].period = p
      BY <2>4 DEF Numbered, Class
    <3>2. QED BY <2>4, <3>1 DEF Numbered
  <2>6. dist.hist[v] = [p \in Periods |-> One(p \in 1 .. k) + One(p = k)]
    <3>1. ASSUME NEW p \in Periods
          PROVE  Cardinality(Class(S, dist.start, p)) = One(p \in 1 .. k)
      <4>1. CASE p \in 1 .. k
        BY <2>4, <4>1, FS_Singleton DEF Numbered, One
      <4>2. CASE p \notin 1 .. k
        <5>1. Class(S, dist.start, p) = {}
          BY <2>4, <4>2 DEF Numbered, Class
        <5>2. QED BY <4>2, <5>1, FS_EmptySet DEF One
      <4>3. QED BY <4>1, <4>2
    <3>2. ASSUME NEW p \in Periods
          PROVE  dist.hist[v][p] = One(p \in 1 .. k) + One(p = k)
      <4>1. dist.hist[v][p] = Cardinality(Class(S, dist.start, p)) + One(p = dist.cur[v] - 1)
                              + One(p \in dist.slashed[v])
        BY <2>1 DEF Counts, Tally
      <4>2. QED BY <2>1, <2>3, <3>1, <4>1 DEF One
    <3>3. dist.hist[v] \in [Periods -> Nat]
      BY <2>1 DEF AllPeriods
    <3>4. QED BY <3>2, <3>3
  <2>7. dist.com[v] = 0 /\ Due(dist, v) = 0
    BY <2>1, SoundSums DEF CanWithdraw
  <2>8. ASSUME NEW x \in S PROVE dist.due[x] = 0
    <3>1. \A y \in S : dist.due[y] \in Nat
      BY <2>1, <2>2 DEF AllMoney
    <3>2. SumFunctionOnSet(dist.due, S) = dist.due[x] + SumFunctionOnSet(dist.due, S \ {x})
      BY <2>2, <3>1, SumRemove
    <3>3. SumFunctionOnSet(dist.due, S \ {x}) \in Nat
      BY <2>2, <3>1, SumType
    <3>4. SumFunctionOnSet(dist.due, S) = 0
      BY <2>7 DEF Due
    <3>5. QED BY <3>1, <3>2, <3>3, <3>4
  <2>9. QED BY <2>1, <2>2, <2>3, <2>5, <2>6, <2>7, <2>8 DEF k
<1>2. QED BY <1>1, ExportInvariant, PTL

(* The invariants asserted at the beginning hold on every exported state,  *)
(* and the election at the end panics only on a validator that the allow   *)
(* list leaves out.                                                        *)
THEOREM OnlyAllowListsPanic == Spec => []PanicsOnlyOverAllowList
<1>1. ASSUME ExportInv PROVE PanicsOnlyOverAllowList
  BY <1>1 DEF ExportInv, JailInv
<1>2. QED BY <1>1, ExportInvariant, PTL
---------------------------------------------------------------------------
(* The export implements the abstract one                                  *)

(* On an exported state, what can be paid and what would be refused is     *)
(* covered.                                                                *)
LEMMA PayableInit ==
  ASSUME Init
  PROVE  /\ dist.bank \in Nat /\ dist.paid = 0
         /\ Unpaid \in 0 .. dist.bank /\ Losses \in 0 .. dist.bank - Unpaid
<1>1. PICK due \in [dels -> Nat], com \in [Validators -> Nat], dust \in [Validators -> Nat],
           slash \in [Validators -> SUBSET Nat] : Exported(due, com, dust, slash, dist)
  BY ExportedState
<1>2. /\ dist.com = com /\ dist.due = due /\ dist.paid = 0 /\ dist.lost = 0
      /\ dist.bank = Total(com) + Total(dust) + Total(due)
  BY <1>1 DEF Exported
<1>3. dels \subseteq Pairs /\ AllMoney(dist)
  BY MoneyInit, WayInit DEF MoneyInv, WayInv
<1> DEFINE f == SentCommissions(dist)
           h == LostCommissions(dist)
           k == [v \in Validators |-> f[v] + h[v]]
           g == WholeRewards(dist)
<1>4. /\ IsFiniteSet(Validators) /\ IsFiniteSet(dels)
      /\ \A v \in Validators : /\ com[v] \in Nat /\ f[v] \in Nat /\ h[v] \in Nat
                               /\ f[v] + h[v] <= com[v]
      /\ \A x \in dels : due[x] \in Nat /\ g[x] \in Nat /\ g[x] <= due[x]
      /\ Total(f) = SumFunctionOnSet(f, Validators) /\ Total(h) = SumFunctionOnSet(h, Validators)
      /\ Total(g) = SumFunctionOnSet(g, dels)
      /\ Total(f) \in Nat /\ Total(h) \in Nat /\ Total(g) \in Nat /\ dist.bank \in Nat
  BY <1>2, <1>3, PaymentSums
<1>5. Unpaid = Total(f) + Total(g) /\ Losses = dist.lost + Total(h)
  BY PaymentsNamed DEF ToPay, Lost
<1> HIDE DEF f, g, h
<1>6. /\ Total(com) = SumFunctionOnSet(com, Validators)
      /\ Total(dust) = SumFunctionOnSet(dust, Validators)
      /\ Total(due) = SumFunctionOnSet(due, dels)
  <2>1. DOMAIN com = Validators /\ DOMAIN dust = Validators /\ DOMAIN due = dels
    OBVIOUS
  <2>2. QED BY <2>1, Zenon DEF Total, SumFunction
<1>7. Total(com) \in Nat /\ Total(dust) \in Nat /\ Total(due) \in Nat
  <2>1. \A v \in Validators : dust[v] \in Nat
    OBVIOUS
  <2>2. /\ SumFunctionOnSet(com, Validators) \in Nat /\ SumFunctionOnSet(dust, Validators) \in Nat
        /\ SumFunctionOnSet(due, dels) \in Nat
    BY <1>4, <2>1, SumType
  <2>3. QED BY <1>6, <2>2
<1>8. Total(f) + Total(h) <= Total(com)
  <2>1. \A v \in Validators : k[v] = f[v] + h[v] /\ k[v] \in Nat /\ k[v] <= com[v]
    BY <1>4
  <2> HIDE DEF k
  <2>2. SumFunctionOnSet(k, Validators)
          = SumFunctionOnSet(f, Validators) + SumFunctionOnSet(h, Validators)
    BY <1>4, <2>1, SumPlus
  <2>3. SumFunctionOnSet(k, Validators) <= SumFunctionOnSet(com, Validators)
    BY <1>4, <2>1, SumMonotone
  <2>4. QED BY <1>4, <1>6, <2>2, <2>3
<1>9. Total(g) <= Total(due)
  <2>1. SumFunctionOnSet(g, dels) <= SumFunctionOnSet(due, dels)
    BY <1>4, SumMonotone
  <2>2. QED BY <1>4, <1>6, <2>1
<1>10. Unpaid \in Nat /\ Losses \in Nat /\ Unpaid + Losses <= dist.bank
  <2> DEFINE a == Total(f)
             b == Total(g)
             i == Total(h)
             c == Total(com)
             d == Total(dust)
             e == Total(due)
  <2>1. /\ a \in Nat /\ b \in Nat /\ i \in Nat /\ c \in Nat /\ d \in Nat /\ e \in Nat
        /\ a + i <= c /\ b <= e
        /\ Unpaid = a + b /\ Losses = i /\ dist.bank = c + d + e
    BY <1>2, <1>4, <1>5, <1>7, <1>8, <1>9
  <2> HIDE DEF a, b, c, d, e, i
  <2>2. QED BY <2>1
<1>11. QED BY <1>2, <1>4, <1>10

LEMMA PromiseInit == Init => Promise!Init
<1> SUFFICES ASSUME Init PROVE Promise!Init
  OBVIOUS
<1>1. stage = "begin" /\ zero \in BOOLEAN /\ closes \in BOOLEAN
  BY WayInit DEF Init, WayInv
<1>2. /\ PhaseBar = "asked" /\ CoinsBar = dist.bank + dist.paid /\ PayableBar = dist.paid + Unpaid
      /\ PaidBar = 0 /\ JailedBar = Validators \ index
  BY <1>1 DEF PhaseBar, SettledBar, CoinsBar, PayableBar, PaidBar, JailedBar
<1>3. /\ CoinsBar \in Nat /\ PayableBar \in 0 .. CoinsBar
      /\ Losses \in 0 .. CoinsBar - PayableBar
  BY <1>2, PayableInit
<1>4. Bonded(val) \subseteq Validators \ JailedBar
  <2>1. Seated(val, index)
    BY SeatsInit DEF SeatsInv
  <2>2. QED BY <1>2, <2>1 DEF Bonded, Seated, Elected, Reached
<1>5. allowed \subseteq Validators \cup Strangers
  BY WayInit DEF WayInv
<1>6. QED BY <1>1, <1>2, <1>3, <1>4, <1>5 DEF Promise!Init

(* Where an export for height 0 writes its genesis, nothing is left to be  *)
(* paid or to be lost, and all the module has but what was lost is the     *)
(* pool.                                                                   *)
LEMMA AllPaid ==
  ASSUME ExportInv, zero, stage = "export"
  PROVE  /\ Unpaid = 0 /\ Losses = dist.lost /\ dist.bank = dist.pool + dist.lost
         /\ dist.pool \in Nat /\ dist.lost \in Nat /\ dist.paid \in Nat
<1>1. dels \subseteq Pairs /\ AllMoney(dist) /\ Accounted(dist)
  BY DEF ExportInv, WayInv, MoneyInv
<1>2. /\ \A v \in Validators : dist.out[v] = 0 /\ Whole(dist.com[v]) = 0
      /\ \A x \in dels : Served(dist, x)
  BY DEF ExportInv, MoneyInv, PaidInv, Visited, BeyondCommission, BeyondRewards, AfterSlashes,
     AfterValidators, AfterDelegations, AfterRedelegations, AfterUnbondings, AfterJail,
     AfterSigning
<1>3. Total(dist.out) = 0
  BY <1>1, <1>2, SoundSums, SumZero, ValidatorsAssumption
<1>4. /\ dist.bank = dist.pool + dist.lost
      /\ dist.pool \in Nat /\ dist.lost \in Nat /\ dist.paid \in Nat
  BY <1>1, <1>3 DEF Accounted, AllMoney
<1> DEFINE f == SentCommissions(dist)
           h == LostCommissions(dist)
           g == WholeRewards(dist)
<1>5. (\A v \in Validators : f[v] = 0 /\ h[v] = 0) /\ \A x \in dels : g[x] = 0
  BY <1>2 DEF SentCommissions, LostCommissions, Sent, WholeRewards, Served
<1>6. /\ IsFiniteSet(Validators) /\ IsFiniteSet(dels)
      /\ Total(f) = SumFunctionOnSet(f, Validators) /\ Total(h) = SumFunctionOnSet(h, Validators)
      /\ Total(g) = SumFunctionOnSet(g, dels)
  BY <1>1, PaymentSums
<1>7. Unpaid = Total(f) + Total(g) /\ Losses = dist.lost + Total(h)
  BY PaymentsNamed DEF ToPay, Lost
<1> HIDE DEF f, g, h
<1>8. Total(f) = 0 /\ Total(g) = 0 /\ Total(h) = 0
  BY <1>5, <1>6, SumZero
<1>9. QED BY <1>4, <1>7, <1>8

(* Writing the genesis is the abstract export.                             *)
LEMMA WritingExports ==
  ASSUME ExportInv, ExportGenesis
  PROVE  Promise!Export
<1>1. /\ stage = "export" /\ stage' = "done"
      /\ UNCHANGED <<zero, allowed, closes, dels, dist, val, index>>
  BY DEF ExportGenesis, Enter, request, staking
<1>2. PhaseBar = "asked" /\ PhaseBar' = "done"
  BY <1>1 DEF PhaseBar
<1>3. /\ JailedBar = Validators \ index
      /\ JailedBar' = {v \in Validators : val[v].jailed}
  BY <1>1 DEF JailedBar
<1>4. \A v \in Validators : val[v].jailed <=> v \notin index \/ v \in Promise!Barred
  BY <1>1 DEF ExportInv, JailedInv, Visited, AfterJail, AfterSigning, Jails, Promise!Barred
<1>5. Promise!Barred \subseteq Validators
  BY DEF Promise!Barred
<1>6. JailedBar' = JailedBar \cup Promise!Barred
  BY <1>3, <1>4, <1>5
<1>7. closes => Promise!Barred \cap Bonded(val) = {}
  <2>1. zero /\ closes => \A v \in Bonded(val) : ~ val[v].jailed
    BY <1>1 DEF ExportInv, JailedInv, AfterSigning
  <2>2. ~ zero => Promise!Barred = {}
    BY DEF Promise!Barred
  <2>3. QED BY <1>4, <1>5, <2>1, <2>2
<1>8. Promise!Readable
  BY <1>1 DEF Promise!Readable, ExportInv, WayInv
<1>9. UNCHANGED <<Unpaid, Losses>>
  BY <1>1 DEF Unpaid, Payout, Losses, Sent
<1>10. CASE zero
  <2>1. /\ Unpaid = 0 /\ Losses = dist.lost /\ dist.bank = dist.pool + dist.lost
        /\ dist.pool \in Nat /\ dist.lost \in Nat /\ dist.paid \in Nat
    BY <1>1, <1>10, AllPaid
  <2>2. /\ CoinsBar = dist.bank + dist.paid /\ PayableBar = dist.paid + Unpaid /\ PaidBar = 0
        /\ CoinsBar' = dist.pool /\ PayableBar' = 0 /\ PaidBar' = dist.paid
    BY <1>1, <1>10 DEF SettledBar, CoinsBar, PayableBar, PaidBar
  <2>3. CoinsBar' = CoinsBar - PayableBar - Losses /\ PayableBar' = 0 /\ PaidBar' = PayableBar
    BY <2>1, <2>2
  <2>4. QED BY <1>1, <1>2, <1>6, <1>7, <1>8, <1>9, <1>10, <2>3
            DEF Promise!Export, Promise!PayOut, Promise!request, Bonded
<1>11. CASE ~ zero
  <2>1. UNCHANGED <<CoinsBar, PayableBar, PaidBar>>
    BY <1>1, <1>9, <1>11 DEF SettledBar, CoinsBar, PayableBar, PaidBar
  <2>2. QED BY <1>1, <1>2, <1>6, <1>7, <1>8, <1>9, <1>11, <2>1
            DEF Promise!Export, Promise!money, Promise!request, Bonded
<1>12. QED BY <1>10, <1>11

Over == {"done", "panicked", "exited"}

(* All that a step before it shows is a panic, or that the list is no list *)
(* of addresses.                                                           *)
LEMMA NothingShows ==
  ASSUME ExportInv, ExportInv', [Next]_vars, stage \notin Over, stage' # "done"
  PROVE  UNCHANGED <<zero, allowed, closes, CoinsBar, PayableBar, Losses, PaidBar,
                     Bonded(val), JailedBar>>
<1>1. UNCHANGED <<zero, allowed, closes, dels, index>>
  BY Steps, DistSteps DEF request, ExportInv
<1>2. Bonded(val') = Bonded(val)
  BY SeatsNext DEF ExportInv
<1>3. Settles(dist, dist')
  BY PaidNext DEF ExportInv
<1>4. /\ Unpaid = ToPay(dist) /\ Unpaid' = ToPay(dist')
      /\ Losses = Lost(dist) /\ Losses' = Lost(dist')
  BY <1>1, PaymentsNamed DEF Unpaid, Losses, Payout, ToPay, Lost, SentCommissions,
     LostCommissions, WholeRewards, Sent, Whole, Total
<1>5. ~ SettledBar /\ ~ SettledBar'
  BY DEF SettledBar, Over
<1>6. UNCHANGED <<CoinsBar, PayableBar, Losses, PaidBar>>
  BY <1>3, <1>4, <1>5, Zenon DEF Settles, CoinsBar, PayableBar, PaidBar
<1>7. UNCHANGED JailedBar
  BY <1>1 DEF JailedBar, Over
<1>8. QED BY <1>1, <1>2, <1>6, <1>7 DEF Bonded

(* Nothing follows a genesis, a panic or an exit.                          *)
LEMMA NothingFollows ==
  ASSUME [Next]_vars, stage \in Over
  PROVE  UNCHANGED vars
<1>1. /\ ~ Begin /\ ~ RejectAllowList /\ ~ AssertInvariants /\ ~ EndLoop /\ ~ CloseFails
      /\ ~ ClearSlashEvents /\ ~ ClearHistorical /\ ~ ApplyUpdates /\ ~ ExportGenesis
  BY DEF Begin, RejectAllowList, AssertInvariants, EndLoop, CloseFails, ClearSlashEvents,
         ClearHistorical, ApplyUpdates, ExportGenesis, Following, Over
<1>2. ASSUME NEW v PROVE ~ WithdrawAllCommission(v) /\ ~ ReinitializeValidator(v)
                         /\ ~ ResetValidator(v) /\ ~ ResetStartHeight(v)
  BY DEF WithdrawAllCommission, ReinitializeValidator, ResetValidator, ResetStartHeight, Visit,
         Over
<1>3. ASSUME NEW x PROVE ~ WithdrawAllRewards(x) /\ ~ ReinitializeDelegation(x)
                         /\ ~ ResetCreationHeight(x)
  BY DEF WithdrawAllRewards, ReinitializeDelegation, ResetCreationHeight, Visit, Over
<1>4. QED BY <1>1, <1>2, <1>3, Zenon DEF Next

(* What ends the export: writing the genesis, and a list that cannot be    *)
(* read.                                                                   *)
LEMMA Endings ==
  ASSUME [Next]_vars, stage \notin Over, stage' \in {"done", "exited"}
  PROVE  (stage' = "done" /\ ExportGenesis) \/ (stage' = "exited" /\ RejectAllowList)
<1>1. stage' # stage
  BY DEF Over
<1>2. ~ UNCHANGED vars
  BY <1>1 DEF vars
<1>3. /\ ~ Begin /\ ~ AssertInvariants /\ ~ EndLoop /\ ~ CloseFails
      /\ ~ ClearSlashEvents /\ ~ ClearHistorical /\ ~ ApplyUpdates
      /\ RejectAllowList => stage' = "exited"
      /\ ExportGenesis => stage' = "done"
  BY DEF Begin, AssertInvariants, EndLoop, CloseFails, ClearSlashEvents, ClearHistorical,
         ApplyUpdates, RejectAllowList, ExportGenesis, Enter, Following
<1>4. ASSUME NEW v PROVE ~ WithdrawAllCommission(v) /\ ~ ReinitializeValidator(v)
                         /\ ~ ResetValidator(v) /\ ~ ResetStartHeight(v)
  BY <1>1 DEF WithdrawAllCommission, ReinitializeValidator, ResetValidator, ResetStartHeight,
              Visit
<1>5. ASSUME NEW x PROVE ~ WithdrawAllRewards(x) /\ ~ ReinitializeDelegation(x)
                         /\ ~ ResetCreationHeight(x)
  BY <1>1 DEF WithdrawAllRewards, ReinitializeDelegation, ResetCreationHeight, Visit
<1>6. QED BY <1>2, <1>3, <1>4, <1>5, Zenon DEF Next

(* An export that panics could read its list and close its iterators, and  *)
(* was to bar somebody who was not jailed.                                 *)
LEMMA PanicShows ==
  ASSUME ExportInv, ExportInv', [Next]_vars, stage \notin Over, stage' = "panicked"
  PROVE  /\ Promise!Readable /\ closes
         /\ ~ (Promise!Barred \subseteq Validators \ index)
<1>1. ApplyUpdates
  <2>1. AssertInvariants \/ ApplyUpdates
    BY Panicking DEF vars, Over
  <2>2. ASSUME AssertInvariants PROVE FALSE
    <3>1. stage = "assert"
      BY <2>2 DEF AssertInvariants
    <3>2. QED BY <2>2, <3>1, AssertionsHold DEF AssertInvariants, Enter, ExportInv
  <2>3. QED BY <2>1, <2>2
<1>2. zero /\ closes /\ allowed \cap Malformed = {}
  BY <1>1 DEF ApplyUpdates, ExportInv, FreshInv, CourseInv, WayInv
<1>3. allowed' # {} /\ ~ (Reached(val', index') \subseteq allowed')
  BY DEF ExportInv, JailInv, PanicsOnlyOverAllowList
<1>4. allowed' = allowed /\ index' = index /\ index \subseteq Validators
  BY Steps, DistSteps DEF request, ExportInv, SeatsInv
<1>5. ~ (Promise!Barred \subseteq Validators \ index)
  BY <1>2, <1>3, <1>4 DEF Promise!Barred, Reached
<1>6. QED BY <1>2, <1>5 DEF Promise!Readable

LEMMA PromiseStep ==
  ASSUME ExportInv, ExportInv', [Next]_vars
  PROVE  [Promise!Next]_(Promise!vars)
<1>1. CASE UNCHANGED vars
  <2>1. UNCHANGED <<stage, zero, allowed, closes, dels, dist, val, index>>
    BY <1>1 DEF vars, request, staking
  <2>2. UNCHANGED <<Unpaid, Losses>>
    BY <2>1 DEF Unpaid, Payout, Losses, Sent
  <2>3. QED BY <2>1, <2>2 DEF Promise!vars, Promise!request, Promise!money, PhaseBar, SettledBar,
            CoinsBar, PayableBar, PaidBar, JailedBar, Bonded
<1>2. CASE stage \in Over
  BY <1>1, <1>2, NothingFollows
<1>3. CASE stage \notin Over /\ stage' = "done"
  BY <1>3, Endings, WritingExports, Zenon DEF Promise!Next
<1>4. CASE stage \notin Over /\ stage' # "done"
  <2>1. UNCHANGED <<zero, allowed, closes, CoinsBar, PayableBar, Losses, PaidBar,
                    Bonded(val), JailedBar>>
    BY <1>4, NothingShows
  <2>2. PhaseBar = "asked" /\ JailedBar = Validators \ index
    BY <1>4 DEF PhaseBar, JailedBar, Over
  <2>3. CASE stage' \notin Over
    <3>1. UNCHANGED PhaseBar
      BY <2>2, <2>3 DEF PhaseBar, Over
    <3>2. QED BY <2>1, <3>1 DEF Promise!vars, Promise!request, Promise!money
  <2>4. CASE stage' = "panicked"
    <3>1. PhaseBar' = "panicked"
      BY <2>4 DEF PhaseBar
    <3>2. /\ Promise!Readable /\ closes
          /\ ~ (Promise!Barred \subseteq JailedBar)
      BY <1>4, <2>2, <2>4, PanicShows
    <3>3. Promise!Panic
      BY <2>1, <2>2, <3>1, <3>2 DEF Promise!Panic, Promise!request, Promise!money
    <3>4. QED BY <3>3, Zenon DEF Promise!Next
  <2>5. CASE stage' = "exited"
    <3>1. PhaseBar' = "exited"
      BY <2>5 DEF PhaseBar
    <3>2. RejectAllowList
      BY <1>4, <2>5, Endings
    <3>3. zero /\ allowed \cap Malformed # {}
      BY <3>2 DEF RejectAllowList, ExportInv, FreshInv, CourseInv
    <3>4. Promise!Exit
      BY <2>1, <2>2, <3>1, <3>3 DEF Promise!Exit, Promise!Readable, Promise!request, Promise!money
    <3>5. QED BY <3>4, Zenon DEF Promise!Next
  <2>6. QED BY <1>4, <2>3, <2>4, <2>5 DEF Over
<1>5. QED BY <1>2, <1>3, <1>4

(* ImplementsExport for any validators, delegations, amounts and allow     *)
(* lists: an export is one payment of all that the bank pays, in whole     *)
(* coins, and one jailing of whoever is barred, whatever its loops delete  *)
(* and build up, whichever withdrawal fails, whether or not the iterator   *)
(* over the validators closes, and whatever order the iterators have.      *)
THEOREM ExportRefinement == Spec => ImplementsExport
BY PromiseInit, PromiseStep, ExportInvariant, PTL DEF Spec, ImplementsExport, Promise!Spec
===========================================================================
