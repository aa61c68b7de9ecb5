-------------------------- MODULE UpgradeHandler --------------------------
(***************************************************************************)
(* The data side of the v1 -> v2 upgrade: which stores a binary mounts,    *)
(* what the store loader that app.go installs does to them at start, what  *)
(* the begin blocker of x/upgrade decides, and what the v2 handler does    *)
(* to the application state.  Everything here is a pure operator on one    *)
(* application state; UpgradeChain runs these operators on every node.     *)
(*                                                                         *)
(* Source: app/app.go (store keys, setupUpgradeStoreLoaders,               *)
(* setupUpgradeHandlers) and app/upgrades/v2/upgrades.go.  x/upgrade, the  *)
(* multistore and the v1 binary are not in the repository: the definitions *)
(* that stand for them say so.                                             *)
(*                                                                         *)
(* An application state keeps what the upgrade can tell apart:             *)
(*   height     the last height applied                                    *)
(*   stores     the store keys the state has data for                      *)
(*   vm         the module version map: "v1" or "v2" versions              *)
(*   plan       the pending upgrade plan, or NoPlan                        *)
(*   done       the height at which "v2" was applied, 0 if it never was    *)
(*   localhost  how often 09-localhost is in the IBC client AllowedClients *)
(*   cparams    where consensus parameters can be read: "legacy" is the    *)
(*              baseapp params subspace, "keeper" what the v2 binary reads *)
(*                                                                         *)
(* A definition named X_Something right before X is X with a plausible     *)
(* mistake in it.  Nothing uses it: the README names the property that     *)
(* fails when it stands in for X.                                          *)
(***************************************************************************)
EXTENDS Naturals

CONSTANT
  MigrationsFail   \* TRUE: some module migration of v2 returns an error

ASSUME MigrationsFailAssumption == MigrationsFail \in BOOLEAN

Binaries == {"v1", "v2"}
UpgradeName == "v2"

(* A plan a governance proposal schedules.  The height 0 is never due.     *)
NoPlan == [name |-> "none", height |-> 0]

---------------------------------------------------------------------------
(* Stores                                                                  *)

StoreKeys ==
  {"acc", "authz", "bank", "staking", "crisis", "mint", "distribution",
   "slashing", "gov", "params", "consensus", "upgrade", "feegrant",
   "evidence", "capability", "wasm", "ibc", "transfer", "feeibc"}

(* The stores of the v1 binary (external: the repository holds v2 only).   *)
V1StoreKeys ==
  {"acc", "authz", "bank", "staking", "mint", "distribution", "slashing",
   "gov", "params", "upgrade", "feegrant", "evidence", "capability", "wasm",
   "ibc", "transfer"}

StoreUpgrades_MissingFee == {"crisis", "consensus"}
StoreUpgrades == {"crisis", "consensus", "feeibc"}

Mounted(b) == IF b = "v2" THEN StoreKeys ELSE V1StoreKeys

(* setupUpgradeStoreLoaders: the stores the loader will add.  The plan on  *)
(* disk is consulted for its height only; a skipped height installs no     *)
(* loader, and a loader whose height is not the next one adds nothing.     *)
AddedAtBoot_AnyHeight(b, s, info, skip) ==
  IF b = "v2" /\ s.stores = V1StoreKeys THEN StoreUpgrades ELSE {}
AddedAtBoot_SkipIgnored(b, s, info, skip) ==
  IF b = "v2" /\ info.height = s.height + 1 THEN StoreUpgrades ELSE {}
AddedAtBoot(b, s, info, skip) ==
  IF b = "v2" /\ info.height \notin skip /\ info.height = s.height + 1
  THEN StoreUpgrades ELSE {}

(* LoadLatestVersion (multistore, external): a mounted store must already  *)
(* be at the root's version unless it is being added, and a store that is  *)
(* being added must not exist.                                             *)
CanLoad(b, s, info, skip) ==
  LET added == AddedAtBoot(b, s, info, skip)
  IN /\ Mounted(b) \ added \subseteq s.stores
     /\ added \cap s.stores = {}

Loaded(b, s, info, skip) ==
  [s EXCEPT !.stores = @ \cup AddedAtBoot(b, s, info, skip)]

---------------------------------------------------------------------------
(* The v2 handler                                                          *)

(* initParamsKeeper, and the subspace CreateV2UpgradeHandler adds to it.   *)
Subspaces ==
  {"auth", "bank", "staking", "mint", "distribution", "slashing", "gov",
   "crisis", "wasm", "transfer", "ibc", "baseapp"}

(* Key tables that are there when the handler starts: the IBC keepers set  *)
(* their own, CreateV2UpgradeHandler sets baseapp's.                       *)
KeyTablesAtBoot == {"ibc", "transfer", "baseapp"}

(* The cases of the switch on the subspace name.                           *)
KeyTableCases ==
  {"auth", "bank", "staking", "mint", "distribution", "slashing", "gov",
   "crisis", "transfer", "wasm"}

(* Subspaces the handler calls WithKeyTable on; one that no case names     *)
(* passes the zero key table, which panics.                                *)
WithKeyTable == Subspaces \ KeyTablesAtBoot
KeyTablesPanic == \E name \in WithKeyTable : name \notin KeyTableCases

(* Modules whose migration reads its parameters from a legacy subspace     *)
(* (external): without a key table the read panics.                        *)
LegacyParams ==
  {"auth", "bank", "staking", "mint", "distribution", "slashing", "gov",
   "crisis", "transfer", "wasm"}

(* baseapp.MigrateParams writes nothing when the legacy subspace has none. *)
MigrateParams(s) ==
  [s EXCEPT !.cparams =
     IF "legacy" \in s.cparams THEN @ \cup {"keeper"} ELSE @]

AddLocalhostIBCClient(s) == [s EXCEPT !.localhost = @ + 1]

(* RunMigrations needs every store of the new modules to be mounted: their *)
(* InitGenesis writes to them.                                             *)
RunMigrationsFails(s) ==
  \/ MigrationsFail
  \/ ~ (LegacyParams \subseteq KeyTablesAtBoot \cup WithKeyTable)
  \/ ~ (StoreKeys \subseteq s.stores)

(* An error stops it before the new version map is returned.               *)
RunMigrations(s) ==
  IF RunMigrationsFails(s) THEN s ELSE [s EXCEPT !.vm = "v2"]

HandlerFails(s) == KeyTablesPanic \/ RunMigrationsFails(s)
V2Handler_NoLocalhost(s) == RunMigrations(MigrateParams(s))
V2Handler(s) == RunMigrations(AddLocalhostIBCClient(MigrateParams(s)))

---------------------------------------------------------------------------
(* x/upgrade (external, SDK 0.47): its begin blocker and its messages.     *)

(* setupUpgradeHandlers registers one handler in the v2 binary.            *)
HasHandler_AnyName(b, name) == b = "v2"
HasHandler(b, name) == b = "v2" /\ name = UpgradeName

ShouldExecute(s, h) == s.plan # NoPlan /\ s.plan.height <= h

(* The binary must know the last applied upgrade, unless an upgrade is     *)
(* about to replace it.  The code looks once after a start; a running      *)
(* process keeps its handlers, so looking at every block is the same.      *)
WrongVersion_NoCheck(b, s, h, skip) == FALSE
WrongVersion(b, s, h, skip) ==
  /\ s.done # 0
  /\ ~HasHandler(b, UpgradeName)
  /\ ~ShouldExecute(s, h) \/ h \in skip

UpdatedBeforeTrigger(b, s, h) ==
  /\ s.plan # NoPlan
  /\ ~ShouldExecute(s, h)
  /\ HasHandler(b, s.plan.name)

(* The plan is due and nothing tells the node to skip it.                  *)
MustUpgrade(s, h, skip) == ShouldExecute(s, h) /\ h \notin skip

(* "UPGRADE NEEDED": the node writes upgrade-info.json and panics.         *)
UpgradeNeeded(b, s, h, skip) ==
  MustUpgrade(s, h, skip) /\ ~HasHandler(b, s.plan.name)

BeginBlockPanics(b, s, h, skip) ==
  \/ WrongVersion(b, s, h, skip)
  \/ UpdatedBeforeTrigger(b, s, h)
  \/ UpgradeNeeded(b, s, h, skip)
  \/ MustUpgrade(s, h, skip) /\ HandlerFails(s)

ApplyUpgrade(s, h) ==
  [V2Handler(s) EXCEPT !.plan = NoPlan, !.done = h]

UpgradeBeginBlock_PlanKept(s, h, skip) ==
  IF MustUpgrade(s, h, skip) THEN ApplyUpgrade(s, h) ELSE s
UpgradeBeginBlock(s, h, skip) ==
  IF MustUpgrade(s, h, skip) THEN ApplyUpgrade(s, h)
  ELSE IF ShouldExecute(s, h) THEN [s EXCEPT !.plan = NoPlan]
  ELSE s

(* A transaction of a block is what governance executes in it: schedule a  *)
(* plan, cancel the pending one, or nothing.                               *)
ScheduleUpgrade(s, plan, h) ==
  IF plan.height < h \/ (plan.name = UpgradeName /\ s.done # 0)
  THEN s ELSE [s EXCEPT !.plan = plan]

CancelUpgrade_NameKept(s) == [s EXCEPT !.plan.height = 0]
CancelUpgrade(s) == [s EXCEPT !.plan = NoPlan]

EndBlock(s, tx, h) ==
  CASE tx.kind = "schedule" -> ScheduleUpgrade(s, tx.plan, h)
    [] tx.kind = "cancel"   -> CancelUpgrade(s)
    [] OTHER                -> s

===========================================================================
