# Neutaro: specification and verification

TLA+ modules for the parts of this repository where order, failure and time
decide: the v2 chain upgrade, the construction of the application, the module
orders of genesis and blocks, the admission of transactions, the export of a new
genesis, and the container that runs a full node. TLC checks them on small
instances; TLAPS proves every safety property the passing runs check, and the three
refinements of abstract specifications, for every instance.

## 1. The system

Neutaro is a Cosmos SDK chain (SDK 0.47.15, CometBFT 0.37, ibc-go v7, wasmd
0.45). The repository holds what is Neutaro's own: the application that wires
the SDK modules together, its one chain upgrade, its export, its command, and
what operators run around it. Most algorithms live in libraries that are not in
the repository; they are modelled only as far as the repository's code relies
on them, and every such definition is marked external.

| Part | Source | State it keeps | Operations | Modelled in |
|---|---|---|---|---|
| v2 upgrade | `app/upgrades/v2/upgrades.go`, `app/app.go` 825-857 | multistore, module versions, pending plan, IBC client params, consensus params, `upgrade-info.json`, skip heights | store loader at start, begin blocker, handler, commit | `UpgradeHandler`, `UpgradeChain` |
| process and application | `cmd/Neutaro/main.go`, `cmd/Neutaro/cmd/root.go`, `app/app.go` 250-673 | configuration, keepers, routers, module manager, BaseApp | `main`, `NewRootCmd`, `newApp`, `appExport`, `New` | `AppWiring`, `Application` |
| export | `app/export.go` | a scratch context on the last state | `ExportAppStateAndValidators`, `prepForZeroHeightGenesis` | `ZeroHeightExport` |
| node container | `docker/entrypoint.sh`, `docker-compose.yml` | volume: config, genesis, data; shell variables | first boot, priming of state sync, start, restart | `Entrypoint` |
| block processing | `app/app.go` 512-605, 711-729 | the modules' coins, books, capabilities, validator keys | genesis, begin block, transactions, end block | `BlockFlow`, `Application`; x/upgrade in `UpgradeChain` |
| module accounts | `app/app.go` 168-179, 878-926 | tables | permissions, blocked addresses | `BlockFlow` |
| transaction admission | `app/ante.go`, `app/app.go` 675-706, `root.go` 88-121 | sequences, keys, balances, allowances, received packets, counter; check state and mempool of a node | check, recheck, deliver, simulate | `Decorators`, `AnteHandler`, `Admission` |
| IBC stacks | `app/app.go` 437-473 | - | middleware order | who calls whom in `AppWiring`, packets and the books in `BlockFlow` |
| operator guides | `statesync.md`, `Instructions/` | - | cosmovisor, state sync, unjail | operators' actions of `UpgradeChain` |
| command, encoding, parameters | `cmd/`, `app/encoding.go`, `app/params` | sealed configuration | set up of a process, start, export | the order in `AppWiring`; registration of commands and codecs not modelled |
| interchain tests, build, scripts, API docs | `interchaintest/`, `Makefile`, `scripts/`, `docs/` | - | - | not modelled (the upgrade test is the source of the operators' procedure) |

How the parts interact. `Neutaro start` calls `newApp`, which calls `New`. `New`
reads `upgrade-info.json`, may install a store loader, registers the v2 handler
and loads the last state. From then on CometBFT calls `BeginBlocker`, delivers
transactions, calls `EndBlocker` and commits; x/upgrade is first in the begin
block and may panic on purpose, which ends the process. A supervisor (systemd
with cosmovisor, or docker's restart policy) starts it again, perhaps with
another binary. `Neutaro export` calls `New` too and then walks over the stores
of x/distribution, x/staking and x/slashing without ever committing. Within a
block the module manager calls the modules in the three orders of `New`, and they
pay each other through x/bank under the permissions and blocked addresses of
`app.go`. A transaction meets the ante handler several times: on the check state
when it is sent and after every block, and on the chain's state when a block has
it. The
container script prepares the home directory these commands read.

What is hard here:

* **Crashes and restarts.** The new stores exist in memory from the start of the
  v2 binary and on disk from the commit of the upgrade block. The container's
  first boot is a dozen commands, any of which may be the last.
* **Stale state.** `upgrade-info.json` survives restarts, reinstalls and a state
  sync, and is compared by height alone. `data/state.db` is taken for state.
* **Nodes that differ.** Operators install binaries early, late or never, and
  skip heights; nodes must still agree or stop.
* **Partial failure.** The v2 handler writes before its migrations may fail. The
  export drops the errors of its withdrawals, of which a commission may fail after the
  books were written, and gives up half way, silently, when an iterator does not close.
* **Order.** `New` hands keepers over by value, by pointer and by reference in
  one long sequence. The export deletes what others still refer to and builds it
  again, at a context height that changes twice. Modules find each other's coins
  and keys, or do not, by their place in three lists of twenty-two.
* **Two states.** A node admits transactions on a check state with its own minimum
  price, and blocks are executed on another state, by all nodes alike.
* **Concurrency.** Nodes admit, propose, execute and crash independently; relayers
  send the same packets.

## 2. Modules

| Module | What it is |
|---|---|
| `UpgradeHandler` | pure operators on one application state: stores, key tables, store loader, x/upgrade's decisions, the v2 handler |
| `UpgradeChain` | a network of nodes running them: processes, databases, CometBFT, operators. Extends `UpgradeHandler` |
| `AbstractUpgrade` | what the upgrade promises: ledgers that change era in one step |
| `MC_UpgradeChain` | small instances |
| `UpgradeChainProofs` | TLAPS: types, atomicity, binaries, plans; `UpgradeChain` implements `AbstractUpgrade`; agreement, and that the upgrade was due |
| `Entrypoint`, `MC_Entrypoint` | the container, command by command |
| `EntrypointProofs` | TLAPS: types, anchors, auto mode |
| `AppWiring` | the statements of `main`, the root command and `New`, and the calls made through what they built |
| `BlockFlow` | coins, books, capabilities and keys through genesis, begin block, transactions and end block |
| `Application`, `MC_Application` | composes the two: processes that build the application and then execute blocks or export |
| `BlockFlowProofs` | TLAPS: types, books, permissions, fees before slashing, genesis |
| `ApplicationProofs` | TLAPS: the construction never panics and wires every call but those of contracts into IBC; what holds of the chain holds of processes that come and go |
| `Decorators` | the decorators of the ante handler, each as refusal and effect |
| `AnteHandler` | their chain, and BaseApp's use of it |
| `Admission`, `MC_Admission` | nodes with check states and mempools, proposers, blocks, crashes |
| `AbstractLedger` | what the admission promises: ledgers that execute a decided block in one step |
| `DecoratorsProofs` | TLAPS: what each decorator asks for and what it writes, exactly |
| `AdmissionProofs` | TLAPS: types, transactions pass once and pay for what they do, positions in a block, nodes agree, what waits in a mempool, simulations; `Admission` implements `AbstractLedger` |
| `ZeroHeightExport`, `MC_ZeroHeightExport` | the export, one loop iteration per step |
| `AbstractExport` | what the export promises: one payment and one jailing |
| `ZeroHeightExportProofs` | TLAPS: types, the validator set, old heights and periods, the money, the reference counts, panics; `ZeroHeightExport` implements `AbstractExport` |
| `FoldTheorems` | TLAPS: induction over numbers and finite sets, sums, folds along a sequence |

A definition named `X_Something`, right before `X`, is `X` with a plausible
mistake. Nothing uses it: it documents which property fails when that mistake is
made (section 6).

### UpgradeHandler and UpgradeChain

| Code | Model |
|---|---|
| `storeKeys`, `MountKVStores` | `StoreKeys`, `Mounted(binary)`; a v1 binary mounts `V1StoreKeys` |
| `setupUpgradeStoreLoaders` with `UpgradeStoreLoader` | `AddedAtBoot`: the stores added at start |
| `LoadLatestVersion` | `CanLoad`, `Loaded`; `Boot` is not possible when it fails and the supervisor tries again |
| `CreateV2UpgradeHandler`, `addLocalhostIBCClient` | `V2Handler`, its failures `HandlerFails` (a panic over key tables, an error of `RunMigrations`) |
| x/upgrade `BeginBlocker` | `BeginBlockPanics`, `UpgradeBeginBlock`; action `BeginBlock` or `BeginBlockPanic` |
| rest of the block and `Commit` | action `Commit`; governance acts in `EndBlock` |
| `upgrade-info.json` | `info[n]`, written by `UpgradeNeeded` only |
| `--unsafe-skip-upgrades` | `skip[n]` |
| `UpgradeNodes` of the upgrade test, cosmovisor, docker image rebuilds | `InstallUpgrade` after a halt, `RevertBinary`, `SkipUnknown` |
| operators who err | `InstallAnyTime`, `SkipKnown` |

`disk[n]` is the committed state, `work[n]` the state in memory. A crash or a
panic throws `work[n]` away. A block is decided by a quorum that stands at the
previous height with one state; a node with another application hash never
executes it, which is how a chain with diverged nodes behaves. An application
state is a record of what the upgrade can tell apart: a module's data is present
or not, module versions are old or new, and `localhost` counts how often
`09-localhost` was appended.

`AbstractUpgrade` has none of this: every node has a ledger (height, era, pending
plan), a block turns a ledger into the next in one step, and the era changes in
the block the v2 plan is due in or not at all. The mapping, at the end of
`UpgradeChain`, reads a ledger off a database; a database that is neither wholly
old nor wholly new would be of the era `torn`, which no abstract step reaches.
`Decide`, `Commit` and `StateSync` are the abstract `Decide`, `Execute` and
`Adopt`; all other actions stutter.

### Entrypoint

One action per command of `entrypoint.sh` that changes the volume or a variable,
in the script's order; `pc` is the next command. The `set -e` exits and `FATAL`
branches are the `Exit` outcomes. `Neutaro init` is two steps, since it writes
the configuration before the genesis. `StartContainer` is the restart policy: a
recreated container may have another `STATESYNC`. Height and hash are numbers,
and the hash of a block is its height, so that an anchor mixed from two runs is
visible.

### AppWiring

`Order` lists the statements of `main`, `NewRootCmd` and `New` that build or change
something, up to the loading of a state, which `Statements(command)` appends: `start`
and `export` load the last one inside `New`, an export at a height loads it after.
`Copies`, `Pointers` and `References` say how each statement takes its arguments: a
struct by value (a copy of whatever is there), a pointer or a field of one (a panic
when it is nil), an address that is used later. Keepers built with an address in
text copy the prefix that holds at that time. `ClosedBy` says what must not have
happened yet: the configuration or the capability keeper sealed, the IBC router
set, BaseApp loaded. Calls of the run time are sets of links; a call fails when one
link goes through a copy taken too early. The module has no parameters, so that TLC
sees all of one process; that a chain may have any number of them, one after the
other and ended anywhere, is in `Application` and in `ApplicationProofs`.

### BlockFlow and Application

| Code | Model |
|---|---|
| `maccPerms`, `GetMaccPerms`, `ModuleAccountAddrs` | `maccPerms`, `May`, `ModuleAccounts` |
| `BlockedAddresses` | `BlockedAddresses`, asked by `Send` and `ReceivePacket` |
| `SetOrderBeginBlockers`, `SetOrderEndBlockers`, `SetOrderInitGenesis` | sequences of the same names; `pos` is the module whose turn it is |
| `InitChainer`, `BeginBlocker`, `EndBlocker` | `phase`; one action per module that has something to do, `Idle` for the others |
| `RegisterInvariants` | `Balanced`, asserted by `GenesisCrisis` unless `skipGenesisInvariants`, and by `EndCrisis` in the blocks `invCheckPeriod` names, by default none: each node's choice |
| `Neutaro export`, and a chain started from it | `Export`, then `genesis` again |

The modules are external: each is the coins it moves, what it finds of the others
at its turn, and what it panics on. `bal` is x/bank, `books` what x/staking,
x/distribution and x/gov believe they hold; `caps` the memory store of x/capability,
lost by every restart; `keys` whether x/slashing knows the validators' keys.
`Application` lets a process execute blocks, export or end only once `AppWiring`
has built it, and builds it again for every process.

### Decorators, AnteHandler and Admission

| Code | Model |
|---|---|
| `anteDecorators` of `NewAnteHandler` | `anteDecorators`; `ChainAnteDecorators` is `Ante`, one `Decorate` after the other |
| each decorator | its disjunct of `Refuses`, its case of `Effect` |
| options set in `setAnteHandler` | no fee checker: `MinFee` is the node's price, in checks only; fee grants are on |
| empty post handler | `DeliverTx` ends with the messages |
| `newApp` | `Restart`: check state and mempool are gone, the block is executed from its start |

Four decorators that look at nothing but the transaction are left out of the list:
the transactions of the model are those they let pass. `log`, a history variable in
the state, has the transactions that passed in blocks. CometBFT is external: the
mempool drops what a block has and rechecks the rest in its order, and a block is
the head of some node's mempool or whatever another proposer offers, since the
application does not look at proposals.

`AbstractLedger` has no decorators, check states, mempools, prices and restarts:
every node has a ledger, and a decided block turns it into the next one in one step,
each transaction by what it is and by the ledger alone. The mapping, at the end of
`Admission`, reads a ledger off the committed state of a node. `Commit` is the
abstract `Execute`, `Propose` and `ProposeOther` are `Decide`; all other actions
stutter, so that whatever happened in a block before its commit must come out as the
block's transactions do one after the other.

### ZeroHeightExport

Every loop is a stage with a set of items still to visit, in any order;
`EndLoop` goes to the next stage. x/distribution is a record of outstanding
rewards, commission, what each delegation is due, community pool, module
balance, periods and reference counts, in fractions of a coin, so that
truncation and its remainders are real. x/staking is power, status, jailed flag,
unbonding height and the power index. `InitDist` and `InitStaking` are states a
chain can be in after a block: delegations made one after the other, a slash
after them, the validator set elected from the index. `Chains` is the family of
states and arguments an instance starts from.

The errors of the code are in it. `Refused` and `Unpayable` are the delegators and
the operators whose withdraw address the bank refuses. x/distribution does not let
anybody set a blocked address, so these were set before a binary blocked them, or
came in a genesis. A withdrawal of rewards then fails after the period was
incremented; one of a commission after commission and outstanding rewards were
lowered, and nobody undoes that: the coins are in the module's balance and in
nobody's books, which `dist.lost` counts. `closes` is whether the database closes
the iterator of the jailing loop without an error; when it does not, `CloseFails`
skips the election and the signing infos and goes on to the genesis. `Strangers` are
entries of an allow list that name no validator (a list of nothing else jails
everybody), `Malformed` those that are no address: `RejectAllowList` is the
`log.Fatal` they end in.

`BeginsAnew` compares what is exported with `InitDist`: periods, starting infos and
reference counts are those of a chain whose delegations were made one after the
other and earned nothing. `AbstractExport` has no loops: an export pays everybody
what is his in whole coins, gives the community pool the rest but for the
commissions the bank refuses (`refused`), and jails whoever the list bars, in one
step; or it panics, when somebody is barred who was not jailed, or exits, over a
list it cannot read. The mapping, at the end of `ZeroHeightExport`, has on the way what the module held at
the beginning (its balance and what it has paid since) and what could be paid then
(what it has paid and what withdrawals would still pay), and `refused` is what
refusals have lost or would lose. `ExportGenesis` is the abstract `Export`, a step to
`panicked` the abstract `Panic`, `RejectAllowList` the abstract `Exit`; all else
stutters.

## 3. Runs

| Run | Instance | Result |
|---|---|---|
| `upgrade_safety` | 3 nodes, two of which are a quorum; v2 planned for block 2 or 3, replaced or cancelled; 3 blocks, 1 crash, 2 mistakes | `TypeOK`, `UpgradeAtomic`, `Agreement`, `BinaryMatchesState` hold |
| `upgrade_plans` | 2 nodes, both needed; plans of two names; 4 blocks, 1 crash, 2 mistakes, 1 state sync | `UpgradeWasDue`, `NoDuePlanOutlivesItsBlock`, `ImplementsAbstractUpgrade` hold |
| `upgrade_live` | 3 nodes, both names; 3 blocks, 1 crash, 1 mistake, fairness | `ChainPassesUpgrade` holds |
| `container_safety` | all modes, all downloads, 2 crashes anywhere, tip up to 5 | `TypeOK`, `AnchorIsOfThisRun`, `AutoKeepsState` hold |
| `container_live` | auto mode, 3 crashes while priming, fairness | `EventuallySynced` holds |
| `container_genesis` | a download with another checksum, no crash | `RunsOnVerifiedGenesis` is violated |
| `container_resume` | one crash after the start | `RestartsResume` is violated |
| `application` | `start`, `export` and `export` at a height; a genesis of gentxs and one taken over; 6 coins, 2 transactions in a block; restarts and exports without bound | the three properties of `AppWiring` and `ChainTypeOK`, `NothingIsMissing`, `BooksBalance`, `PermissionsSuffice`, `NothingLeftOver` hold |
| `wiring_contracts` | `AppWiring` alone, all three commands | `ContractsReachIBC` is violated |
| `admission` | 2 nodes, one with a minimum price; 2 signers, six transactions (first, second, forged, granted with a packet, the same packet again, cheap with a timeout); mempools and offered blocks of 2, 1 block of another proposer, 1 restart | its nine invariants and `ImplementsLedger` hold |
| `export` | two families of chains: 2 validators with 2 delegators, half coins, a delegator and an operator the bank refuses, and slashes; 3 validators on 2 seats, powers 0 to 2 with ties, every jailing and allow list, lists with a stranger or no address, an iterator that closes or not | `TypeOK`, `Solvent`, `ReferencesHold`, `FreshStart`, `BeginsAnew`, `PanicsOnlyOverAllowList`, `ValidatorSetKept`, `ImplementsExport` hold |
| `export_allowlist` | the second family | `AllowListExports` is violated |

Why the bounds are enough. The upgrade is decided by three heights: the block
that schedules, the block that is due, the block after it; four blocks add a
plan in front or behind. One crash can strike in each phase of each node, and a
panic, which is unbounded, is a crash too. Two mistakes let two nodes skip, one
with each binary, which is what makes the store loader and the skip heights
disagree if they can. Nodes n1 and n2 are interchangeable, and the safety runs
use that symmetry. For the container, a tip of 5 over a trust lag of 2 gives two
different anchors that both exist, one that does not, and one at the genesis. In
the export, amounts of 0, 1 and 3 half coins are nothing, less than a coin, and a
coin and a remainder; three validators on two seats have one without a seat. In
`application`, two transactions in a block let one spoil what another needs (the
fee takes the last coin), six coins let every pool hold something while another is
empty, and exports repeat, so that the genesis order meets every state that bound
allows. In `admission`, the bound of two lets a mempool hold a transaction and one
that depends on it, a block repeat a transaction, and a node be behind by a block;
the second node with another price is what a difference between nodes needs. The
numbers of transactions are bounded by their sequence numbers alone.

The runs have migrations that succeed; that a failing one leaves nothing behind
is part of the theorem `SpecUpgradeAtomic`, whose `MigrationsFail` is either.

`CHECK_DEADLOCK FALSE` stands in every configuration: the upgrade runs stop at
`MaxHeight`, the container stays in a running node once the chain is at `MaxTip`,
the export ends, an application whose process panicked or whose genesis was refused
stands, and in `admission` the transactions are used up.

### Fairness

* `upgrade_live`: weak fairness of `Boot` (docker's `restart: unless-stopped`,
  systemd's `Restart=on-failure`), of executing blocks, and of deciding them
  while a quorum runs (CometBFT). Strong fairness of the operators' procedure: a
  node whose supervisor restarts it over and over is down only from time to time.
  No fairness of crashes or mistakes, and none that a plan is scheduled.
* `container_live`: weak fairness of the script and of the chain's growth, and
  strong fairness of an endpoint's answer: it may fail any number of times, but
  not forever.

## 4. Findings

1. **A refused genesis is used after the restart** (`container_genesis`).
   `Instructions/NeutaroDocker.md` says the entrypoint verifies the checksum and
   refuses to start on a mismatch. It does so once: `config.toml`, written before
   the check, makes the next boot skip it, and the restart policy provides that
   boot.
2. **A restart may replay from genesis instead of resuming** (`container_resume`).
   `data/state.db` exists from the first start on. A node that dies before its
   snapshot is restored comes back with state sync off and nothing to resume.
   `EventuallySynced` therefore holds for crashes while priming only.
3. **Contracts cannot use IBC** (`wiring_contracts`). `New` builds the wasm keeper
   from the fee and transfer keepers before those are assigned; both are structs
   passed by value. The repair is to build them first, as the transfer keeper is.
4. **An allow list makes the export panic** (`export_allowlist`). The export jails
   with `SetValidator`, which leaves the power index alone.
   `PanicsOnlyOverAllowList` shows that none of the other calls modelled panics. A
   list with an entry that is no address does not come that far: `log.Fatal` ends the
   process before anything is done.

Two errors the export does not report, stated by the properties of run `export` and
without a run of their own. `app/export.go:77` drops the error of a commission
withdrawal, whose whole coins are then no reward any more and not among the scraps
that line 106 donates; `Solvent` and `ImplementsExport` say that nothing else is
lost, and only when the bank refuses an operator. x/distribution's `InitGenesis`
compares the balance and would refuse such an export. And `app/export.go:182-185`
logs an iterator that does not close and returns, so that an export "for fresh start
at zero height" (line 48) completes with the signing infos of the old chain and with
a barred validator still seated; `FreshStart` says that nothing else of the old chain
is left then.

Read on the way, without a run: the comment at `app/export.go:160` announces an
iteration by power and a counter that is used; the code iterates by address and
nothing reads the counter. `ConsensusParamsKeeper` is built on x/upgrade's store
key (`app/app.go:303`), so that the store `consensus` added by the upgrade stays
empty. `AccountKeeper` is given `sdk.Bech32MainPrefix` (`app/app.go:316`), which is
"cosmos" and not the chain's prefix; the keeper uses it for its Bech32 queries only.
A coin sent to x/gov, the one module account that is not blocked, is no deposit: its
invariant allows it, x/gov's genesis does not, so that an export of such a state is
refused (`NothingIsMissing` says that nothing else is). A transaction that times out
at the last committed height is still admitted, since a check has the height of the
last block, and fails in every block (`PoolIsReady` leaves it out).

## 5. Proofs

`UpgradeChainProofs` is about `UpgradeChain`, for every set of nodes, every family of
quorums, every set of proposals, skip heights and bounds, with failing migrations
or without; one module about `Entrypoint`, for every lag, bound, set of modes, of
downloads and of points at which a crash may strike; one about `BlockFlow` and one
about `Application`, for every genesis file that agrees with its books and every
bound; two about `Admission`, for all nodes, prices, accounts, transactions, packets and blocks of
other proposers; one about `ZeroHeightExport`, for all validators, delegations,
voting powers, rewards and allow lists, whomever the bank refuses; `FoldTheorems` has the lemmas about sums
and folds that those of admission and export need:

| Theorem | Statement |
|---|---|
| `SpecTypeOK` | `Spec => []TypeOK` |
| `UpgradeInvariant` | `Spec => []UpgradeInv`, the inductive invariant |
| `SpecUpgradeAtomic` | `Spec => []UpgradeAtomic` |
| `SpecBinaryMatchesState` | `Spec => BinaryMatchesState` |
| `SpecNoDuePlanOutlivesItsBlock` | `Spec => []NoDuePlanOutlivesItsBlock` |
| `UpgradeRefinement` | `Spec => ImplementsAbstractUpgrade` |
| `HistoryInvariant` | `Spec => []HistoryInv`: every database is one of the two results of its block |
| `SpecAgreement` | `Spec => []Agreement` |
| `SpecUpgradeWasDue` | `Spec => []UpgradeWasDue` |
| `EntrypointTypeOK` | `Spec => []TypeOK` of `Entrypoint` |
| `EntrypointAnchor` | `Spec => []AnchorIsOfThisRun` |
| `EntrypointAutoKeepsState` | `Spec => AutoKeepsState` |
| `FlowTypes` | `ChainSpec => []ChainTypeOK` |
| `BooksAlwaysBalance` | `ChainSpec => []BooksBalance` |
| `NoPermissionMissing` | `ChainSpec => []PermissionsSuffice` |
| `FeesBeforeSlashing` | `ChainSpec => NothingLeftOver` |
| `GenesisCompletes` | `ChainSpec => []NothingIsMissing` |
| `ApplicationsAreLoaded` | `AppSpec => []TypeOK` of `AppWiring` |
| `ConstructionNeverPanics` | `AppSpec => []NewNeverPanics` |
| `CallsAreWired` | `AppSpec => []CallsFindTheirKeepers` |
| `ContractsNeverReachIBC` | in every running application, no IBC call of a contract works (finding 3) |
| `ApplicationKeepsTheChain` | the invariants of `BlockFlow` and `NothingLeftOver` for `AppSpec` |
| `TransactionsPassOnce` | `Spec => []ExactlyOnce` of `Admission` |
| `CountedFromZero` | `Spec => []PositionsInBlock` of `Admission` |
| `OneChain` | `Spec => []NodesAgree` of `Admission` |
| `AdmissionTypes` | `Spec => []TypeOK` of `Admission` |
| `NobodyPaysForNothing` | `Spec => []OnlyExecutedArePaid` of `Admission` |
| `OffersAreReady` | `Spec => []PoolIsReady` of `Admission` |
| `NoRaces` | `Spec => []RelayersDoNotRace` of `Admission` |
| `NobodyLockedOut` | `Spec => []NobodyIsLockedOut` of `Admission` |
| `SimulationsLimited` | `Spec => []SimulationsAreLimited` of `Admission` |
| `LedgerRefinement` | `Spec => ImplementsLedger` of `Admission` |
| `NobodyElectedByExport` | `Spec => ValidatorSetKept` of `ZeroHeightExport` |
| `NothingOfTheOldChain` | `Spec => []FreshStart` of `ZeroHeightExport` |
| `ExportTypes` | `Spec => []TypeOK` of `ZeroHeightExport` |
| `ExportIsSolvent` | `Spec => []Solvent` |
| `ReferencesAreRebuilt` | `Spec => []ReferencesHold` |
| `OnlyAllowListsPanic` | `Spec => []PanicsOnlyOverAllowList` |
| `ExportBeginsAnew` | `Spec => []BeginsAnew` |
| `ExportRefinement` | `Spec => ImplementsExport` |

The assumptions are those of the modules: `MigrationsFail` is a Boolean, `Txs`
are schedule, cancel or nothing, `SkipHeights` are heights, `Downloads` are
outcomes the script can meet, the bounds and the lag are numbers; delegators are a
finite set of numbers, as a store has finitely many and in an order. That quorums
intersect is assumed too but no proof needs it: the decided blocks are one
sequence in the model, which is CometBFT's promise and not this code's.

`UpgradeAtomic` speaks of the database only and is not inductive: a commit
writes what is in memory. `UpgradeInv` adds what each process state guarantees,
per node:

* `Committed`: the database is wholly old, or wholly new with no further v2 plan;
* `InfoOK`: `upgrade-info.json` never speaks of a height beyond the next, and if
  it speaks of the next, the database has a plan due there. This is why comparing
  the height alone is harmless: a v2 binary that adds stores stands before a due
  plan, which it applies, halts for, or was told to skip - and then it adds none;
* `WorkDown`, `WorkIdle`: memory is the database, or the database with the new
  stores right before a due plan that is not skipped;
* `WorkOpen`: within a block, memory is wholly old under a v1 binary or wholly new
  under v2.

The proof follows the actions: lemmas say what the operators of `UpgradeHandler`
do to old and new states, one lemma per action says that it keeps `NodeInv`, and
the temporal theorems combine them. `SpecTypeOK` needs that a block being executed
was decided, `SpecNoDuePlanOutlivesItsBlock` that a plan is removed or changed
only within blocks.

The refinement needs `OpenInv` on top: within a block, the block was decided for
this database, and memory is what `AbstractUpgrade` lets a block start with. Then
a commit is one abstract step, whatever happened since the block began.

Agreement needs no talk of pairs of nodes. `HistoryInv` says that a database at
height h is one of two results of block h, both functions of the decided block
alone, and that the height of the applied upgrade tells them apart, because the
state the block went on top of applied it earlier or never. Two nodes at one
height with the same answer hold the same result. `DeservedInv` carries the fact
that v2 was due from the block that applied it to every later state.

`EntrypointInv` says, for each point of the script, what this run has fetched and
written by then, and that auto mode primes only while there is no database.

`FlowInv` says that from the end of `InitChain` on every pool holds what its module
believes, whether or not x/crisis compares them: a genesis document balances, and
`Equipped` says what each module of the genesis order leaves, one after the other,
so that at its end the document's books and coins are there. After that each module
of a block moves coins and books together, and the blocked addresses keep everybody
else's coins out of the pools. The other theorems about `BlockFlow` rest on the
positions: `pos` past distribution means an empty fee collector, `pos` past a
genesis module means what that module leaves, and a genesis document is one that
starts from gentxs or an export, whose books balance.

The construction of the application is a matter of places: `Place` numbers the
statements, `StatementPlaces` says that each command has its own, each once and in
that order, and three lemmas compare places once and for all: a pointer's with that
of its user, a statement's with what closes its object, a copy's with what is copied
(`PointersBefore`, `ClosedLater`, `LinksBuilt`). `WiringInv` says that a process has
executed the beginning of its statements, and has copied as zero exactly what stands
later, so that the theorems only have to look a place up. A process ends and begins
as often as it likes, which leaves the chain alone: every step of `Application` is one
of `BlockFlow` or none, and what `BlockFlowProofs` says of the chain holds of the
processes that run it.

The ante handler is a chain of ten decorators; `DecoratorsProofs` says of each when
it refuses and what it writes, so that the lemma `AnteIsExact` follows a
transaction through: one that `Admits` names passes and leaves `After`, any other
is refused. In a block it is signed, has its signer's next number, moves it on and
is counted once. `LogInv` then relates each node's log to the sequences and the
counter of the state it belongs to, inside a block and between blocks, whatever the
proposers offer; `SettledInv` adds that every balance and every allowance is the
genesis less the sum of what the log has cost it.

The mempools rest on `PoolInv`: what waits at a node would pass one after the
other, from the committed state to the check state (`Queue`, a line of states with
a check between each and the next). A submission adds to the end of the line, a
restart empties it, and a recheck builds a line anew on the block's state: it
trusts the signatures, which the old line vouches for, and asks for everything
else. Along the line packets only come in (`NoRaces`), whoever has no part in it
keeps sequence, balance and allowance (`NobodyLockedOut`), and the same line,
walked in a block's mode, refuses nobody (`OffersAreReady`). `Queue` is why a type
invariant of this module needs more than types: a check state is one because
`CheckTx` takes no fee that is not there.

`NodesAgree` compares nodes that may be blocks apart, and a node has no memory of
the states it was in. `AgreeInv` therefore says that there is a story of the chain:
a state for each place (a height and a position in its block) that some node has
reached, each the result of the one before, with logs that only grow, such that
every node's committed state and open block are states of the story. A node that
comes to a new place continues the story; one that follows, or that executes a
block again after a crash, finds what the story says, since a transaction's
result does not depend on the node. That is the lemma `PriceDoesNotMatter`: in a
block `Admits` does not mention the price, and `After` never does.

The refinement of `AbstractLedger` goes from one transaction (`Admits` in a block is
the ledger's `Passes`, `After` and the messages its `Transacted`) to a block:
`BlockInv` says that the open state of a node is the ledger on its way through the
decided block, `OnItsWay`, so that the commit finds it at the end of the way. A
restart puts it back to the beginning.

For the export, `SeatsInv` says that the bonded validators are those the power
index elects. Resetting and jailing change neither powers nor the index, so the
election near the end, made in a context of an old height, writes no validator,
and no old unbonding height comes back. `FreshInv` says what each loop has left
behind by the time it has visited an item, and `Entering` that a stage is reached
only after the loops before it have visited everything.

`PeriodsInv` says that a validator's row of reference counts is, between the calls,
the tally of who refers to each period: delegations, slash events and the period
before the current one, with room left for every period that is still to end. While
the infos are rebuilt, only the delegations already visited count. `MoneyInv` says
that the module's balance is the community pool, all that is outstanding and what
refused commissions have lost, that
what is outstanding of a validator covers its commission and what its delegations
are due, and that nothing is left where the scraps have been given. Both are sums
that change in one or two places per call. `LossInv` adds that nothing is lost but
by the withdrawals of an export for height 0 whose operators the bank refuses, so
that the invariants x/crisis asserts at its beginning hold. `JailInv` says that a jailed validator in
the power index is one the allow list has left out; with the two others it leaves
the export one panic. `AnewInv` says that the delegations already set up again are
numbered by the periods of their validators, in whatever order they come: with the
tally, which is exact, that leaves no period but those.

The refinement of `AbstractExport` needs to know what is hidden from the outside.
`Settles` says that a step leaves what the module has paid and holds, what it has
paid and is still to pay, and what it has lost and is still to lose, as they were. The
keepers' calls keep all three by themselves,
except the one that deletes a validator's rewards: it does because of `PaidInv`, by
which the loops before have left nothing whole to be paid but to those the bank
refuses. `JailedInv` says who is jailed at which point of the loop, and that nobody
with a seat is once the election has taken place and not panicked. `ExportInv` puts all of them
together with `WayInv`, the order of the loops.

`FoldTheorems` gets its inductions from well-founded minima (`LeastNumber`,
`AllSubsets`), stated for sets instead of predicates, which the provers can
instantiate, and uses them for sums over finite sets and for folds along a
sequence: a fold passes one value after another (`LeftFoldPasses`). What an
operator handed to a fold does is proved where it is handed over.

These invariants were checked with TLC on the instances of the runs before they
were proved, `UpgradeInv` also on one whose migrations fail, and `AnteIsExact` for
every state a run of `admission` comes to; not `AgreeInv`, which asks for a function
over all places, and whose consequence `NodesAgree` is checked instead.

Only model-checked: the liveness properties `ChainPassesUpgrade` and
`EventuallySynced`, since fairness is out of the prover's reach.

## 6. Mistakes the properties catch

| Mistake | Property that fails |
|---|---|
| `AddedAtBoot_AnyHeight`: the loader adds stores at any height | `UpgradeAtomic` |
| `AddedAtBoot_SkipIgnored`: the loader does not look at skip heights | `Agreement` |
| `WrongVersion_NoCheck`: a binary does not look for the handler of the last upgrade | `BinaryMatchesState` |
| `CancelUpgrade_NameKept`: cancelling clears the height only | `TypeOK` |
| `HasHandler_AnyName`: the handler runs for a plan of any name | `UpgradeWasDue` |
| `UpgradeBeginBlock_PlanKept`: a skipped plan stays pending | `NoDuePlanOutlivesItsBlock` |
| `V2Handler_NoLocalhost`: the handler does not allow the localhost client | `ImplementsAbstractUpgrade` |
| `StoreUpgrades_MissingFee`: the fee store is forgotten | `ChainPassesUpgrade` |
| `QueryTip_Unchecked`: a chain shorter than the lag is accepted | `TypeOK` |
| `Disabled_LeftAlone`: `enable = false` is not written | `AnchorIsOfThisRun` |
| `WantSync_AnyData`: auto mode does not look at the data directory | `AutoKeepsState` |
| `WantSync_Inverted`: auto mode looks at it the wrong way | `EventuallySynced` |
| `Capabilities_SealFirst`: the capability keeper is sealed before the scopes | `NewNeverPanics` |
| `SDKKeepers_HooksEarly`: staking hooks before distribution and slashing | `CallsFindTheirKeepers` |
| `Statements_NeverLoad`: `loadLatest` is ignored | `TypeOK` |
| `HasCoin_FeeForgotten`: a message is allowed the coin its fee has taken | `ChainTypeOK` |
| `SetOrderInitGenesis_GenutilEarly`: gentxs before staking | `NothingIsMissing` |
| `BlockedAddresses_DistributionToo`: the distribution account may be paid by anybody | `BooksBalance` |
| `maccPerms_GovCannotBurn`: x/gov without its permission | `PermissionsSuffice` |
| `SetOrderBeginBlockers_SlashFirst`: slashing before distribution | `NothingLeftOver` |
| `CanPay_AllowanceOnly`: an allowance is enough, the granter's balance is not asked for | `TypeOK` |
| `Signed_AnySequence`: the number is looked at in checks only | `ExactlyOnce` |
| `DeliverTx_KeepsFee`: a refused transaction pays | `OnlyExecutedArePaid` |
| `MinFee_InBlocksToo`: the node's own price decides in blocks | `NodesAgree` |
| `Rechecked_Kept`: no recheck after a block | `PoolIsReady` |
| `Relay_CheckOnly`: redundant packets are looked for in the first check only | `RelayersDoNotRace` |
| `anteDecorators_KeyLate`: the key is stored after the signature is verified | `NobodyIsLockedOut` |
| `anteDecorators_LimitFirst`: the simulation limit before the context is set up | `SimulationsAreLimited` |
| `Counted_NotPerBlock`: the counter goes on over blocks | `PositionsInBlock` |
| `Relay_InBlocksToo`: redundant packets are refused in blocks as well | `ImplementsLedger` |
| `Scraps_WholeCoins`: only whole coins are donated | `Solvent` |
| `DeleteHistorical_Skipped`: old historical rewards stay | `ReferencesHold` |
| `InitializeValidator_PeriodKept`: the current period is not reset | `TypeOK` |
| `FreshHeight_Kept`: the context stays at the old height | `FreshStart` |
| `Jails_EmptyListToo`: no list is taken for an empty one | `PanicsOnlyOverAllowList` |
| `Reset_Unbonded`: the status is reset with the unbonding height | `ValidatorSetKept` |
| `ReinitializeDelegation_NoPeriod`: the hook before a delegation is forgotten | `BeginsAnew` |
| `Following_NoRewards`: the rewards are not withdrawn | `ImplementsExport` |

## 7. What is left out, and why

* Libraries: CometBFT is a decided sequence of blocks; x/upgrade, x/distribution
  and x/staking are modelled by the calls the repository makes.
* The v1 binary is not in the repository. Its stores are the v2 stores without
  the ones the upgrade adds, its state machine the same begin blocker without the
  v2 handler.
* Data no property tells apart: messages, memos, JSON. Gas is two steps, one for
  the ante handler and one for the messages; coins are units; validators are taken
  together in `BlockFlow`; vesting, authz and group have no part in it.
* Contracts: what a contract may do to coins is a burn or a send; its IBC calls are
  finding 3.
* Acknowledgements and timeouts of packets, which ibc-go keeps.
* Registration of commands, codecs, gRPC services and API routes; the interchain
  test harness, the build and the scripts: calls in a row without state to relate.
* A validator without tokens also has its current rewards moved to the community
  pool when its period ends; in `ZeroHeightExport` nobody is due those, and they
  reach the pool with the scraps.
* Panics and exits of `app/export.go` over what its stores cannot hold: an address of
  a delegation that is none, a validator missing under its own key, an error of a
  distribution hook or of the validator updates.
* Double signing by two copies of a validator key (warned of in `docker/` and
  `statesync.md`) is a property of how operators copy files.

## 8. What could follow

* Raw store keys, for the store that x/upgrade and the consensus parameters share
  (`app/app.go:303`): it needs the libraries' key layouts.
* The life of an IBC packet after it is sent (acknowledgements, timeouts, fees
  refunded), which ibc-go keeps and the stacks of `app.go` only pass on.
