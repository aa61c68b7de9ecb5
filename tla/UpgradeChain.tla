--------------------------- MODULE UpgradeChain ---------------------------
(***************************************************************************)
(* A network of Neutaro nodes crossing the v2 upgrade.                     *)
(*                                                                         *)
(* Each node has an installed binary, the application state its database   *)
(* holds, upgrade-info.json, the heights its operator told it to skip and, *)
(* while its process runs, a working state that a crash loses.  The nodes  *)
(* execute the blocks CometBFT decides: a block is decided by a quorum of  *)
(* running nodes that stand at the previous height with the same state,    *)
(* and its header carries that state's hash, so that a node with another   *)
(* state cannot execute it.                                                *)
(*                                                                         *)
(* Source: app/app.go (New, BeginBlocker, setupUpgradeStoreLoaders),       *)
(* cmd/Neutaro/cmd/root.go (newApp), and the halt, stop, upgrade and start *)
(* of interchaintest/upgrade_test.go.  CometBFT, the supervisor that       *)
(* restarts a process (docker-compose.yml: restart unless-stopped) and the *)
(* operators are external.                                                 *)
(*                                                                         *)
(* Heights count from the state the chain has when the model begins.       *)
(***************************************************************************)
EXTENDS UpgradeHandler, Sequences, FiniteSets

CONSTANTS
  Nodes,       \* the nodes
  Quorums,     \* the sets of nodes that hold more than 2/3 of the power
  Txs,         \* what governance may execute in a block
  MaxHeight,   \* bound: number of blocks decided
  MaxFaults,   \* bound: crashes of all nodes together
  SkipHeights, \* heights an operator may skip although the plan is known
  MaxMistakes, \* bound: binaries installed or heights skipped at the wrong time
  MaxSyncs     \* bound: state syncs of all nodes together

Plans == [name : {UpgradeName, "other"}, height : Nat \ {0}]
TxTypes ==
  [kind : {"schedule"}, plan : Plans] \cup [kind : {"cancel", "none"}, plan : {NoPlan}]
States ==
  [height : Nat, stores : SUBSET StoreKeys, vm : Binaries,
   plan : Plans \cup {NoPlan}, done : Nat, localhost : Nat,
   cparams : SUBSET {"legacy", "keeper"}]
Blocks == [tx : TxTypes, app : States]

ASSUME QuorumAssumption ==
  /\ Quorums \subseteq SUBSET Nodes
  /\ \A P, Q \in Quorums : P \cap Q # {}
ASSUME TxsAssumption == Txs \subseteq TxTypes
ASSUME SkipAssumption == SkipHeights \subseteq Nat
ASSUME BoundAssumption ==
  /\ MaxHeight \in Nat /\ MaxFaults \in Nat
  /\ MaxMistakes \in Nat /\ MaxSyncs \in Nat

VARIABLES
  binary,   \* binary[n]: the installed binary
  proc,     \* proc[n]: "down", "idle" between blocks, "open" inside a block
  disk,     \* disk[n]: the committed application state
  work,     \* work[n]: the state in memory; equal to disk[n] when down
  info,     \* info[n]: the plan in upgrade-info.json, NoPlan when missing
  skip,     \* skip[n]: heights given to --unsafe-skip-upgrades
  chain,    \* the decided blocks, in order
  faults, mistakes, syncs   \* counters for the bounds

vars == <<binary, proc, disk, work, info, skip, chain, faults, mistakes, syncs>>
budget == <<faults, mistakes, syncs>>

GenesisState ==
  [height |-> 0, stores |-> V1StoreKeys, vm |-> "v1",
   plan |-> NoPlan, done |-> 0, localhost |-> 0, cparams |-> {"legacy"}]

Init ==
  /\ binary = [n \in Nodes |-> "v1"]
  /\ proc = [n \in Nodes |-> "down"]
  /\ disk = [n \in Nodes |-> GenesisState]
  /\ work = [n \in Nodes |-> GenesisState]
  /\ info = [n \in Nodes |-> NoPlan]
  /\ skip = [n \in Nodes |-> {}]
  /\ chain = <<>>
  /\ faults = 0 /\ mistakes = 0 /\ syncs = 0

NextHeight(n) == disk[n].height + 1

---------------------------------------------------------------------------
(* The process                                                             *)

(* app.New with loadLatest.  When the load fails New exits: nothing on     *)
(* disk has changed and the supervisor tries again.                        *)
Boot(n) ==
  /\ proc[n] = "down"
  /\ CanLoad(binary[n], disk[n], info[n], skip[n])
  /\ proc' = [proc EXCEPT ![n] = "idle"]
  /\ work' = [work EXCEPT ![n] = Loaded(binary[n], disk[n], info[n], skip[n])]
  /\ UNCHANGED <<binary, disk, info, skip, chain, budget>>

(* CometBFT hands the next decided block over, live or replayed at start,  *)
(* if its header carries this node's application hash.                     *)
HasBlock(n) ==
  /\ proc[n] = "idle"
  /\ NextHeight(n) <= Len(chain)
  /\ chain[NextHeight(n)].app = disk[n]

(* BeginBlocker: the upgrade module goes first and does not panic.         *)
BeginBlock(n) ==
  LET h == NextHeight(n)
  IN /\ HasBlock(n)
     /\ ~BeginBlockPanics(binary[n], work[n], h, skip[n])
     /\ proc' = [proc EXCEPT ![n] = "open"]
     /\ work' = [work EXCEPT ![n] = UpgradeBeginBlock(@, h, skip[n])]
     /\ UNCHANGED <<binary, disk, info, skip, chain, budget>>

(* The begin blocker panics and the process ends.  Only UpgradeNeeded      *)
(* writes upgrade-info.json before it does; a node of the wrong version    *)
(* panics before it looks at the plan.                                     *)
BeginBlockPanic(n) ==
  LET h == NextHeight(n)
  IN /\ HasBlock(n)
     /\ BeginBlockPanics(binary[n], work[n], h, skip[n])
     /\ proc' = [proc EXCEPT ![n] = "down"]
     /\ work' = [work EXCEPT ![n] = disk[n]]
     /\ info' = [info EXCEPT ![n] =
                   IF UpgradeNeeded(binary[n], work[n], h, skip[n])
                   THEN [name |-> work[n].plan.name, height |-> h] ELSE @]
     /\ UNCHANGED <<binary, disk, skip, chain, budget>>

(* The rest of the block: its transactions, the end blockers, Commit.      *)
Commit(n) ==
  LET h == NextHeight(n)
      s == [EndBlock(work[n], chain[h].tx, h) EXCEPT !.height = h]
  IN /\ proc[n] = "open"
     /\ proc' = [proc EXCEPT ![n] = "idle"]
     /\ disk' = [disk EXCEPT ![n] = s]
     /\ work' = [work EXCEPT ![n] = s]
     /\ UNCHANGED <<binary, info, skip, chain, budget>>

Crash(n) ==
  /\ proc[n] # "down"
  /\ faults < MaxFaults
  /\ faults' = faults + 1
  /\ proc' = [proc EXCEPT ![n] = "down"]
  /\ work' = [work EXCEPT ![n] = disk[n]]
  /\ UNCHANGED <<binary, disk, info, skip, chain, mistakes, syncs>>

---------------------------------------------------------------------------
(* CometBFT                                                                *)

Decide(tx) ==
  /\ Len(chain) < MaxHeight
  /\ \E Q \in Quorums, s \in {disk[n] : n \in Nodes} :
       /\ s.height = Len(chain)
       /\ \A n \in Q : proc[n] = "idle" /\ disk[n] = s
       /\ chain' = Append(chain, [tx |-> tx, app |-> s])
  /\ UNCHANGED <<binary, proc, disk, work, info, skip, budget>>

(* statesync.md: a node whose data was reset restores the snapshot of a    *)
(* peer; upgrade-info.json stays.  The multistore refuses a snapshot whose *)
(* stores are not the ones the binary mounts.                              *)
StateSync(n, peer) ==
  /\ syncs < MaxSyncs
  /\ syncs' = syncs + 1
  /\ proc[n] = "down"
  /\ disk[peer].height > disk[n].height
  /\ disk[peer].stores = Mounted(binary[n])
  /\ disk' = [disk EXCEPT ![n] = disk[peer]]
  /\ work' = [work EXCEPT ![n] = disk[peer]]
  /\ UNCHANGED <<binary, proc, info, skip, chain, faults, mistakes>>

---------------------------------------------------------------------------
(* Operators.  Those who follow the procedure install v2 after the node    *)
(* halted for it, go back to v1 when v2 was installed on a node that is    *)
(* not there yet, and skip a plan no binary knows.  The others err.        *)

HaltedFor(n, name) ==
  /\ proc[n] = "down"
  /\ info[n].name = name
  /\ info[n].height = NextHeight(n)
  /\ info[n].height \notin skip[n]

InstallUpgrade(n) ==
  /\ proc[n] = "down"
  /\ HaltedFor(n, UpgradeName) \/ disk[n].done # 0
  /\ binary[n] = "v1"
  /\ binary' = [binary EXCEPT ![n] = "v2"]
  /\ UNCHANGED <<proc, disk, work, info, skip, chain, budget>>

RevertBinary(n) ==
  /\ proc[n] = "down"
  /\ binary[n] = "v2"
  /\ disk[n].done = 0
  /\ ~HaltedFor(n, UpgradeName)
  /\ binary' = [binary EXCEPT ![n] = "v1"]
  /\ UNCHANGED <<proc, disk, work, info, skip, chain, budget>>

SkipUnknown(n) ==
  /\ HaltedFor(n, "other")
  /\ skip' = [skip EXCEPT ![n] = @ \cup {NextHeight(n)}]
  /\ UNCHANGED <<binary, proc, disk, work, info, chain, budget>>

InstallAnyTime(n) ==
  /\ proc[n] = "down"
  /\ mistakes < MaxMistakes
  /\ mistakes' = mistakes + 1
  /\ \E b \in Binaries \ {binary[n]} : binary' = [binary EXCEPT ![n] = b]
  /\ UNCHANGED <<proc, disk, work, info, skip, chain, faults, syncs>>

SkipKnown(n) ==
  /\ proc[n] = "down"
  /\ mistakes < MaxMistakes
  /\ mistakes' = mistakes + 1
  /\ \E h \in SkipHeights : skip' = [skip EXCEPT ![n] = @ \cup {h}]
  /\ UNCHANGED <<binary, proc, disk, work, info, chain, faults, syncs>>

---------------------------------------------------------------------------

Execute(n) == BeginBlock(n) \/ BeginBlockPanic(n) \/ Commit(n)
Procedure(n) == InstallUpgrade(n) \/ RevertBinary(n) \/ SkipUnknown(n)

Next ==
  \/ \E tx \in Txs : Decide(tx)
  \/ \E n \in Nodes :
       \/ Boot(n) \/ BeginBlock(n) \/ BeginBlockPanic(n) \/ Commit(n)
       \/ Crash(n)
       \/ InstallUpgrade(n) \/ RevertBinary(n) \/ SkipUnknown(n)
       \/ InstallAnyTime(n) \/ SkipKnown(n)
       \/ \E peer \in Nodes : StateSync(n, peer)

Spec == Init /\ [][Next]_vars

(* The supervisor restarts a process that ended, a running node executes   *)
(* the blocks it is given, CometBFT keeps deciding while a quorum runs,    *)
(* and operators follow the procedure in the end.  Procedure is strong: a  *)
(* halted node whose supervisor restarts it is down only from time to time.*)
Fairness ==
  /\ WF_vars(\E tx \in Txs : Decide(tx))
  /\ \A n \in Nodes :
       /\ WF_vars(Execute(n))
       /\ WF_vars(Boot(n))
       /\ SF_vars(Procedure(n))

FairSpec == Spec /\ Fairness

---------------------------------------------------------------------------
(* Properties                                                              *)

(* The type invariant.                                                     *)
TypeOK ==
  /\ binary \in [Nodes -> Binaries]
  /\ proc \in [Nodes -> {"down", "idle", "open"}]
  /\ disk \in [Nodes -> States]
  /\ work \in [Nodes -> States]
  /\ info \in [Nodes -> Plans \cup {NoPlan}]
  /\ skip \in [Nodes -> SUBSET Nat]
  /\ chain \in Seq(Blocks)
  /\ faults \in Nat /\ mistakes \in Nat /\ syncs \in Nat

(* A state no part of the upgrade touched, and one that has all of it.     *)
WhollyOld(s) ==
  /\ s.done = 0 /\ s.vm = "v1" /\ s.localhost = 0
  /\ s.stores = V1StoreKeys
  /\ s.cparams = {"legacy"}
WhollyNew(s) ==
  /\ s.done # 0 /\ s.vm = "v2" /\ s.localhost = 1
  /\ s.stores = StoreKeys
  /\ s.cparams = {"legacy", "keeper"}

(* The upgrade is atomic: whatever crashed, restarted, was skipped or was  *)
(* installed when, no database ever holds a part of it.  In particular     *)
(* addLocalhostIBCClient, which appends without looking, has taken effect  *)
(* once although the handler may have run several times, and a failing     *)
(* migration leaves nothing of the steps before it.                        *)
UpgradeAtomic ==
  \A n \in Nodes : WhollyOld(disk[n]) \/ WhollyNew(disk[n])

(* Nodes at the same height hold the same state unless one of them skipped *)
(* the upgrade the other applied: the store loader, the restarts and the   *)
(* moment the binary was swapped leave no trace in the state.              *)
Agreement ==
  \A m, n \in Nodes :
    disk[m].height = disk[n].height /\ disk[m].done = disk[n].done
      => disk[m] = disk[n]

(* The upgrade was applied in a block in which the agreed state had it     *)
(* due, whatever upgrade-info.json said: setupUpgradeStoreLoaders compares *)
(* only the height in that file, not the name of the plan.                 *)
UpgradeWasDue ==
  \A n \in Nodes : disk[n].done # 0 =>
    /\ disk[n].done <= Len(chain)
    /\ LET s == chain[disk[n].done].app
       IN s.plan.name = UpgradeName /\ ShouldExecute(s, disk[n].done)

(* No block after the one a plan is due in starts with the plan pending:   *)
(* the chain cannot run past a due plan, it is applied or skipped there.   *)
NoDuePlanOutlivesItsBlock ==
  \A n \in Nodes : disk[n].plan # NoPlan => disk[n].plan.height >= disk[n].height

(* A binary commits only states of its own format: v2 never commits a      *)
(* block on top of v1 state except the one that upgrades it, and v1 never  *)
(* commits a block once the upgrade is applied.                            *)
BinaryMatchesState ==
  [][\A n \in Nodes : proc[n] = "open" /\ disk'[n] # disk[n]
       => (disk'[n].done # 0 <=> binary[n] = "v2")]_vars

(* With a supervisor that restarts nodes and operators who follow the      *)
(* procedure in the end, every node executes every block: the chain passes *)
(* the upgrade height, an unknown plan and early installed binaries.       *)
ChainPassesUpgrade == <>(\A n \in Nodes : disk[n].height = MaxHeight)

---------------------------------------------------------------------------
(* Refinement                                                              *)

Era(s) ==
  IF WhollyOld(s) THEN "old" ELSE IF WhollyNew(s) THEN "new" ELSE "torn"

LedgerOf(s) == [height |-> s.height, era |-> Era(s), plan |-> s.plan]

(* What an observer of the databases and of the decided blocks sees.       *)
LedgerBar == [n \in Nodes |-> LedgerOf(disk[n])]
LogBar ==
  [i \in DOMAIN chain |-> [tx |-> chain[i].tx, ledger |-> LedgerOf(chain[i].app)]]

Abstract == INSTANCE AbstractUpgrade WITH ledger <- LedgerBar, log <- LogBar

(* Seen from outside, a node of the real network executes each block in    *)
(* one step and changes its era in the block v2 is due in: the restarts,   *)
(* the panics and the stores added at boot do not show.                    *)
ImplementsAbstractUpgrade == Abstract!Spec

===========================================================================
