------------------------ MODULE UpgradeChainProofs ------------------------
(***************************************************************************)
(* TLAPS proofs about UpgradeChain, for every set of nodes, quorums,       *)
(* proposals and bounds.                                                   *)
(*                                                                         *)
(* UpgradeAtomic is not inductive: it says nothing about the working state *)
(* a step commits.  NodeInv adds what each process state guarantees, the   *)
(* crucial part being what the store loader leaves behind: a process whose *)
(* memory has the new stores on top of an old database stands right before *)
(* the due plan, so that its next block upgrades the rest or panics.       *)
(***************************************************************************)
EXTENDS UpgradeChain, SequenceTheorems, TLAPS

(* A wholly upgraded state in which the upgrade is not planned again.      *)
Upgraded(s) == WhollyNew(s) /\ s.plan.name # UpgradeName

Committed(n) == WhollyOld(disk[n]) \/ Upgraded(disk[n])

(* upgrade-info.json never speaks of a height beyond the next one, and     *)
(* when it speaks of the next one the database has a plan due there.       *)
InfoOK(n) ==
  /\ info[n].height <= NextHeight(n)
  /\ info[n].height = NextHeight(n) => ShouldExecute(disk[n], NextHeight(n))

WorkDown(n) == proc[n] = "down" => work[n] = disk[n]

(* What New left in memory: the database, or the database and the stores   *)
(* the loader added right before the plan is due.                          *)
WorkIdle(n) ==
  proc[n] = "idle" =>
    /\ binary[n] = "v2" => StoreUpgrades \subseteq work[n].stores
    /\ \/ work[n] = disk[n]
       \/ /\ work[n] = [disk[n] EXCEPT !.stores = StoreKeys]
          /\ binary[n] = "v2"
          /\ WhollyOld(disk[n])
          /\ MustUpgrade(disk[n], NextHeight(n), skip[n])

(* Inside a block the upgrade is applied in full or not at all, by the     *)
(* binary that goes with it.                                               *)
WorkOpen(n) ==
  proc[n] = "open" =>
    \/ WhollyOld(work[n]) /\ binary[n] = "v1"
    \/ Upgraded(work[n]) /\ binary[n] = "v2"

NodeInv(n) == Committed(n) /\ InfoOK(n) /\ WorkDown(n) /\ WorkIdle(n) /\ WorkOpen(n)
UpgradeInv == TypeOK /\ \A n \in Nodes : NodeInv(n)

---------------------------------------------------------------------------
(* The operators on application states stay in States.                     *)

LEMMA StoresFact ==
  /\ V1StoreKeys \subseteq StoreKeys
  /\ StoreUpgrades \subseteq StoreKeys
  /\ ~ (StoreUpgrades \subseteq V1StoreKeys)
  /\ V1StoreKeys \cup StoreUpgrades = StoreKeys
  BY DEF StoreKeys, V1StoreKeys, StoreUpgrades

LEMMA PlansAreRecords ==
  ASSUME NEW p \in Plans \cup {NoPlan}
  PROVE  p.height \in Nat /\ (p # NoPlan => p.name \in {UpgradeName, "other"})
  BY DEF Plans, NoPlan

LEMMA LoadedTyped ==
  ASSUME NEW s \in States, NEW b, NEW i, NEW k
  PROVE  Loaded(b, s, i, k) \in States
  BY DEF Loaded, AddedAtBoot, States, StoreUpgrades, StoreKeys

LEMMA BeginBlockTyped ==
  ASSUME NEW s \in States, NEW h \in Nat, NEW k
  PROVE  UpgradeBeginBlock(s, h, k) \in States
  <1>1. MigrateParams(s) \in States
    BY DEF MigrateParams, States
  <1>2. AddLocalhostIBCClient(MigrateParams(s)) \in States
    BY <1>1 DEF AddLocalhostIBCClient, States
  <1>3. V2Handler(s) \in States
    BY <1>2 DEF V2Handler, RunMigrations, States, Binaries
  <1>4. ApplyUpgrade(s, h) \in States
    BY <1>3 DEF ApplyUpgrade, States
  <1>5. [s EXCEPT !.plan = NoPlan] \in States
    BY DEF States
  <1>. QED
    BY <1>4, <1>5 DEF UpgradeBeginBlock

LEMMA EndBlockTyped ==
  ASSUME NEW s \in States, NEW tx \in TxTypes, NEW h \in Nat
  PROVE  [EndBlock(s, tx, h) EXCEPT !.height = h] \in States
  <1>1. CASE tx.kind = "schedule"
    <2>1. tx.plan \in Plans
      BY <1>1 DEF TxTypes
    <2>. QED
      BY <1>1, <2>1 DEF EndBlock, ScheduleUpgrade, States
  <1>2. CASE tx.kind = "cancel"
    BY <1>2 DEF EndBlock, CancelUpgrade, States
  <1>3. CASE tx.kind \notin {"schedule", "cancel"}
    BY <1>3 DEF EndBlock, States
  <1>. QED
    BY <1>1, <1>2, <1>3

---------------------------------------------------------------------------
(* Type correctness.  It needs that a block being executed was decided:    *)
(* Commit looks it up.                                                     *)

OpenBlockDecided(n) == proc[n] = "open" => NextHeight(n) <= Len(chain)
TypeInv == TypeOK /\ \A n \in Nodes : OpenBlockDecided(n)

LEMMA GenesisTyped == GenesisState \in States
  BY StoresFact DEF GenesisState, States, Binaries, NoPlan

LEMMA TypeInit == Init => TypeInv
  BY GenesisTyped DEF Init, TypeInv, OpenBlockDecided, TypeOK, Binaries, NoPlan

LEMMA TypeNext == TypeInv /\ [Next]_vars => TypeOK'
  <1>. SUFFICES ASSUME TypeInv, [Next]_vars PROVE TypeOK'
    OBVIOUS
  <1>. USE TxsAssumption DEF TypeOK, TypeInv
  <1>1. CASE UNCHANGED vars
    BY <1>1 DEF vars
  <1>2. ASSUME NEW tx \in Txs, Decide(tx) PROVE TypeOK'
    <2>1. PICK s \in {disk[n] : n \in Nodes} :
            chain' = Append(chain, [tx |-> tx, app |-> s])
      BY <1>2 DEF Decide
    <2>2. chain' \in Seq(Blocks)
      BY <2>1 DEF Blocks
    <2>. QED
      BY <1>2, <2>2 DEF Decide, budget
  <1>3. ASSUME NEW n \in Nodes, Boot(n) PROVE TypeOK'
    BY <1>3, LoadedTyped DEF Boot, budget
  <1>4. ASSUME NEW n \in Nodes, BeginBlock(n) PROVE TypeOK'
    <2>1. NextHeight(n) \in Nat
      BY DEF NextHeight, States
    <2>2. UpgradeBeginBlock(work[n], NextHeight(n), skip[n]) \in States
      BY <2>1, BeginBlockTyped
    <2>. QED
      BY <1>4, <2>2 DEF BeginBlock, budget
  <1>5. ASSUME NEW n \in Nodes, BeginBlockPanic(n) PROVE TypeOK'
    <2>1. UpgradeNeeded(binary[n], work[n], NextHeight(n), skip[n])
            => [name |-> work[n].plan.name, height |-> NextHeight(n)] \in Plans
      BY DEF UpgradeNeeded, MustUpgrade, ShouldExecute, NextHeight, States, Plans
    <2>2. info' \in [Nodes -> Plans \cup {NoPlan}]
      BY <1>5, <2>1 DEF BeginBlockPanic
    <2>3. proc' \in [Nodes -> {"down", "idle", "open"}] /\ work' \in [Nodes -> States]
      BY <1>5 DEF BeginBlockPanic
    <2>. QED
      BY <1>5, <2>2, <2>3 DEF BeginBlockPanic, budget
  <1>6. ASSUME NEW n \in Nodes, Commit(n) PROVE TypeOK'
    <2>1. NextHeight(n) \in Nat
      BY DEF NextHeight, States
    <2>2. chain[NextHeight(n)].tx \in TxTypes
      <3>1. NextHeight(n) \in 1..Len(chain)
        BY <1>6 DEF OpenBlockDecided, Commit, NextHeight, States
      <3>2. chain[NextHeight(n)] \in Blocks
        BY <3>1
      <3>. QED
        BY <3>2 DEF Blocks
    <2>3. [EndBlock(work[n], chain[NextHeight(n)].tx, NextHeight(n))
             EXCEPT !.height = NextHeight(n)] \in States
      BY <2>1, <2>2, EndBlockTyped
    <2>. QED
      BY <1>6, <2>3 DEF Commit, budget
  <1>7. ASSUME NEW n \in Nodes, Crash(n) PROVE TypeOK'
    BY <1>7 DEF Crash
  <1>8. ASSUME NEW n \in Nodes, Procedure(n) PROVE TypeOK'
    <2>1. CASE InstallUpgrade(n)
      BY <2>1 DEF InstallUpgrade, budget, Binaries
    <2>2. CASE RevertBinary(n)
      BY <2>2 DEF RevertBinary, budget, Binaries
    <2>3. CASE SkipUnknown(n)
      <3>1. NextHeight(n) \in Nat
        BY DEF NextHeight, States
      <3>. QED
        BY <2>3, <3>1 DEF SkipUnknown, budget
    <2>. QED
      BY <1>8, <2>1, <2>2, <2>3 DEF Procedure
  <1>9. ASSUME NEW n \in Nodes, InstallAnyTime(n) PROVE TypeOK'
    BY <1>9 DEF InstallAnyTime, Binaries
  <1>10. ASSUME NEW n \in Nodes, SkipKnown(n) PROVE TypeOK'
    BY <1>10, SkipAssumption DEF SkipKnown
  <1>11. ASSUME NEW n \in Nodes, NEW peer \in Nodes, StateSync(n, peer) PROVE TypeOK'
    BY <1>11 DEF StateSync
  <1>. QED
    BY <1>1, <1>2, <1>3, <1>4, <1>5, <1>6, <1>7, <1>8, <1>9, <1>10, <1>11
       DEF Next, Procedure

LEMMA OpenBlockNext == TypeInv /\ [Next]_vars => (\A n \in Nodes : OpenBlockDecided(n))'
  <1>. SUFFICES ASSUME TypeInv, [Next]_vars, NEW n \in Nodes,
                       (proc[n] = "open")'
                PROVE  NextHeight(n)' <= Len(chain')
    BY DEF OpenBlockDecided
  <1>. USE DEF TypeInv, TypeOK, OpenBlockDecided, NextHeight
  <1>1. NextHeight(n) \in Nat
    BY DEF States
  <1>2. CASE UNCHANGED vars
    BY <1>2 DEF vars
  <1>3. ASSUME NEW tx \in Txs, Decide(tx) PROVE NextHeight(n)' <= Len(chain')
    <2>1. PICK b \in [tx : {tx}, app : {disk[m] : m \in Nodes}] : chain' = Append(chain, b)
      BY <1>3 DEF Decide
    <2>2. Len(chain') = Len(chain) + 1
      BY <2>1, TxsAssumption
    <2>. QED
      BY <1>1, <1>3, <2>2 DEF Decide
  <1>4. ASSUME NEW m \in Nodes, BeginBlock(m) PROVE NextHeight(n)' <= Len(chain')
    BY <1>4 DEF BeginBlock, HasBlock
  <1>5. ASSUME NEW m \in Nodes,
               \/ Boot(m) \/ BeginBlockPanic(m) \/ Commit(m) \/ Crash(m)
               \/ InstallUpgrade(m) \/ RevertBinary(m) \/ SkipUnknown(m)
               \/ InstallAnyTime(m) \/ SkipKnown(m)
               \/ \E peer \in Nodes : StateSync(m, peer)
        PROVE  NextHeight(n)' <= Len(chain')
    BY <1>5 DEF Boot, BeginBlockPanic, Commit, Crash, InstallUpgrade, RevertBinary,
                SkipUnknown, InstallAnyTime, SkipKnown, StateSync
  <1>. QED
    BY <1>2, <1>3, <1>4, <1>5 DEF Next

(* Every variable keeps its type, whatever the nodes, the proposals and    *)
(* the bounds are.                                                         *)
THEOREM TypeCorrect == Spec => []TypeInv
  <1>1. TypeInv /\ [Next]_vars => TypeInv'
    BY TypeNext, OpenBlockNext DEF TypeInv
  <1>. QED
    BY TypeInit, <1>1, PTL DEF Spec

THEOREM SpecTypeOK == Spec => []TypeOK
  <1>1. TypeInv => TypeOK
    BY DEF TypeInv
  <1>. QED
    BY TypeCorrect, <1>1, PTL

---------------------------------------------------------------------------
(* Atomicity.                                                              *)

(* A begin blocker that does not panic either leaves an old state old,     *)
(* under v1, or ends in a wholly upgraded one, under v2.                   *)
LEMMA BeginBlockResult ==
  ASSUME NEW s \in States, NEW h \in Nat, NEW k, NEW b \in Binaries,
         ~BeginBlockPanics(b, s, h, k),
         \/ WhollyOld(s) /\ b = "v1"
         \/ Upgraded(s)
         \/ /\ b = "v2" /\ s.stores = StoreKeys
            /\ s.vm = "v1" /\ s.localhost = 0 /\ s.cparams = {"legacy"}
            /\ MustUpgrade(s, h, k) /\ h # 0
  PROVE  LET r == UpgradeBeginBlock(s, h, k)
         IN \/ WhollyOld(r) /\ b = "v1"
            \/ Upgraded(r) /\ b = "v2"
  <1>. DEFINE r == UpgradeBeginBlock(s, h, k)
  <1>1. NoPlan.name # UpgradeName
    BY DEF NoPlan, UpgradeName
  <1>2. CASE WhollyOld(s) /\ b = "v1"
    <2>1. ~MustUpgrade(s, h, k)
      BY <1>2 DEF BeginBlockPanics, UpgradeNeeded, HasHandler
    <2>2. r = s \/ r = [s EXCEPT !.plan = NoPlan]
      BY <2>1 DEF UpgradeBeginBlock
    <2>3. WhollyOld(r)
      BY <1>2, <2>2 DEF WhollyOld, States
    <2>. QED
      BY <1>2, <2>3
  <1>3. CASE Upgraded(s)
    <2>1. ~MustUpgrade(s, h, k)
      BY <1>3 DEF BeginBlockPanics, UpgradeNeeded, HasHandler, Upgraded
    <2>2. b = "v2"
      BY <1>3, <2>1 DEF BeginBlockPanics, WrongVersion, MustUpgrade, HasHandler,
                        Upgraded, WhollyNew, Binaries, UpgradeName
    <2>3. r = s \/ r = [s EXCEPT !.plan = NoPlan]
      BY <2>1 DEF UpgradeBeginBlock
    <2>4. Upgraded(r)
      BY <1>1, <1>3, <2>3 DEF Upgraded, WhollyNew, States
    <2>. QED
      BY <2>2, <2>4
  <1>4. CASE /\ b = "v2" /\ s.stores = StoreKeys
             /\ s.vm = "v1" /\ s.localhost = 0 /\ s.cparams = {"legacy"}
             /\ MustUpgrade(s, h, k) /\ h # 0
    <2>. DEFINE p == MigrateParams(s)
                q == AddLocalhostIBCClient(p)
                t == RunMigrations(q)
    <2>1. /\ p \in States /\ p.stores = StoreKeys /\ p.localhost = 0
          /\ p.cparams = {"legacy", "keeper"}
      BY <1>4 DEF MigrateParams, States
    <2>2. /\ q \in States /\ q.stores = StoreKeys /\ q.localhost = 1
          /\ q.cparams = {"legacy", "keeper"}
      BY <2>1 DEF AddLocalhostIBCClient, States
    <2>3. ~RunMigrationsFails(q)
      BY <1>4, <2>2 DEF BeginBlockPanics, HandlerFails, RunMigrationsFails
    <2>4. /\ t \in States /\ t.stores = StoreKeys /\ t.localhost = 1
          /\ t.cparams = {"legacy", "keeper"} /\ t.vm = "v2"
      BY <2>2, <2>3 DEF RunMigrations, States, Binaries
    <2>5. r = [t EXCEPT !.plan = NoPlan, !.done = h]
      BY <1>4 DEF UpgradeBeginBlock, ApplyUpgrade, V2Handler
    <2>6. Upgraded(r)
      BY <1>1, <1>4, <2>4, <2>5 DEF Upgraded, WhollyNew, States
    <2>. QED
      BY <1>4, <2>6
  <1>. QED
    BY <1>2, <1>3, <1>4

(* The rest of the block keeps an old state old and an upgraded one        *)
(* upgraded: the upgrade that was applied cannot be planned again.         *)
LEMMA EndBlockKeeps ==
  ASSUME NEW s \in States, NEW tx \in TxTypes, NEW h \in Nat
  PROVE  LET r == [EndBlock(s, tx, h) EXCEPT !.height = h]
         IN /\ WhollyOld(s) => WhollyOld(r)
            /\ Upgraded(s) => Upgraded(r)
            /\ r.height = h /\ r.done = s.done
  <1>. DEFINE e == EndBlock(s, tx, h)
  <1>1. e = s \/ e = CancelUpgrade(s) \/ e = ScheduleUpgrade(s, tx.plan, h)
    BY DEF EndBlock
  <1>2. CASE e = s
    BY <1>2 DEF WhollyOld, Upgraded, WhollyNew, States
  <1>3. CASE e = CancelUpgrade(s)
    BY <1>3 DEF CancelUpgrade, WhollyOld, Upgraded, WhollyNew, States, NoPlan, UpgradeName
  <1>4. CASE e = ScheduleUpgrade(s, tx.plan, h)
    <2>1. CASE e = s
      BY <1>2, <2>1
    <2>2. CASE e # s
      <3>1. e = [s EXCEPT !.plan = tx.plan] /\ ~ (tx.plan.name = UpgradeName /\ s.done # 0)
        BY <1>4, <2>2 DEF ScheduleUpgrade
      <3>. QED
        BY <3>1 DEF WhollyOld, Upgraded, WhollyNew, States
    <2>. QED
      BY <2>1, <2>2
  <1>. QED
    BY <1>1, <1>2, <1>3, <1>4

(* A node no component of which changes keeps its invariant.               *)
LEMMA Frame ==
  ASSUME NEW n \in Nodes, NodeInv(n),
         binary'[n] = binary[n], proc'[n] = proc[n], disk'[n] = disk[n],
         work'[n] = work[n], info'[n] = info[n], skip'[n] = skip[n]
  PROVE  NodeInv(n)'
  BY DEF NodeInv, Committed, InfoOK, WorkDown, WorkIdle, WorkOpen, NextHeight

(* A process that is down holds nothing: only the database, the file and   *)
(* what they say of each other matter.                                     *)
LEMMA DownKeeps ==
  ASSUME NEW n \in Nodes, NodeInv(n),
         proc'[n] = "down", disk'[n] = disk[n], work'[n] = disk[n], info'[n] = info[n]
  PROVE  NodeInv(n)'
  BY DEF NodeInv, Committed, InfoOK, WorkDown, WorkIdle, WorkOpen, NextHeight

LEMMA BootKeeps ==
  ASSUME UpgradeInv, NEW n \in Nodes, Boot(n)
  PROVE  NodeInv(n)'
  <1>. DEFINE s == disk[n]
              added == AddedAtBoot(binary[n], s, info[n], skip[n])
  <1>. USE DEF UpgradeInv, TypeOK
  <1>1. s \in States /\ NodeInv(n)
    OBVIOUS
  <1>2. /\ proc'[n] = "idle" /\ disk'[n] = s /\ binary'[n] = binary[n]
        /\ info'[n] = info[n] /\ skip'[n] = skip[n]
        /\ work'[n] = [s EXCEPT !.stores = @ \cup added]
        /\ Mounted(binary[n]) \ added \subseteq s.stores
        /\ added \cap s.stores = {}
    BY DEF Boot, Loaded, CanLoad
  <1>3. Committed(n)' /\ InfoOK(n)' /\ WorkDown(n)' /\ WorkOpen(n)'
    BY <1>1, <1>2 DEF NodeInv, Committed, InfoOK, WorkDown, WorkOpen, NextHeight
  <1>4. WorkIdle(n)'
    <2>1. CASE added = {}
      <3>1. work'[n] = s
        BY <1>1, <1>2, <2>1 DEF States
      <3>2. binary[n] = "v2" => StoreUpgrades \subseteq s.stores
        BY <1>2, <2>1, StoresFact DEF Mounted
      <3>. QED
        BY <1>2, <3>1, <3>2 DEF WorkIdle
    <2>2. CASE added # {}
      <3>1. /\ added = StoreUpgrades /\ binary[n] = "v2"
            /\ info[n].height \notin skip[n] /\ info[n].height = NextHeight(n)
        BY <2>2 DEF AddedAtBoot, NextHeight
      <3>2. ~WhollyNew(s)
        BY <1>2, <2>2, <3>1, StoresFact DEF WhollyNew
      <3>3. WhollyOld(s)
        BY <1>1, <3>2 DEF NodeInv, Committed, Upgraded
      <3>4. work'[n] = [s EXCEPT !.stores = StoreKeys]
        BY <1>2, <3>1, <3>3, StoresFact DEF WhollyOld
      <3>5. work'[n].stores = StoreKeys
        BY <1>1, <3>4 DEF States
      <3>6. MustUpgrade(s, NextHeight(n), skip[n])
        BY <1>1, <3>1 DEF NodeInv, InfoOK, MustUpgrade
      <3>. QED
        BY <1>2, <3>1, <3>3, <3>4, <3>5, <3>6, StoresFact DEF WorkIdle, NextHeight
    <2>. QED
      BY <2>1, <2>2
  <1>. QED
    BY <1>3, <1>4 DEF NodeInv

LEMMA BeginBlockKeeps ==
  ASSUME UpgradeInv, NEW n \in Nodes, BeginBlock(n)
  PROVE  NodeInv(n)'
  <1>. DEFINE s == work[n]
              h == NextHeight(n)
              r == UpgradeBeginBlock(s, h, skip[n])
  <1>. USE DEF UpgradeInv, TypeOK
  <1>1. s \in States /\ disk[n] \in States /\ binary[n] \in Binaries /\ NodeInv(n)
    OBVIOUS
  <1>2. h \in Nat /\ h # 0
    BY <1>1 DEF NextHeight, States
  <1>3. /\ proc[n] = "idle" /\ proc'[n] = "open" /\ work'[n] = r
        /\ disk'[n] = disk[n] /\ binary'[n] = binary[n] /\ info'[n] = info[n]
        /\ ~BeginBlockPanics(binary[n], s, h, skip[n])
    BY DEF BeginBlock, HasBlock
  <1>4. \/ WhollyOld(s) /\ binary[n] = "v1"
        \/ Upgraded(s)
        \/ /\ binary[n] = "v2" /\ s.stores = StoreKeys
           /\ s.vm = "v1" /\ s.localhost = 0 /\ s.cparams = {"legacy"}
           /\ MustUpgrade(s, h, skip[n]) /\ h # 0
    <2>1. CASE s = disk[n]
      <3>1. CASE binary[n] = "v2"
        <4>1. ~WhollyOld(s)
          BY <1>1, <1>3, <3>1, StoresFact DEF NodeInv, WorkIdle, WhollyOld
        <4>. QED
          BY <1>1, <2>1, <4>1 DEF NodeInv, Committed
      <3>2. CASE binary[n] = "v1"
        BY <1>1, <2>1, <3>2 DEF NodeInv, Committed
      <3>. QED
        BY <1>1, <3>1, <3>2 DEF Binaries
    <2>2. CASE s # disk[n]
      <3>1. /\ s = [disk[n] EXCEPT !.stores = StoreKeys]
            /\ binary[n] = "v2" /\ WhollyOld(disk[n])
            /\ MustUpgrade(disk[n], h, skip[n])
        BY <1>1, <1>3, <2>2 DEF NodeInv, WorkIdle
      <3>2. /\ s.stores = StoreKeys /\ s.vm = disk[n].vm /\ s.plan = disk[n].plan
            /\ s.localhost = disk[n].localhost /\ s.cparams = disk[n].cparams
        BY <1>1, <3>1 DEF States
      <3>. QED
        BY <1>2, <3>1, <3>2 DEF WhollyOld, MustUpgrade, ShouldExecute
    <2>. QED
      BY <2>1, <2>2
  <1>5. \/ WhollyOld(r) /\ binary[n] = "v1"
        \/ Upgraded(r) /\ binary[n] = "v2"
    BY <1>1, <1>2, <1>3, <1>4, BeginBlockResult
  <1>6. WorkOpen(n)'
    BY <1>3, <1>5 DEF WorkOpen
  <1>7. Committed(n)' /\ InfoOK(n)' /\ WorkDown(n)' /\ WorkIdle(n)'
    BY <1>1, <1>3 DEF NodeInv, Committed, InfoOK, WorkDown, WorkIdle, NextHeight
  <1>. QED
    BY <1>6, <1>7 DEF NodeInv

LEMMA BeginBlockPanicKeeps ==
  ASSUME UpgradeInv, NEW n \in Nodes, BeginBlockPanic(n)
  PROVE  NodeInv(n)'
  <1>. DEFINE h == NextHeight(n)
  <1>. USE DEF UpgradeInv, TypeOK
  <1>1. work[n] \in States /\ disk[n] \in States /\ NodeInv(n)
    OBVIOUS
  <1>2. /\ proc[n] = "idle" /\ proc'[n] = "down"
        /\ disk'[n] = disk[n] /\ work'[n] = disk[n]
        /\ \/ info'[n] = info[n]
           \/ /\ info'[n].height = h
              /\ MustUpgrade(work[n], h, skip[n])
    BY DEF BeginBlockPanic, HasBlock, UpgradeNeeded
  <1>3. CASE info'[n] = info[n]
    BY <1>1, <1>2, <1>3, DownKeeps
  <1>4. CASE info'[n].height = h /\ MustUpgrade(work[n], h, skip[n])
    <2>1. work[n].plan = disk[n].plan
      BY <1>1, <1>2 DEF NodeInv, WorkIdle, States
    <2>2. InfoOK(n)'
      BY <1>1, <1>2, <1>4, <2>1 DEF InfoOK, NextHeight, MustUpgrade, ShouldExecute, States
    <2>. QED
      BY <1>1, <1>2, <2>2 DEF NodeInv, Committed, WorkDown, WorkIdle, WorkOpen
  <1>. QED
    BY <1>2, <1>3, <1>4

LEMMA CommitKeeps ==
  ASSUME UpgradeInv, TypeInv, NEW n \in Nodes, Commit(n)
  PROVE  NodeInv(n)'
  <1>. DEFINE h == NextHeight(n)
              tx == chain[h].tx
              r == [EndBlock(work[n], tx, h) EXCEPT !.height = h]
  <1>. USE DEF UpgradeInv, TypeOK, TypeInv
  <1>1. work[n] \in States /\ disk[n] \in States /\ NodeInv(n) /\ h \in Nat
    BY DEF NextHeight, States
  <1>2. tx \in TxTypes
    <2>1. h \in 1..Len(chain)
      BY <1>1 DEF OpenBlockDecided, Commit, NextHeight, States
    <2>2. chain[h] \in Blocks
      BY <2>1
    <2>. QED
      BY <2>2 DEF Blocks
  <1>3. /\ proc[n] = "open" /\ proc'[n] = "idle" /\ disk'[n] = r /\ work'[n] = r
        /\ info'[n] = info[n] /\ binary'[n] = binary[n]
    BY DEF Commit
  <1>4. /\ WhollyOld(work[n]) => WhollyOld(r)
        /\ Upgraded(work[n]) => Upgraded(r)
        /\ r.height = h
    BY <1>1, <1>2, EndBlockKeeps
  <1>5. Committed(n)'
    BY <1>1, <1>3, <1>4 DEF NodeInv, WorkOpen, Committed
  <1>6. InfoOK(n)'
    <2>1. info[n].height \in Nat
      BY PlansAreRecords
    <2>2. info'[n].height <= h /\ NextHeight(n)' = h + 1
      BY <1>1, <1>3, <1>4 DEF NodeInv, InfoOK, NextHeight
    <2>. QED
      BY <1>1, <1>3, <2>1, <2>2 DEF InfoOK
  <1>7. WorkIdle(n)'
    <2>1. binary[n] = "v2" => Upgraded(r)
      BY <1>1, <1>3, <1>4 DEF NodeInv, WorkOpen
    <2>. QED
      BY <1>3, <2>1, StoresFact DEF WorkIdle, Upgraded, WhollyNew
  <1>. QED
    BY <1>3, <1>5, <1>6, <1>7 DEF NodeInv, WorkDown, WorkOpen

LEMMA StateSyncKeeps ==
  ASSUME UpgradeInv, NEW n \in Nodes, NEW peer \in Nodes, StateSync(n, peer)
  PROVE  NodeInv(n)'
  <1>. USE DEF UpgradeInv, TypeOK
  <1>1. /\ disk[n] \in States /\ disk[peer] \in States
        /\ NodeInv(n) /\ NodeInv(peer) /\ info[n].height \in Nat
    BY PlansAreRecords
  <1>2. /\ proc'[n] = "down" /\ disk'[n] = disk[peer] /\ work'[n] = disk[peer]
        /\ info'[n] = info[n] /\ disk[peer].height > disk[n].height
    BY DEF StateSync
  <1>3. InfoOK(n)'
    <2>1. info[n].height <= disk[n].height + 1
      BY <1>1 DEF NodeInv, InfoOK, NextHeight
    <2>. QED
      BY <1>1, <1>2, <2>1 DEF InfoOK, NextHeight, States
  <1>. QED
    BY <1>1, <1>2, <1>3 DEF NodeInv, Committed, WorkDown, WorkIdle, WorkOpen

LEMMA UpgradeInit == Init => UpgradeInv
  <1>. SUFFICES ASSUME Init, NEW n \in Nodes PROVE NodeInv(n)
    BY TypeInit DEF UpgradeInv, TypeInv
  <1>1. WhollyOld(disk[n]) /\ work[n] = disk[n] /\ proc[n] = "down"
    BY DEF Init, GenesisState, WhollyOld
  <1>2. InfoOK(n)
    BY DEF Init, InfoOK, NextHeight, GenesisState, NoPlan
  <1>. QED
    BY <1>1, <1>2 DEF NodeInv, Committed, WorkDown, WorkIdle, WorkOpen

LEMMA UpgradeNext ==
  ASSUME UpgradeInv, TypeInv, [Next]_vars
  PROVE  \A n \in Nodes : NodeInv(n)'
  <1>. SUFFICES ASSUME NEW n \in Nodes PROVE NodeInv(n)'
    OBVIOUS
  <1>. USE DEF UpgradeInv, TypeOK
  <1>1. NodeInv(n)
    OBVIOUS
  <1>2. CASE UNCHANGED vars
    BY <1>1, <1>2, Frame DEF vars
  <1>3. ASSUME NEW tx \in Txs, Decide(tx) PROVE NodeInv(n)'
    BY <1>1, <1>3, Frame DEF Decide
  <1>4. ASSUME NEW m \in Nodes, m # n,
               \/ Boot(m) \/ BeginBlock(m) \/ BeginBlockPanic(m) \/ Commit(m)
               \/ Crash(m) \/ InstallUpgrade(m) \/ RevertBinary(m) \/ SkipUnknown(m)
               \/ InstallAnyTime(m) \/ SkipKnown(m)
               \/ \E peer \in Nodes : StateSync(m, peer)
        PROVE  NodeInv(n)'
    <2>1. /\ binary'[n] = binary[n] /\ proc'[n] = proc[n] /\ disk'[n] = disk[n]
          /\ work'[n] = work[n] /\ info'[n] = info[n] /\ skip'[n] = skip[n]
      BY <1>4 DEF Boot, BeginBlock, BeginBlockPanic, Commit, Crash, InstallUpgrade,
                  RevertBinary, SkipUnknown, InstallAnyTime, SkipKnown, StateSync
    <2>. QED
      BY <1>1, <2>1, Frame
  <1>5. CASE Boot(n)
    BY <1>5, BootKeeps
  <1>6. CASE BeginBlock(n)
    BY <1>6, BeginBlockKeeps
  <1>7. CASE BeginBlockPanic(n)
    BY <1>7, BeginBlockPanicKeeps
  <1>8. CASE Commit(n)
    BY <1>8, CommitKeeps
  <1>9. CASE Crash(n)
    BY <1>1, <1>9, DownKeeps DEF Crash
  <1>10. CASE \/ InstallUpgrade(n) \/ RevertBinary(n) \/ SkipUnknown(n)
              \/ InstallAnyTime(n) \/ SkipKnown(n)
    <2>1. /\ proc[n] = "down" /\ proc'[n] = "down" /\ disk'[n] = disk[n]
          /\ work'[n] = work[n] /\ info'[n] = info[n]
      BY <1>10 DEF InstallUpgrade, RevertBinary, SkipUnknown, HaltedFor,
                   InstallAnyTime, SkipKnown
    <2>2. work'[n] = disk[n]
      BY <1>1, <2>1 DEF NodeInv, WorkDown
    <2>. QED
      BY <1>1, <2>1, <2>2, DownKeeps
  <1>11. ASSUME NEW peer \in Nodes, StateSync(n, peer) PROVE NodeInv(n)'
    BY <1>11, StateSyncKeeps
  <1>. QED
    BY <1>2, <1>3, <1>4, <1>5, <1>6, <1>7, <1>8, <1>9, <1>10, <1>11 DEF Next

THEOREM UpgradeInvariant == Spec => []UpgradeInv
  <1>1. TypeInv /\ UpgradeInv /\ [Next]_vars => UpgradeInv'
    BY TypeNext, UpgradeNext DEF UpgradeInv
  <1>. QED
    BY UpgradeInit, TypeCorrect, <1>1, PTL DEF Spec

(* No database ever holds a part of the upgrade.                           *)
THEOREM SpecUpgradeAtomic == Spec => []UpgradeAtomic
  <1>1. UpgradeInv => UpgradeAtomic
    BY DEF UpgradeInv, NodeInv, Committed, Upgraded, UpgradeAtomic
  <1>. QED
    BY UpgradeInvariant, <1>1, PTL

(* A binary commits only states of its own format.                         *)
THEOREM SpecBinaryMatchesState == Spec => BinaryMatchesState
  <1>1. ASSUME UpgradeInv, TypeInv, [Next]_vars, NEW n \in Nodes,
               proc[n] = "open", disk'[n] # disk[n]
        PROVE  disk'[n].done # 0 <=> binary[n] = "v2"
    <2>. USE DEF UpgradeInv, TypeOK
    <2>1. Commit(n)
      BY <1>1 DEF Next, vars, Decide, Boot, BeginBlock, BeginBlockPanic, Commit, Crash,
                  InstallUpgrade, RevertBinary, SkipUnknown, InstallAnyTime,
                  SkipKnown, StateSync
    <2>2. /\ work[n] \in States /\ disk[n] \in States /\ NodeInv(n)
          /\ NextHeight(n) \in Nat
      BY <1>1 DEF NextHeight, States
    <2>3. chain[NextHeight(n)].tx \in TxTypes
      <3>1. NextHeight(n) \in 1..Len(chain)
        BY <1>1, <2>2 DEF TypeInv, OpenBlockDecided, NextHeight, States
      <3>2. chain[NextHeight(n)] \in Blocks
        BY <1>1, <3>1
      <3>. QED
        BY <3>2 DEF Blocks
    <2>4. disk'[n].done = work[n].done
      BY <1>1, <2>1, <2>2, <2>3, EndBlockKeeps DEF Commit
    <2>. QED
      BY <1>1, <2>2, <2>4 DEF NodeInv, WorkOpen, Upgraded, WhollyNew, WhollyOld
  <1>2. UpgradeInv /\ TypeInv /\ [Next]_vars
          => [\A n \in Nodes : proc[n] = "open" /\ disk'[n] # disk[n]
                => (disk'[n].done # 0 <=> binary[n] = "v2")]_vars
    BY <1>1
  <1>. QED
    BY <1>2, UpgradeInvariant, TypeCorrect, PTL DEF Spec, BinaryMatchesState

---------------------------------------------------------------------------
(* The chain does not run past a due plan.                                 *)

PlanInv(n) ==
  /\ disk[n].plan # NoPlan => disk[n].plan.height >= disk[n].height
  /\ proc[n] = "open" /\ work[n].plan # NoPlan => work[n].plan.height > NextHeight(n)

LEMMA BeginBlockPlan ==
  ASSUME NEW s \in States, NEW h \in Nat, NEW k,
         UpgradeBeginBlock(s, h, k).plan # NoPlan
  PROVE  UpgradeBeginBlock(s, h, k).plan.height > h
  <1>1. CASE MustUpgrade(s, h, k)
    <2>1. MigrateParams(s) \in States
      BY DEF MigrateParams, States
    <2>2. AddLocalhostIBCClient(MigrateParams(s)) \in States
      BY <2>1 DEF AddLocalhostIBCClient, States
    <2>3. V2Handler(s) \in States
      BY <2>2 DEF V2Handler, RunMigrations, States, Binaries
    <2>4. ApplyUpgrade(s, h).plan = NoPlan
      BY <2>3 DEF ApplyUpgrade, States
    <2>. QED
      BY <1>1, <2>4 DEF UpgradeBeginBlock
  <1>2. CASE ~MustUpgrade(s, h, k) /\ ShouldExecute(s, h)
    BY <1>2 DEF UpgradeBeginBlock, States
  <1>3. CASE ~MustUpgrade(s, h, k) /\ ~ShouldExecute(s, h)
    <2>1. UpgradeBeginBlock(s, h, k) = s
      BY <1>3 DEF UpgradeBeginBlock
    <2>2. s.plan.height \in Nat
      BY PlansAreRecords DEF States
    <2>. QED
      BY <1>3, <2>1, <2>2 DEF ShouldExecute
  <1>. QED
    BY <1>1, <1>2, <1>3

LEMMA EndBlockPlan ==
  ASSUME NEW s \in States, NEW tx \in TxTypes, NEW h \in Nat,
         s.plan # NoPlan => s.plan.height > h,
         [EndBlock(s, tx, h) EXCEPT !.height = h].plan # NoPlan
  PROVE  [EndBlock(s, tx, h) EXCEPT !.height = h].plan.height >= h
  <1>. DEFINE e == EndBlock(s, tx, h)
  <1>0. s.plan.height \in Nat
    BY PlansAreRecords DEF States
  <1>1. e = s \/ e = CancelUpgrade(s) \/ e = ScheduleUpgrade(s, tx.plan, h)
    BY DEF EndBlock
  <1>2. CASE e = s
    BY <1>0, <1>2 DEF States
  <1>3. CASE e = CancelUpgrade(s)
    BY <1>3 DEF CancelUpgrade, States
  <1>4. CASE e = ScheduleUpgrade(s, tx.plan, h) /\ e # s
    <2>1. e = [s EXCEPT !.plan = tx.plan] /\ ~ (tx.plan.height < h)
      BY <1>4 DEF ScheduleUpgrade
    <2>2. tx.plan.height \in Nat
      <3>1. tx.plan \in Plans \cup {NoPlan}
        BY DEF TxTypes
      <3>. QED
        BY <3>1, PlansAreRecords
    <2>. QED
      BY <2>1, <2>2 DEF States
  <1>. QED
    BY <1>1, <1>2, <1>3, <1>4

LEMMA PlanNext ==
  ASSUME TypeInv, \A m \in Nodes : PlanInv(m), [Next]_vars, NEW n \in Nodes
  PROVE  PlanInv(n)'
  <1>. USE DEF TypeInv, TypeOK
  <1>1. /\ PlanInv(n) /\ work[n] \in States /\ disk[n] \in States
        /\ NextHeight(n) \in Nat
    BY DEF NextHeight, States
  <1>2. CASE BeginBlock(n)
    BY <1>1, <1>2, BeginBlockPlan DEF BeginBlock, PlanInv, NextHeight
  <1>3. CASE Commit(n)
    <2>1. chain[NextHeight(n)].tx \in TxTypes
      <3>1. NextHeight(n) \in 1..Len(chain)
        BY <1>1, <1>3 DEF OpenBlockDecided, Commit, NextHeight, States
      <3>2. chain[NextHeight(n)] \in Blocks
        BY <3>1
      <3>. QED
        BY <3>2 DEF Blocks
    <2>2. /\ proc[n] = "open" /\ proc'[n] = "idle"
          /\ disk'[n] = [EndBlock(work[n], chain[NextHeight(n)].tx, NextHeight(n))
                            EXCEPT !.height = NextHeight(n)]
      BY <1>3 DEF Commit
    <2>3. disk'[n].height = NextHeight(n)
      BY <1>1, <2>1, <2>2, EndBlockKeeps
    <2>4. disk'[n].plan # NoPlan => disk'[n].plan.height >= NextHeight(n)
      BY <1>1, <2>1, <2>2, EndBlockPlan DEF PlanInv
    <2>. QED
      BY <2>2, <2>3, <2>4 DEF PlanInv
  <1>4. CASE \E peer \in Nodes : StateSync(n, peer)
    BY <1>4 DEF StateSync, PlanInv
  <1>5. CASE ~BeginBlock(n) /\ ~Commit(n) /\ ~ \E peer \in Nodes : StateSync(n, peer)
    <2>1. /\ disk'[n] = disk[n]
          /\ proc'[n] = "open" => proc[n] = "open" /\ work'[n] = work[n]
      BY <1>5 DEF Next, vars, Decide, Boot, BeginBlock, BeginBlockPanic, Commit, Crash,
                  InstallUpgrade, RevertBinary, SkipUnknown, InstallAnyTime,
                  SkipKnown, StateSync
    <2>. QED
      BY <1>1, <2>1 DEF PlanInv, NextHeight
  <1>. QED
    BY <1>2, <1>3, <1>4, <1>5

(* A plan that is due is applied or cleared in that block: no node commits *)
(* a later block with the plan still pending.                              *)
THEOREM SpecNoDuePlanOutlivesItsBlock == Spec => []NoDuePlanOutlivesItsBlock
  <1>1. Init => \A n \in Nodes : PlanInv(n)
    BY DEF Init, PlanInv, GenesisState
  <1>2. TypeInv /\ (\A n \in Nodes : PlanInv(n)) /\ [Next]_vars
          => (\A n \in Nodes : PlanInv(n))'
    BY PlanNext
  <1>3. (\A n \in Nodes : PlanInv(n)) => NoDuePlanOutlivesItsBlock
    BY DEF PlanInv, NoDuePlanOutlivesItsBlock
  <1>. QED
    BY <1>1, <1>2, <1>3, TypeCorrect, PTL DEF Spec

---------------------------------------------------------------------------
(* UpgradeChain implements AbstractUpgrade: the initial states are         *)
(* initial, Decide, Commit and StateSync are steps of the abstract         *)
(* specification, and every other action changes nothing it speaks of.     *)
(* Commit writes what BeginBlock prepared some steps earlier; OpenInv      *)
(* keeps the connection between the two.                                   *)
(*                                                                         *)
(* Agreement and UpgradeWasDue of UpgradeChain follow: a block can end in  *)
(* two states only, and both depend on the block alone.                    *)

(* Within a block, the block was decided on top of the database, and the   *)
(* memory is what a block may start with.                                  *)
OpenInv(n) ==
  proc[n] = "open" =>
    /\ chain[NextHeight(n)].app = disk[n]
    /\ work[n].height = disk[n].height
    /\ LedgerOf(work[n]) \in Abstract!Starts(LedgerOf(disk[n]))

RefinementInv == TypeInv /\ UpgradeInv /\ \A n \in Nodes : OpenInv(n)

---------------------------------------------------------------------------
(* Ledgers                                                                 *)

LEMMA OldNotNew ==
  ASSUME NEW s, WhollyNew(s) PROVE ~WhollyOld(s)
  BY DEF WhollyNew, WhollyOld

(* The era depends on neither the plan nor the height.                     *)
LEMMA EraOfPlan ==
  ASSUME NEW s \in States, NEW p, NEW h
  PROVE  /\ Era([s EXCEPT !.plan = p]) = Era(s)
         /\ Era([s EXCEPT !.height = h]) = Era(s)
  BY DEF Era, WhollyOld, WhollyNew, States

LEMMA LedgerOfFields ==
  ASSUME NEW s
  PROVE  /\ LedgerOf(s).height = s.height
         /\ LedgerOf(s).era = Era(s)
         /\ LedgerOf(s).plan = s.plan
  BY DEF LedgerOf

LEMMA DueIsShouldExecute ==
  ASSUME NEW s \in States
  PROVE  Abstract!Due(LedgerOf(s)) <=> ShouldExecute(s, s.height + 1)
  BY LedgerOfFields DEF Abstract!Due, ShouldExecute

(* An applied upgrade clears the plan and leaves the height alone.         *)
LEMMA AppliedFields ==
  ASSUME NEW s \in States, NEW h \in Nat
  PROVE  ApplyUpgrade(s, h).plan = NoPlan /\ ApplyUpgrade(s, h).height = s.height
  <1>1. MigrateParams(s) \in States /\ MigrateParams(s).height = s.height
    BY DEF MigrateParams, States
  <1>. DEFINE q == AddLocalhostIBCClient(MigrateParams(s))
  <1>2. q \in States /\ q.height = s.height
    BY <1>1 DEF AddLocalhostIBCClient, States
  <1>3. V2Handler(s) \in States /\ V2Handler(s).height = s.height
    BY <1>2 DEF V2Handler, RunMigrations, States, Binaries
  <1>. QED
    BY <1>3 DEF ApplyUpgrade, States

(* A begin blocker that does not panic prepares what a block may start     *)
(* with, whatever the store loader left in memory.                         *)
LEMMA BeginBlockStarts ==
  ASSUME UpgradeInv, NEW n \in Nodes, BeginBlock(n)
  PROVE  /\ work'[n].height = disk[n].height
         /\ LedgerOf(work'[n]) \in Abstract!Starts(LedgerOf(disk[n]))
  <1>. DEFINE s == disk[n]
              w == work[n]
              h == NextHeight(n)
              r == UpgradeBeginBlock(w, h, skip[n])
              l == LedgerOf(s)
  <1>. USE DEF UpgradeInv, TypeOK
  <1>1. /\ s \in States /\ w \in States /\ h \in Nat /\ h = s.height + 1
        /\ NodeInv(n) /\ binary[n] \in Binaries
    BY DEF NextHeight, States
  <1>2. /\ work'[n] = r /\ proc[n] = "idle" /\ proc'[n] = "open"
        /\ binary'[n] = binary[n]
        /\ ~BeginBlockPanics(binary[n], w, h, skip[n])
    BY DEF BeginBlock, HasBlock
  <1>3. /\ w.plan = s.plan /\ w.height = s.height
    BY <1>1, <1>2 DEF NodeInv, WorkIdle, States
  <1>4. MustUpgrade(w, h, skip[n]) => binary[n] = "v2" /\ s.plan.name = UpgradeName
    BY <1>2, <1>3 DEF BeginBlockPanics, UpgradeNeeded, HasHandler
  <1>5. Abstract!Due(l) <=> ShouldExecute(w, h)
    BY <1>1, <1>3, DueIsShouldExecute DEF ShouldExecute
  <1>6. CASE MustUpgrade(w, h, skip[n])
    <2>1. r = ApplyUpgrade(w, h)
      BY <1>6 DEF UpgradeBeginBlock
    <2>2. r.plan = NoPlan /\ r.height = s.height
      BY <1>1, <1>3, <2>1, AppliedFields
    <2>3. WorkOpen(n)'
      BY BeginBlockKeeps DEF NodeInv
    <2>4. Upgraded(r)
      BY <1>2, <1>4, <1>6, <2>3 DEF WorkOpen
    <2>5. Era(r) = "new"
      BY <2>4, OldNotNew DEF Upgraded, Era
    <2>6. LedgerOf(r) = [height |-> l.height, era |-> "new", plan |-> NoPlan]
      BY <2>2, <2>5 DEF LedgerOf
    <2>7. Abstract!Due(l) /\ "new" \in Abstract!Eras(l)
      BY <1>4, <1>5, <1>6 DEF MustUpgrade, LedgerOf, Abstract!Eras
    <2>. QED
      BY <1>2, <2>2, <2>6, <2>7 DEF Abstract!Starts
  <1>7. CASE ~MustUpgrade(w, h, skip[n])
    <2>1. w = s
      <3>1. ~MustUpgrade(s, h, skip[n])
        BY <1>3, <1>7 DEF MustUpgrade, ShouldExecute
      <3>. QED
        BY <1>1, <1>2, <3>1 DEF NodeInv, WorkIdle
    <2>2. CASE ShouldExecute(w, h)
      <3>1. r = [s EXCEPT !.plan = NoPlan]
        BY <1>7, <2>1, <2>2 DEF UpgradeBeginBlock
      <3>2. r.height = s.height /\ r.plan = NoPlan /\ Era(r) = Era(s)
        BY <1>1, <3>1, EraOfPlan DEF States
      <3>3. LedgerOf(r) = [height |-> l.height, era |-> l.era, plan |-> NoPlan]
        BY <3>2 DEF LedgerOf
      <3>4. Abstract!Due(l) /\ l.era \in Abstract!Eras(l)
        BY <1>5, <2>2 DEF Abstract!Eras
      <3>. QED
        BY <1>2, <3>2, <3>3, <3>4 DEF Abstract!Starts
    <2>3. CASE ~ShouldExecute(w, h)
      <3>1. r = s
        BY <1>7, <2>1, <2>3 DEF UpgradeBeginBlock
      <3>. QED
        BY <1>2, <1>5, <2>3, <3>1 DEF Abstract!Starts
    <2>. QED
      BY <2>2, <2>3
  <1>. QED
    BY <1>6, <1>7

(* The rest of a block does to the ledger what After says.                 *)
LEMMA EndBlockIsAfter ==
  ASSUME NEW s \in States, WhollyOld(s) \/ Upgraded(s), NEW tx \in TxTypes
  PROVE  LET h == s.height + 1
         IN  LedgerOf([EndBlock(s, tx, h) EXCEPT !.height = h])
               = Abstract!After(LedgerOf(s), tx)
  <1>. DEFINE h == s.height + 1
              e == EndBlock(s, tx, h)
              r == [e EXCEPT !.height = h]
              l == LedgerOf(s)
  <1>1. s.height \in Nat /\ h \in Nat
    BY DEF States
  <1>2. Era(r) = Era(s)
    BY <1>1, EndBlockKeeps, OldNotNew DEF Era, Upgraded
  <1>3. l.era = "new" <=> s.done # 0
    BY LedgerOfFields, OldNotNew DEF Era, Upgraded, WhollyOld, WhollyNew
  <1>4. r.height = h
    BY <1>1, EndBlockKeeps
  <1>5. r.plan = Abstract!Pending(l, tx)
    <2>1. e.plan = Abstract!Pending(l, tx)
      <3>1. CASE tx.kind = "schedule"
        BY <1>3, <3>1, LedgerOfFields
           DEF EndBlock, ScheduleUpgrade, Abstract!Pending, Abstract!Refused, States
      <3>2. CASE tx.kind = "cancel"
        BY <3>2 DEF EndBlock, CancelUpgrade, Abstract!Pending, States
      <3>3. CASE tx.kind \notin {"schedule", "cancel"}
        BY <3>3, LedgerOfFields DEF EndBlock, Abstract!Pending
      <3>. QED
        BY <3>1, <3>2, <3>3
    <2>2. e \in States
      <3>1. CASE tx.kind = "schedule"
        BY <3>1 DEF EndBlock, ScheduleUpgrade, States, TxTypes
      <3>2. CASE tx.kind = "cancel"
        BY <3>2 DEF EndBlock, CancelUpgrade, States
      <3>3. CASE tx.kind \notin {"schedule", "cancel"}
        BY <3>3 DEF EndBlock
      <3>. QED
        BY <3>1, <3>2, <3>3
    <2>. QED
      BY <2>1, <2>2 DEF States
  <1>. QED
    BY <1>2, <1>4, <1>5, LedgerOfFields DEF LedgerOf, Abstract!After

---------------------------------------------------------------------------
(* The invariant                                                           *)

LEMMA RefinementInit == Init => RefinementInv
  <1>1. Init => \A n \in Nodes : OpenInv(n)
    BY DEF Init, OpenInv
  <1>. QED
    BY <1>1, TypeInit, UpgradeInit DEF RefinementInv

(* Deciding a block changes no block decided before.                       *)
LEMMA DecideKeepsBlocks ==
  ASSUME TypeInv, NEW tx \in Txs, Decide(tx), NEW i \in 1..Len(chain)
  PROVE  i \in 1..Len(chain') /\ chain'[i] = chain[i]
  <1>. USE DEF TypeInv, TypeOK
  <1>1. PICK b : chain' = Append(chain, b)
    BY DEF Decide
  <1>. QED
    BY <1>1

LEMMA OpenInvNext ==
  ASSUME RefinementInv, [Next]_vars, NEW n \in Nodes
  PROVE  OpenInv(n)'
  <1>. USE DEF RefinementInv, TypeInv, TypeOK
  <1>1. OpenInv(n) /\ NextHeight(n) \in Nat \ {0}
    BY DEF NextHeight, States
  <1>2. ASSUME NEW tx \in Txs, Decide(tx) PROVE OpenInv(n)'
    <2>1. /\ proc'[n] = proc[n] /\ disk'[n] = disk[n] /\ work'[n] = work[n]
      BY <1>2 DEF Decide
    <2>2. CASE proc[n] = "open"
      <3>1. NextHeight(n) \in 1..Len(chain)
        BY <1>1, <2>2 DEF OpenBlockDecided
      <3>2. chain'[NextHeight(n)] = chain[NextHeight(n)]
        BY <1>2, <3>1, DecideKeepsBlocks
      <3>. QED
        BY <1>1, <2>1, <3>2 DEF OpenInv, NextHeight
    <2>3. CASE proc[n] # "open"
      BY <2>1, <2>3 DEF OpenInv
    <2>. QED
      BY <2>2, <2>3
  <1>3. CASE BeginBlock(n)
    <2>1. /\ work'[n].height = disk[n].height
          /\ LedgerOf(work'[n]) \in Abstract!Starts(LedgerOf(disk[n]))
      BY <1>3, BeginBlockStarts
    <2>2. /\ disk'[n] = disk[n] /\ chain' = chain
          /\ chain[NextHeight(n)].app = disk[n]
      BY <1>3 DEF BeginBlock, HasBlock
    <2>. QED
      BY <2>1, <2>2 DEF OpenInv, NextHeight
  <1>4. CASE ~BeginBlock(n) /\ ~ \E tx \in Txs : Decide(tx)
    <2>1. proc'[n] = "open" =>
            proc[n] = "open" /\ work'[n] = work[n] /\ disk'[n] = disk[n] /\ chain' = chain
      BY <1>4 DEF Next, vars, Boot, BeginBlock, BeginBlockPanic, Commit, Crash,
                  InstallUpgrade, RevertBinary, SkipUnknown, InstallAnyTime,
                  SkipKnown, StateSync
    <2>. QED
      BY <1>1, <2>1 DEF OpenInv, NextHeight
  <1>. QED
    BY <1>2, <1>3, <1>4

THEOREM RefinementInvariant == Spec => []RefinementInv
  <1>1. RefinementInv /\ [Next]_vars => RefinementInv'
    BY TypeNext, OpenBlockNext, UpgradeNext, OpenInvNext
       DEF RefinementInv, TypeInv, UpgradeInv
  <1>. QED
    BY RefinementInit, <1>1, PTL DEF Spec

---------------------------------------------------------------------------
(* The steps                                                               *)

LEMMA LogBarIsSeq ==
  ASSUME TypeInv
  PROVE  /\ LogBar \in Seq({LogBar[i] : i \in 1..Len(chain)})
         /\ Len(LogBar) = Len(chain)
         /\ \A i \in 1..Len(chain) :
              LogBar[i] = [tx |-> chain[i].tx, ledger |-> LedgerOf(chain[i].app)]
  <1>. DEFINE S == {LogBar[i] : i \in 1..Len(chain)}
  <1>1. Len(chain) \in Nat /\ DOMAIN chain = 1..Len(chain)
    BY LenProperties DEF TypeInv, TypeOK
  <1>2. /\ LogBar \in [1..Len(chain) -> S]
        /\ \A i \in 1..Len(chain) :
             LogBar[i] = [tx |-> chain[i].tx, ledger |-> LedgerOf(chain[i].app)]
    BY <1>1, Zenon DEF LogBar
  <1>3. LogBar \in Seq(S)
    BY <1>1, <1>2, SeqDef
  <1>4. Len(LogBar) \in Nat /\ 1..Len(LogBar) = 1..Len(chain)
    BY <1>2, <1>3, LenProperties
  <1>5. Len(LogBar) = Len(chain)
    BY <1>1, <1>4
  <1>. QED
    BY <1>2, <1>3, <1>5

LEMMA CommitIsExecute ==
  ASSUME RefinementInv, NEW n \in Nodes, Commit(n)
  PROVE  Abstract!Execute(n)
  <1>. DEFINE s == disk[n]
              w == work[n]
              h == NextHeight(n)
              tx == chain[h].tx
              r == [EndBlock(w, tx, h) EXCEPT !.height = h]
  <1>. USE DEF RefinementInv, TypeInv, TypeOK
  <1>1. s \in States /\ w \in States /\ h \in Nat \ {0} /\ h = s.height + 1
    BY DEF NextHeight, States
  <1>2. /\ proc[n] = "open" /\ chain' = chain
        /\ disk' = [disk EXCEPT ![n] = r]
    BY DEF Commit
  <1>3. /\ chain[h].app = s
        /\ w.height = s.height
        /\ LedgerOf(w) \in Abstract!Starts(LedgerOf(s))
    BY <1>2 DEF OpenInv
  <1>4. h \in 1..Len(chain)
    <2>1. h <= Len(chain)
      BY <1>2 DEF OpenBlockDecided
    <2>. QED
      BY <1>1, <2>1
  <1>5. tx \in TxTypes
    <2>1. chain[h] \in Blocks
      BY <1>4
    <2>. QED
      BY <2>1 DEF Blocks
  <1>6. LedgerOf(r) = Abstract!After(LedgerOf(w), tx)
    <2>1. WhollyOld(w) \/ Upgraded(w)
      BY <1>2 DEF UpgradeInv, NodeInv, WorkOpen
    <2>. QED
      BY <1>1, <1>3, <1>5, <2>1, EndBlockIsAfter
  <1>7. /\ LedgerBar[n] = LedgerOf(s)
        /\ LedgerBar[n].height + 1 = h
    BY <1>1, LedgerOfFields DEF LedgerBar
  <1>8. /\ h <= Len(LogBar)
        /\ LogBar[h].ledger = LedgerBar[n]
        /\ LogBar[h].tx = tx
    <2>1. LogBar[h] = [tx |-> tx, ledger |-> LedgerOf(chain[h].app)]
      BY <1>4, LogBarIsSeq
    <2>2. h <= Len(LogBar)
      BY <1>4, LogBarIsSeq
    <2>. QED
      BY <1>3, <1>7, <2>1, <2>2
  <1>9. LedgerBar' = [LedgerBar EXCEPT ![n] = LedgerOf(r)]
    BY <1>2 DEF LedgerBar
  <1>10. LogBar' = LogBar
    BY <1>2 DEF LogBar
  <1>11. \E l \in Abstract!Starts(LedgerBar[n]) :
           LedgerBar' = [LedgerBar EXCEPT ![n] = Abstract!After(l, LogBar[h].tx)]
    BY <1>3, <1>6, <1>7, <1>8, <1>9
  <1>. QED
    BY <1>7, <1>8, <1>10, <1>11 DEF Abstract!Execute

LEMMA DecideIsDecide ==
  ASSUME RefinementInv, NEW tx \in Txs, Decide(tx)
  PROVE  Abstract!Decide(tx)
  <1>. USE DEF RefinementInv, TypeInv, TypeOK
  <1>1. PICK Q \in Quorums, s \in {disk[n] : n \in Nodes} :
          /\ s.height = Len(chain)
          /\ \A n \in Q : disk[n] = s
          /\ chain' = Append(chain, [tx |-> tx, app |-> s])
    BY DEF Decide
  <1>2. /\ Len(chain) < MaxHeight
        /\ LedgerBar' = LedgerBar
    BY DEF Decide, LedgerBar
  <1>3. /\ LedgerOf(s) \in {LedgerBar[n] : n \in Nodes}
        /\ \A n \in Q : LedgerBar[n] = LedgerOf(s)
    BY <1>1, QuorumAssumption DEF LedgerBar
  <1>4. LogBar' = Append(LogBar, [tx |-> tx, ledger |-> LedgerOf(s)])
    <2>. DEFINE b == [tx |-> tx, app |-> s]
                c == [tx |-> tx, ledger |-> LedgerOf(s)]
    <2>1. /\ DOMAIN chain' = 1..(Len(chain) + 1)
          /\ \A i \in 1..Len(chain) : chain'[i] = chain[i]
          /\ chain'[Len(chain) + 1] = b
      BY <1>1
    <2>2. LogBar' = [i \in 1..(Len(chain) + 1) |->
                       IF i <= Len(chain) THEN LogBar[i] ELSE c]
      BY <2>1, LogBarIsSeq DEF LogBar
    <2>. QED
      BY <2>2, LogBarIsSeq
  <1>. QED
    BY <1>1, <1>2, <1>3, <1>4, LogBarIsSeq, LedgerOfFields DEF Abstract!Decide

LEMMA StateSyncIsAdopt ==
  ASSUME TypeInv, NEW n \in Nodes, NEW peer \in Nodes, StateSync(n, peer)
  PROVE  Abstract!Adopt(n, peer)
  <1>1. LedgerBar' = [LedgerBar EXCEPT ![n] = LedgerBar[peer]]
    BY DEF StateSync, LedgerBar, TypeInv, TypeOK
  <1>2. LedgerBar[peer].height > LedgerBar[n].height
    BY LedgerOfFields DEF StateSync, LedgerBar
  <1>3. LogBar' = LogBar
    BY DEF StateSync, LogBar
  <1>. QED
    BY <1>1, <1>2, <1>3 DEF Abstract!Adopt

(* The network of processes, files, binaries and operators implements the  *)
(* atomic upgrade: no observer of the databases can tell them apart.       *)
THEOREM UpgradeRefinement == Spec => ImplementsAbstractUpgrade
  <1>1. Init => Abstract!Init
    <2>1. LedgerOf(GenesisState) = Abstract!Genesis
      BY DEF LedgerOf, Era, WhollyOld, GenesisState, Abstract!Genesis
    <2>. QED
      BY <2>1 DEF Init, Abstract!Init, LedgerBar, LogBar
  <1>2. RefinementInv /\ [Next]_vars => [Abstract!Next]_Abstract!vars
    <2>. SUFFICES ASSUME RefinementInv, [Next]_vars
                  PROVE  [Abstract!Next]_Abstract!vars
      OBVIOUS
    <2>1. ASSUME NEW tx \in Txs, Decide(tx) PROVE Abstract!Next
      BY <2>1, DecideIsDecide DEF Abstract!Next
    <2>2. ASSUME NEW n \in Nodes, Commit(n) PROVE Abstract!Next
      BY <2>2, CommitIsExecute DEF Abstract!Next
    <2>3. ASSUME NEW n \in Nodes, NEW peer \in Nodes, StateSync(n, peer)
          PROVE  Abstract!Next
      BY <2>3, StateSyncIsAdopt DEF Abstract!Next, RefinementInv
    <2>4. ASSUME UNCHANGED <<disk, chain>> PROVE UNCHANGED Abstract!vars
      BY <2>4 DEF LedgerBar, LogBar, Abstract!vars
    <2>. QED
      BY <2>1, <2>2, <2>3, <2>4
         DEF Next, vars, Boot, BeginBlock, BeginBlockPanic, Crash, InstallUpgrade,
             RevertBinary, SkipUnknown, InstallAnyTime, SkipKnown
  <1>. QED
    BY <1>1, <1>2, RefinementInvariant, PTL DEF Spec, ImplementsAbstractUpgrade, Abstract!Spec

---------------------------------------------------------------------------
(* Agreement                                                               *)
(*                                                                         *)
(* A block can end in two states only, one that applied the upgrade and    *)
(* one that did not, and both depend on the block alone: not on the binary *)
(* that executed it, on upgrade-info.json, on how often the process was    *)
(* restarted, or on what the store loader left in memory.  HistoryInv says *)
(* that of every database, and that the height of an applied upgrade tells *)
(* the two apart.                                                          *)

(* A block h on top of s without the upgrade, and with it.                 *)
Kept(s, h) == IF ShouldExecute(s, h) THEN [s EXCEPT !.plan = NoPlan] ELSE s
Applied(s, h) == ApplyUpgrade([s EXCEPT !.stores = StoreKeys], h)
Started(s, h) == {Kept(s, h), Applied(s, h)}
Ended(s, tx, h) == {[EndBlock(x, tx, h) EXCEPT !.height = h] : x \in Started(s, h)}

(* Every block goes on top of a state of the height before it.             *)
ChainInv == \A i \in 1..Len(chain) :
  chain[i].app.height = i - 1 /\ chain[i].app.done < i

(* The database is the genesis or one of the two results of the block at   *)
(* its height; within a block, memory is one of the two beginnings.        *)
DiskHistory(n) ==
  LET h == disk[n].height
  IN  /\ h = 0 => disk[n] = GenesisState
      /\ h # 0 => h <= Len(chain) /\ disk[n] \in Ended(chain[h].app, chain[h].tx, h)
      /\ disk[n].done <= h
WorkHistory(n) ==
  proc[n] = "open" =>
    /\ work[n] \in Started(chain[NextHeight(n)].app, NextHeight(n))
    /\ work[n].done <= NextHeight(n)

HistoryInv == ChainInv /\ \A n \in Nodes : DiskHistory(n) /\ WorkHistory(n)

(* The upgrade a state remembers was due in the blocks of c, where the     *)
(* state says it was.                                                      *)
Deserved(s, c) ==
  s.done # 0 =>
    /\ s.done <= Len(c)
    /\ c[s.done].app.plan.name = UpgradeName
    /\ ShouldExecute(c[s.done].app, s.done)
DeservedInv == \A n \in Nodes :
  /\ Deserved(disk[n], chain)
  /\ proc[n] = "open" => Deserved(work[n], chain)

---------------------------------------------------------------------------
(* The two results                                                         *)

LEMMA StartedFields ==
  ASSUME NEW s \in States, NEW h \in Nat
  PROVE  /\ Kept(s, h) \in States /\ Kept(s, h).done = s.done
         /\ Applied(s, h) \in States /\ Applied(s, h).done = h
  <1>1. Kept(s, h) \in States /\ Kept(s, h).done = s.done
    BY DEF Kept, States
  <1>. DEFINE t == [s EXCEPT !.stores = StoreKeys]
  <1>2. t \in States
    BY DEF States
  <1>3. MigrateParams(t) \in States
    BY <1>2 DEF MigrateParams, States
  <1>4. AddLocalhostIBCClient(MigrateParams(t)) \in States
    BY <1>3 DEF AddLocalhostIBCClient, States
  <1>5. V2Handler(t) \in States
    BY <1>4 DEF V2Handler, RunMigrations, States, Binaries
  <1>6. Applied(s, h) \in States /\ Applied(s, h).done = h
    BY <1>5 DEF Applied, ApplyUpgrade, States
  <1>. QED
    BY <1>1, <1>6

(* The height of the applied upgrade tells the two results apart.          *)
LEMMA EndedFields ==
  ASSUME NEW s \in States, NEW tx \in TxTypes, NEW h \in Nat, s.done < h,
         NEW d \in Ended(s, tx, h), NEW e \in Ended(s, tx, h), d.done = e.done
  PROVE  d = e
  <1>. DEFINE End(x) == [EndBlock(x, tx, h) EXCEPT !.height = h]
  <1>1. PICK x \in Started(s, h), y \in Started(s, h) : d = End(x) /\ e = End(y)
    BY DEF Ended
  <1>2. /\ x \in {Kept(s, h), Applied(s, h)}
        /\ y \in {Kept(s, h), Applied(s, h)}
    BY DEF Started
  <1>3. x \in States /\ y \in States
    BY <1>2, StartedFields
  <1>4. d.done = x.done /\ e.done = y.done
    BY <1>1, <1>3, EndBlockKeeps
  <1>5. Kept(s, h).done # Applied(s, h).done
    BY StartedFields DEF States
  <1>6. x = y
    <2>1. x.done = y.done
      BY <1>4
    <2>2. CASE x = Kept(s, h) /\ y = Applied(s, h)
      BY <1>5, <2>1, <2>2
    <2>3. CASE x = Applied(s, h) /\ y = Kept(s, h)
      BY <1>5, <2>1, <2>3
    <2>. QED
      BY <1>2, <2>2, <2>3
  <1>. QED
    BY <1>1, <1>6

(* A block that begins without a panic begins in one of the two ways.      *)
LEMMA BeginBlockStarted ==
  ASSUME UpgradeInv, NEW n \in Nodes, BeginBlock(n)
  PROVE  LET s == disk[n]
             h == NextHeight(n)
         IN  \/ work'[n] = Kept(s, h)
             \/ /\ work'[n] = Applied(s, h)
                /\ ShouldExecute(s, h) /\ s.plan.name = UpgradeName
  <1>. DEFINE s == disk[n]
              w == work[n]
              h == NextHeight(n)
  <1>. USE DEF UpgradeInv, TypeOK
  <1>1. s \in States /\ NodeInv(n)
    OBVIOUS
  <1>2. /\ work'[n] = UpgradeBeginBlock(w, h, skip[n]) /\ proc[n] = "idle"
        /\ ~BeginBlockPanics(binary[n], w, h, skip[n])
    BY DEF BeginBlock, HasBlock
  <1>3. CASE w = s
    <2>1. ~MustUpgrade(s, h, skip[n])
      <3>1. SUFFICES ASSUME MustUpgrade(s, h, skip[n]) PROVE FALSE
        OBVIOUS
      <3>2. binary[n] = "v2" /\ s.plan.name = UpgradeName
        BY <1>2, <1>3, <3>1 DEF BeginBlockPanics, UpgradeNeeded, HasHandler
      <3>3. ~WhollyOld(s)
        BY <1>1, <1>2, <1>3, <3>2, StoresFact DEF NodeInv, WorkIdle, WhollyOld
      <3>. QED
        BY <1>1, <3>2, <3>3 DEF NodeInv, Committed, Upgraded
    <2>. QED
      BY <1>2, <1>3, <2>1 DEF UpgradeBeginBlock, Kept
  <1>4. CASE w # s
    <2>1. /\ w = [s EXCEPT !.stores = StoreKeys]
          /\ MustUpgrade(s, h, skip[n])
      BY <1>1, <1>2, <1>4 DEF NodeInv, WorkIdle
    <2>2. w.plan = s.plan
      BY <1>1, <2>1 DEF States
    <2>3. MustUpgrade(w, h, skip[n])
      BY <2>1, <2>2 DEF MustUpgrade, ShouldExecute
    <2>4. s.plan.name = UpgradeName
      BY <1>2, <2>2, <2>3 DEF BeginBlockPanics, UpgradeNeeded, HasHandler
    <2>5. work'[n] = Applied(s, h)
      BY <1>2, <2>1, <2>3 DEF UpgradeBeginBlock, Applied
    <2>. QED
      BY <2>1, <2>4, <2>5 DEF MustUpgrade
  <1>. QED
    BY <1>3, <1>4

---------------------------------------------------------------------------
(* What steps change                                                       *)

LEMMA ChainGrows ==
  ASSUME TypeInv, [Next]_vars, NEW i \in 1..Len(chain)
  PROVE  i \in 1..Len(chain') /\ chain'[i] = chain[i]
  <1>1. CASE \E tx \in Txs : Decide(tx)
    BY <1>1, DecideKeepsBlocks
  <1>2. CASE ~ \E tx \in Txs : Decide(tx)
    <2>1. chain' = chain
      BY <1>2 DEF Next, vars, Boot, BeginBlock, BeginBlockPanic, Commit, Crash,
                  InstallUpgrade, RevertBinary, SkipUnknown, InstallAnyTime,
                  SkipKnown, StateSync
    <2>. QED
      BY <2>1
  <1>. QED
    BY <1>1, <1>2

LEMMA DiskSteps ==
  ASSUME [Next]_vars, TypeOK, NEW n \in Nodes
  PROVE  \/ disk'[n] = disk[n]
         \/ Commit(n)
         \/ \E peer \in Nodes : StateSync(n, peer)
  BY DEF TypeOK, Next, vars, Decide, Boot, BeginBlock, BeginBlockPanic, Commit, Crash,
         InstallUpgrade, RevertBinary, SkipUnknown, InstallAnyTime,
         SkipKnown, StateSync

LEMMA WorkSteps ==
  ASSUME [Next]_vars, TypeOK, NEW n \in Nodes, proc'[n] = "open"
  PROVE  \/ BeginBlock(n)
         \/ proc[n] = "open" /\ work'[n] = work[n] /\ disk'[n] = disk[n]
  BY DEF TypeOK, Next, vars, Decide, Boot, BeginBlock, BeginBlockPanic, Commit, Crash,
         InstallUpgrade, RevertBinary, SkipUnknown, InstallAnyTime,
         SkipKnown, StateSync

(* What a commit writes: the rest of the decided block, on memory.         *)
LEMMA CommitWrites ==
  ASSUME TypeInv, NEW n \in Nodes, Commit(n)
  PROVE  LET h == NextHeight(n)
             b == chain[h]
         IN  /\ proc[n] = "open" /\ work[n] \in States
             /\ h \in 1..Len(chain) /\ h \in Nat
             /\ b.tx \in TxTypes /\ b.app \in States
             /\ disk'[n] = [EndBlock(work[n], b.tx, h) EXCEPT !.height = h]
             /\ disk'[n].height = h /\ disk'[n].done = work[n].done
  <1>. DEFINE h == NextHeight(n)
  <1>. USE DEF TypeInv, TypeOK
  <1>1. proc[n] = "open" /\ work[n] \in States /\ h \in Nat \ {0}
    BY DEF Commit, NextHeight, States
  <1>2. h \in 1..Len(chain)
    <2>1. h <= Len(chain)
      BY <1>1 DEF OpenBlockDecided
    <2>. QED
      BY <1>1, <2>1
  <1>3. chain[h].tx \in TxTypes /\ chain[h].app \in States
    <2>1. chain[h] \in Blocks
      BY <1>2
    <2>. QED
      BY <2>1 DEF Blocks
  <1>4. disk'[n] = [EndBlock(work[n], chain[h].tx, h) EXCEPT !.height = h]
    BY DEF Commit
  <1>. QED
    BY <1>1, <1>2, <1>3, <1>4, EndBlockKeeps

---------------------------------------------------------------------------
(* The history                                                             *)

LEMMA HistoryInit == Init => HistoryInv
  BY DEF Init, HistoryInv, ChainInv, DiskHistory, WorkHistory, GenesisState

LEMMA ChainInvNext ==
  ASSUME TypeInv, HistoryInv, [Next]_vars
  PROVE  ChainInv'
  <1>. USE DEF TypeInv, TypeOK
  <1>1. ASSUME NEW tx \in Txs, Decide(tx) PROVE ChainInv'
    <2>1. PICK n \in Nodes :
            /\ disk[n].height = Len(chain)
            /\ chain' = Append(chain, [tx |-> tx, app |-> disk[n]])
      BY <1>1 DEF Decide
    <2>2. disk[n].done <= Len(chain)
      BY <2>1 DEF HistoryInv, DiskHistory
    <2>3. disk[n].done \in Nat /\ Len(chain) \in Nat
      BY DEF States
    <2>4. ASSUME NEW i \in 1..Len(chain')
          PROVE  chain'[i].app.height = i - 1 /\ chain'[i].app.done < i
      <3>1. CASE i \in 1..Len(chain)
        BY <2>1, <3>1 DEF HistoryInv, ChainInv
      <3>2. CASE i = Len(chain) + 1
        BY <2>1, <2>2, <2>3, <3>2
      <3>. QED
        BY <2>1, <2>3, <3>1, <3>2
    <2>. QED
      BY <2>4 DEF ChainInv
  <1>2. CASE ~ \E tx \in Txs : Decide(tx)
    <2>1. chain' = chain
      BY <1>2 DEF Next, vars, Boot, BeginBlock, BeginBlockPanic, Commit, Crash,
                  InstallUpgrade, RevertBinary, SkipUnknown, InstallAnyTime,
                  SkipKnown, StateSync
    <2>. QED
      BY <2>1 DEF HistoryInv, ChainInv
  <1>. QED
    BY <1>1, <1>2

LEMMA DiskHistoryNext ==
  ASSUME RefinementInv, HistoryInv, [Next]_vars, NEW n \in Nodes
  PROVE  DiskHistory(n)'
  <1>. USE DEF RefinementInv, TypeInv, TypeOK, HistoryInv
  <1>1. ASSUME NEW m \in Nodes, disk'[n] = disk[m] PROVE DiskHistory(n)'
    <2>. DEFINE h == disk[m].height
    <2>1. h \in Nat /\ DiskHistory(m)
      BY DEF States
    <2>2. CASE h = 0
      BY <1>1, <2>1, <2>2 DEF DiskHistory
    <2>3. CASE h # 0
      <3>1. h \in 1..Len(chain)
        BY <2>1, <2>3 DEF DiskHistory
      <3>2. h \in 1..Len(chain') /\ chain'[h] = chain[h]
        BY <3>1, ChainGrows
      <3>. QED
        BY <1>1, <2>1, <2>3, <3>2 DEF DiskHistory
    <2>. QED
      BY <2>2, <2>3
  <1>2. CASE Commit(n)
    <2>. DEFINE h == NextHeight(n)
                b == chain[h]
    <2>1. /\ proc[n] = "open"
          /\ h \in 1..Len(chain) /\ h \in Nat
          /\ disk'[n] = [EndBlock(work[n], b.tx, h) EXCEPT !.height = h]
          /\ disk'[n].height = h /\ disk'[n].done = work[n].done
      BY <1>2, CommitWrites
    <2>2. work[n] \in Started(b.app, h) /\ work[n].done <= h
      BY <2>1 DEF WorkHistory
    <2>3. disk'[n] \in Ended(b.app, b.tx, h)
      BY <2>1, <2>2 DEF Ended
    <2>4. chain' = chain
      BY <1>2 DEF Commit
    <2>. QED
      BY <2>1, <2>2, <2>3, <2>4 DEF DiskHistory
  <1>3. ASSUME NEW peer \in Nodes, StateSync(n, peer) PROVE DiskHistory(n)'
    BY <1>1, <1>3 DEF StateSync
  <1>. QED
    BY <1>1, <1>2, <1>3, DiskSteps

LEMMA WorkHistoryNext ==
  ASSUME RefinementInv, HistoryInv, [Next]_vars, NEW n \in Nodes
  PROVE  WorkHistory(n)'
  <1>. SUFFICES ASSUME proc'[n] = "open" PROVE WorkHistory(n)'
    BY DEF WorkHistory
  <1>. DEFINE h == NextHeight(n)
  <1>. USE DEF RefinementInv, TypeInv, TypeOK, HistoryInv
  <1>1. h \in Nat /\ disk[n] \in States /\ h = disk[n].height + 1
    BY DEF NextHeight, States
  <1>2. CASE BeginBlock(n)
    <2>1. /\ disk'[n] = disk[n] /\ chain' = chain /\ chain[h].app = disk[n]
      BY <1>2 DEF BeginBlock, HasBlock
    <2>2. work'[n] \in Started(disk[n], h)
      BY <1>2, BeginBlockStarted DEF Started
    <2>3. work'[n].done <= h
      <3>1. disk[n].done <= disk[n].height
        BY DEF DiskHistory
      <3>2. disk[n].done <= h
        BY <1>1, <3>1 DEF States
      <3>3. work'[n].done \in {disk[n].done, h}
        <4>1. work'[n] = Kept(disk[n], h) \/ work'[n] = Applied(disk[n], h)
          BY <2>2 DEF Started
        <4>2. Kept(disk[n], h).done = disk[n].done /\ Applied(disk[n], h).done = h
          BY <1>1, StartedFields, Zenon
        <4>. QED
          BY <4>1, <4>2, Zenon
      <3>. QED
        BY <1>1, <3>2, <3>3
    <2>4. NextHeight(n)' = h
      BY <2>1 DEF NextHeight
    <2>. QED
      BY <2>1, <2>2, <2>3, <2>4 DEF WorkHistory
  <1>3. CASE proc[n] = "open" /\ work'[n] = work[n] /\ disk'[n] = disk[n]
    <2>1. h \in 1..Len(chain)
      <3>1. h <= Len(chain) /\ h # 0
        BY <1>1, <1>3 DEF OpenBlockDecided, States
      <3>. QED
        BY <1>1, <3>1
    <2>2. chain'[h] = chain[h]
      BY <2>1, ChainGrows
    <2>3. NextHeight(n)' = h
      BY <1>3 DEF NextHeight
    <2>. QED
      BY <1>3, <2>2, <2>3 DEF WorkHistory
  <1>. QED
    BY <1>2, <1>3, WorkSteps

THEOREM HistoryInvariant == Spec => []HistoryInv
  <1>1. RefinementInv /\ HistoryInv /\ [Next]_vars => HistoryInv'
    BY ChainInvNext, DiskHistoryNext, WorkHistoryNext DEF HistoryInv, RefinementInv
  <1>. QED
    BY HistoryInit, RefinementInvariant, <1>1, PTL DEF Spec

(* Nodes at the same height that agree on when the upgrade was applied     *)
(* agree on everything.                                                    *)
THEOREM SpecAgreement == Spec => []Agreement
  <1>1. TypeInv /\ HistoryInv => Agreement
    <2>. SUFFICES ASSUME TypeInv, HistoryInv, NEW m \in Nodes, NEW n \in Nodes,
                         disk[m].height = disk[n].height, disk[m].done = disk[n].done
                  PROVE  disk[m] = disk[n]
      BY DEF Agreement
    <2>. DEFINE h == disk[n].height
    <2>. USE DEF TypeInv, TypeOK, HistoryInv
    <2>1. DiskHistory(m) /\ DiskHistory(n) /\ h \in Nat
      BY DEF States
    <2>2. CASE h = 0
      BY <2>1, <2>2 DEF DiskHistory
    <2>3. CASE h # 0
      <3>1. h \in 1..Len(chain)
        BY <2>1, <2>3 DEF DiskHistory
      <3>2. chain[h].tx \in TxTypes /\ chain[h].app \in States
        <4>1. chain[h] \in Blocks
          BY <3>1
        <4>. QED
          BY <4>1 DEF Blocks
      <3>3. chain[h].app.done < h
        BY <3>1 DEF ChainInv
      <3>4. /\ disk[m] \in Ended(chain[h].app, chain[h].tx, h)
            /\ disk[n] \in Ended(chain[h].app, chain[h].tx, h)
        BY <2>1, <2>3 DEF DiskHistory
      <3>. QED
        BY <2>1, <3>2, <3>3, <3>4, EndedFields
    <2>. QED
      BY <2>2, <2>3
  <1>. QED
    BY <1>1, TypeCorrect, HistoryInvariant, PTL

---------------------------------------------------------------------------
(* The upgrade was due                                                     *)

LEMMA DeservedGrows ==
  ASSUME TypeInv, [Next]_vars, NEW s \in States, Deserved(s, chain)
  PROVE  Deserved(s, chain')
  <1>. SUFFICES ASSUME s.done # 0 PROVE Deserved(s, chain')
    BY DEF Deserved
  <1>. USE DEF TypeInv, TypeOK
  <1>1. s.done \in 1..Len(chain)
    BY DEF Deserved, States
  <1>2. s.done \in 1..Len(chain') /\ chain'[s.done] = chain[s.done]
    BY <1>1, ChainGrows
  <1>. QED
    BY <1>2 DEF Deserved

LEMMA DeservedNext ==
  ASSUME RefinementInv, HistoryInv, DeservedInv, [Next]_vars
  PROVE  DeservedInv'
  <1>. SUFFICES ASSUME NEW n \in Nodes
                PROVE  /\ Deserved(disk'[n], chain')
                       /\ proc'[n] = "open" => Deserved(work'[n], chain')
    BY DEF DeservedInv
  <1>. USE DEF RefinementInv, TypeInv, TypeOK
  <1>1. Deserved(disk'[n], chain')
    <2>1. ASSUME NEW m \in Nodes, disk'[n] = disk[m] PROVE Deserved(disk'[n], chain')
      BY <2>1, DeservedGrows DEF DeservedInv
    <2>2. CASE Commit(n)
      <3>1. proc[n] = "open" /\ work[n] \in States /\ disk'[n].done = work[n].done
        BY <2>2, CommitWrites
      <3>2. Deserved(work[n], chain')
        BY <3>1, DeservedGrows DEF DeservedInv
      <3>. QED
        BY <3>1, <3>2 DEF Deserved
    <2>3. ASSUME NEW peer \in Nodes, StateSync(n, peer) PROVE Deserved(disk'[n], chain')
      BY <2>1, <2>3 DEF StateSync
    <2>. QED
      BY <2>1, <2>2, <2>3, DiskSteps
  <1>2. ASSUME proc'[n] = "open" PROVE Deserved(work'[n], chain')
    <2>. DEFINE s == disk[n]
                h == NextHeight(n)
    <2>1. CASE BeginBlock(n)
      <3>1. s \in States /\ h \in Nat
        BY DEF NextHeight, States
      <3>2. chain' = chain /\ chain[h].app = s /\ h <= Len(chain)
        BY <2>1 DEF BeginBlock, HasBlock
      <3>3. CASE work'[n] = Kept(s, h)
        <4>1. work'[n].done = s.done
          BY <3>1, <3>3, StartedFields
        <4>. QED
          BY <3>2, <4>1 DEF DeservedInv, Deserved
      <3>4. CASE work'[n] = Applied(s, h) /\ ShouldExecute(s, h) /\ s.plan.name = UpgradeName
        <4>1. work'[n].done = h
          <5>1. Applied(s, h).done = h
            BY <3>1, StartedFields
          <5>. QED
            BY <3>4, <5>1
        <4>. QED
          BY <3>2, <3>4, <4>1 DEF Deserved
      <3>. QED
        BY <2>1, <3>3, <3>4, BeginBlockStarted
    <2>2. CASE proc[n] = "open" /\ work'[n] = work[n]
      BY <2>2, DeservedGrows DEF DeservedInv
    <2>. QED
      BY <1>2, <2>1, <2>2, WorkSteps
  <1>. QED
    BY <1>1, <1>2

(* The upgrade was applied only where the agreed state had v2 due, although*)
(* upgrade-info.json is compared by height alone.                          *)
THEOREM SpecUpgradeWasDue == Spec => []UpgradeWasDue
  <1>1. Init => DeservedInv
    BY DEF Init, DeservedInv, Deserved, GenesisState
  <1>2. RefinementInv /\ HistoryInv /\ DeservedInv /\ [Next]_vars => DeservedInv'
    BY DeservedNext
  <1>3. DeservedInv => UpgradeWasDue
    BY DEF DeservedInv, Deserved, UpgradeWasDue
  <1>. QED
    BY <1>1, <1>2, <1>3, RefinementInvariant, HistoryInvariant, PTL DEF Spec
===========================================================================
