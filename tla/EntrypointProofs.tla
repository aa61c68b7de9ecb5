------------------------- MODULE EntrypointProofs -------------------------
(***************************************************************************)
(* TLAPS proofs about Entrypoint, for every lag, bound, set of modes, of   *)
(* downloads and of points at which a crash may strike.                    *)
(*                                                                         *)
(* Neither property is inductive: both speak of the moment the node starts *)
(* and depend on what the script did, command by command, since the        *)
(* container came up.  EntrypointInv says what each point of the script    *)
(* may rely on.                                                            *)
(***************************************************************************)
EXTENDS Entrypoint, TLAPS

Primed == {"tip", "hash", "enable", "servers", "height", "trust"}

(* What this run has fetched and written when it reaches a point.          *)
AnchorInv ==
  /\ pc \in Primed \ {"tip"} => height > TrustLag
  /\ pc \in Primed \ {"tip", "hash"} => hash = HashOf(height - TrustLag)
  /\ pc \in {"servers", "height", "trust"} => cfg.enable
  /\ pc \in {"height", "trust"} => cfg.servers
  /\ pc = "trust" => cfg.trustHeight = height - TrustLag
  /\ pc \in {"start", "running"} /\ cfg.enable =>
       /\ cfg.servers /\ height > TrustLag
       /\ cfg.trustHeight = height - TrustLag
       /\ hash = HashOf(height - TrustLag) /\ cfg.trustHash = hash

(* A chain state lies in a database, and auto mode primes without one only.*)
StateInv ==
  /\ synced => db
  /\ pc = "running" => db
  /\ pc \in Primed /\ mode = "auto" => ~db
  /\ pc = "start" /\ mode = "auto" /\ db => ~cfg.enable

EntrypointInv == TypeOK /\ AnchorInv /\ StateInv

---------------------------------------------------------------------------

LEMMA EntrypointInit == Init => EntrypointInv
  <1>. SUFFICES ASSUME Init PROVE EntrypointInv
    OBVIOUS
  <1>1. cfg \in [file : BOOLEAN, peers : BOOLEAN, enable : BOOLEAN,
                 servers : BOOLEAN, trustHeight : Nat, trustHash : Nat]
    BY DEF Init, NoConfig, NoHash
  <1>2. appEdited \in BOOLEAN /\ db \in BOOLEAN /\ synced \in BOOLEAN
    BY Zenon DEF Init
  <1>3. pc \in Points /\ genesis \in Genesis
    BY DEF Init, Points, Genesis
  <1>4. TypeOK
    BY <1>1, <1>2, <1>3 DEF Init, TypeOK, NoHash
  <1>5. AnchorInv /\ StateInv
    BY DEF Init, AnchorInv, StateInv, Primed
  <1>. QED
    BY <1>4, <1>5 DEF EntrypointInv

(* Steps outside the script: they only ever stop it, or touch the chain.   *)
LEMMA WorldKeeps ==
  ASSUME EntrypointInv, ChainGrows \/ Crash \/ StartContainer \/ UNCHANGED vars
  PROVE  EntrypointInv'
  <1>. USE NumberAssumption DEF EntrypointInv, TypeOK
  <1>1. CASE ChainGrows
    BY <1>1 DEF ChainGrows, volume, shell, AnchorInv, StateInv
  <1>2. CASE Crash
    BY <1>2 DEF Crash, volume, shell, AnchorInv, StateInv, Points, Primed
  <1>3. CASE StartContainer
    BY <1>3 DEF StartContainer, Goto, volume, NoHash, AnchorInv, StateInv, Points, Primed
  <1>4. CASE UNCHANGED vars
    BY <1>4 DEF vars, AnchorInv, StateInv
  <1>. QED
    BY <1>1, <1>2, <1>3, <1>4

(* The first boot leaves no anchor behind that a later point relies on.    *)
LEMMA FirstBootKeeps ==
  ASSUME EntrypointInv, FirstBootGuard \/ FirstBoot
  PROVE  EntrypointInv'
  <1>. USE DEF EntrypointInv, TypeOK, Goto, Exit, volume, shell, Points, Genesis, Primed
  <1>1. CASE FirstBootGuard
    BY <1>1 DEF FirstBootGuard, AnchorInv, StateInv
  <1>2. CASE InitConfig
    BY <1>2 DEF InitConfig, NoConfig, NoHash, AnchorInv, StateInv
  <1>3. CASE InitGenesis
    BY <1>3 DEF InitGenesis, AnchorInv, StateInv
  <1>4. CASE EditConfig
    BY <1>4 DEF EditConfig, AnchorInv, StateInv
  <1>5. CASE EditApp
    BY <1>5 DEF EditApp, AnchorInv, StateInv
  <1>6. CASE FetchGenesis
    <2>1. genesis' \in Genesis
      BY <1>6, DownloadsAssumption DEF FetchGenesis
    <2>2. pc' \in {"verify", "down"} /\ UNCHANGED <<mode, cfg, appEdited, db, synced, shell, tip, crashes>>
      BY <1>6 DEF FetchGenesis
    <2>. QED
      BY <2>1, <2>2 DEF AnchorInv, StateInv
  <1>7. CASE VerifyGenesis
    BY <1>7 DEF VerifyGenesis, AnchorInv, StateInv
  <1>. QED
    BY <1>1, <1>2, <1>3, <1>4, <1>5, <1>6, <1>7 DEF FirstBoot

(* The commands of every boot.                                             *)
LEMMA PrimeKeeps ==
  ASSUME EntrypointInv, DecideSync \/ Prime \/ DisableSync
  PROVE  EntrypointInv'
  <1>. USE NumberAssumption
       DEF EntrypointInv, TypeOK, Goto, Exit, volume, shell, Points, Primed, HashOf
  <1>1. CASE DecideSync
    BY <1>1 DEF DecideSync, WantSync, AnchorInv, StateInv
  <1>2. CASE QueryTip
    BY <1>2 DEF QueryTip, AnchorInv, StateInv
  <1>3. CASE QueryHash
    BY <1>3 DEF QueryHash, AnchorInv, StateInv
  <1>4. CASE EditEnable
    BY <1>4 DEF EditEnable, AnchorInv, StateInv
  <1>5. CASE EditServers
    BY <1>5 DEF EditServers, AnchorInv, StateInv
  <1>6. CASE EditTrustHeight
    BY <1>6 DEF EditTrustHeight, AnchorInv, StateInv
  <1>7. CASE EditTrustHash
    BY <1>7 DEF EditTrustHash, AnchorInv, StateInv
  <1>8. CASE DisableSync
    BY <1>8 DEF DisableSync, Disabled, AnchorInv, StateInv
  <1>. QED
    BY <1>1, <1>2, <1>3, <1>4, <1>5, <1>6, <1>7, <1>8 DEF Prime

LEMMA NodeKeeps ==
  ASSUME EntrypointInv, StartNode \/ FinishStateSync
  PROVE  EntrypointInv'
  <1>. USE DEF EntrypointInv, TypeOK, Goto, Exit, shell, Points, Primed
  <1>1. CASE StartNode
    BY <1>1 DEF StartNode, AnchorInv, StateInv
  <1>2. CASE FinishStateSync
    BY <1>2 DEF FinishStateSync, AnchorInv, StateInv
  <1>. QED
    BY <1>1, <1>2

THEOREM EntrypointInvariant == Spec => []EntrypointInv
  <1>1. EntrypointInv /\ [Next]_vars => EntrypointInv'
    BY WorldKeeps, FirstBootKeeps, PrimeKeeps, NodeKeeps DEF Next, Script
  <1>. QED
    BY EntrypointInit, <1>1, PTL DEF Spec

(* Every variable keeps its type; in particular the trust height, a        *)
(* subtraction, never goes below zero.                                     *)
THEOREM EntrypointTypeOK == Spec => []TypeOK
  <1>1. EntrypointInv => TypeOK
    BY DEF EntrypointInv
  <1>. QED
    BY EntrypointInvariant, <1>1, PTL

(* A node that starts with state sync has an anchor this run fetched.      *)
THEOREM EntrypointAnchor == Spec => []AnchorIsOfThisRun
  <1>1. EntrypointInv => AnchorIsOfThisRun
    BY NumberAssumption DEF EntrypointInv, TypeOK, AnchorInv, AnchorIsOfThisRun, HashOf, NoHash
  <1>. QED
    BY EntrypointInvariant, <1>1, PTL

(* Auto mode never sends a node with a chain state back to state sync.     *)
THEOREM EntrypointAutoKeepsState == Spec => AutoKeepsState
  <1>1. EntrypointInv =>
          (pc = "start" /\ pc' = "running" /\ mode = "auto" /\ synced => ~cfg.enable)
    BY DEF EntrypointInv, StateInv
  <1>. QED
    BY EntrypointInvariant, <1>1, PTL DEF AutoKeepsState
===========================================================================
