---------------------------- MODULE Entrypoint ----------------------------
(***************************************************************************)
(* The container of a full node: docker/entrypoint.sh from a fresh volume  *)
(* to a running node, with the restarts of docker-compose.yml (restart:    *)
(* unless-stopped).  The script runs under set -e, so a failing command    *)
(* ends the container; the supervisor then starts it again on the volume   *)
(* the last run left.  A crash may strike between any two commands.        *)
(*                                                                         *)
(* The volume keeps config.toml, app.toml, genesis.json and the data       *)
(* directory.  The shell variables (HEIGHT, HASH) live for one run.        *)
(* What `Neutaro init` and `Neutaro start` do to the volume and what the   *)
(* RPC endpoints answer is outside the repository's script and is modelled *)
(* as the script relies on it.                                             *)
(*                                                                         *)
(* Definitions named X_Something are X with a plausible mistake, as in     *)
(* UpgradeHandler.                                                         *)
(***************************************************************************)
EXTENDS Naturals

CONSTANTS
  Modes,      \* values of STATESYNC the operator may start the container with
  Downloads,  \* outcomes of fetching the genesis
  CrashAt,    \* the points of the script at which a crash may strike
  TrustLag,   \* TRUST_LAG
  MaxTip,     \* bound: height of the chain the RPC endpoints serve
  MaxCrashes  \* bound: crashes

Points == {"down", "guard", "init", "initgen", "edit", "editapp", "fetch",
           "verify", "decide", "tip", "hash", "enable", "servers", "height",
           "trust", "disable", "start", "running"}
Genesis == {"none", "default", "official", "other", "partial"}

ASSUME ModesAssumption == Modes \subseteq {"auto", "on", "off"} /\ Modes # {}
ASSUME DownloadsAssumption == Downloads \subseteq {"official", "other", "partial", "none"}
ASSUME CrashAssumption == CrashAt \subseteq Points \ {"down"}
ASSUME NumberAssumption ==
  TrustLag \in Nat /\ MaxTip \in Nat /\ MaxCrashes \in Nat

(* A block hash tells its height apart; 0 stands for no hash.              *)
HashOf(h) == h
NoHash == 0

VARIABLES
  pc,       \* the next command of the script, "down" when no container runs
  mode,     \* STATESYNC of this container
  cfg,      \* config.toml: file there, peers set, [statesync] section
  appEdited,\* app.toml has the pruning and gas settings
  genesis,  \* the content of genesis.json
  db,       \* the directory data/state.db exists
  synced,   \* the data directory holds a chain state
  height,   \* HEIGHT of this run, 0 before it is read
  hash,     \* HASH of this run
  tip,      \* the height of the chain
  crashes

vars == <<pc, mode, cfg, appEdited, genesis, db, synced, height, hash, tip, crashes>>
volume == <<cfg, appEdited, genesis, db, synced>>
shell == <<height, hash>>

NoConfig ==
  [file |-> FALSE, peers |-> FALSE, enable |-> FALSE, servers |-> FALSE,
   trustHeight |-> 0, trustHash |-> NoHash]

Init ==
  /\ pc = "down"
  /\ mode \in Modes
  /\ cfg = NoConfig
  /\ appEdited = FALSE
  /\ genesis = "none"
  /\ db = FALSE /\ synced = FALSE
  /\ height = 0 /\ hash = NoHash
  /\ tip = 1 /\ crashes = 0

Goto(p) == pc' = p
(* A command fails under set -e, or the script exits.                      *)
Exit == pc' = "down"

---------------------------------------------------------------------------
(* First boot                                                              *)

(* The container starts; only a recreated one may have another STATESYNC.  *)
StartContainer ==
  /\ pc = "down"
  /\ Goto("guard")
  /\ mode' \in Modes
  /\ height' = 0 /\ hash' = NoHash
  /\ UNCHANGED <<volume, tip, crashes>>

(* if [ ! -f "$CFG" ]                                                      *)
FirstBootGuard ==
  /\ pc = "guard"
  /\ Goto(IF cfg.file THEN "decide" ELSE "init")
  /\ UNCHANGED <<mode, volume, shell, tip, crashes>>

(* Neutaro init writes the configuration files before anything else, then  *)
(* a default genesis.                                                      *)
InitConfig ==
  /\ pc = "init"
  /\ Goto("initgen")
  /\ cfg' = [NoConfig EXCEPT !.file = TRUE]
  /\ UNCHANGED <<mode, appEdited, genesis, db, synced, shell, tip, crashes>>

InitGenesis ==
  /\ pc = "initgen"
  /\ Goto("edit")
  /\ genesis' = "default"
  /\ UNCHANGED <<mode, cfg, appEdited, db, synced, shell, tip, crashes>>

EditConfig ==
  /\ pc = "edit"
  /\ Goto("editapp")
  /\ cfg' = [cfg EXCEPT !.peers = TRUE]
  /\ UNCHANGED <<mode, appEdited, genesis, db, synced, shell, tip, crashes>>

EditApp ==
  /\ pc = "editapp"
  /\ Goto("fetch")
  /\ appEdited' = TRUE
  /\ UNCHANGED <<mode, cfg, genesis, db, synced, shell, tip, crashes>>

(* curl -fsS -o writes into genesis.json itself.  An HTTP error leaves it  *)
(* alone ("none"), a broken transfer leaves a part; both end the script.   *)
FetchGenesis ==
  /\ pc = "fetch"
  /\ \E d \in Downloads :
       /\ genesis' = IF d = "none" THEN genesis ELSE d
       /\ IF d \in {"official", "other"} THEN Goto("verify") ELSE Exit
  /\ UNCHANGED <<mode, cfg, appEdited, db, synced, shell, tip, crashes>>

VerifyGenesis ==
  /\ pc = "verify"
  /\ IF genesis = "official" THEN Goto("decide") ELSE Exit
  /\ UNCHANGED <<mode, volume, shell, tip, crashes>>

---------------------------------------------------------------------------
(* Every boot                                                              *)

WantSync_AnyData(m, hasDB) == m \in {"on", "auto"}
WantSync_Inverted(m, hasDB) == m = "on" \/ (m = "auto" /\ hasDB)
WantSync(m, hasDB) == m = "on" \/ (m = "auto" /\ ~hasDB)

DecideSync ==
  /\ pc = "decide"
  /\ Goto(IF WantSync(mode, db) THEN "tip" ELSE "disable")
  /\ UNCHANGED <<mode, volume, shell, tip, crashes>>

(* HEIGHT from the first endpoint that answers /status; an endpoint may    *)
(* still fail on /block, which reads as an empty height.                   *)
QueryTip_Unchecked ==
  /\ pc = "tip"
  /\ height' = tip
  /\ Goto("hash")
  /\ UNCHANGED <<mode, volume, hash, tip, crashes>>
QueryTip ==
  /\ pc = "tip"
  /\ \/ /\ tip > TrustLag
        /\ height' = tip
        /\ Goto("hash")
     \/ /\ UNCHANGED height
        /\ Exit
  /\ UNCHANGED <<mode, volume, hash, tip, crashes>>

(* HASH at HEIGHT - TRUST_LAG; empty or null when the endpoint failed or   *)
(* has pruned the block.                                                   *)
QueryHash ==
  /\ pc = "hash"
  /\ \/ /\ hash' = HashOf(height - TrustLag)
        /\ Goto("enable")
     \/ /\ UNCHANGED hash
        /\ Exit
  /\ UNCHANGED <<mode, volume, height, tip, crashes>>

(* The four edits of [statesync], each a file replaced at once.            *)
EditEnable ==
  /\ pc = "enable"
  /\ Goto("servers")
  /\ cfg' = [cfg EXCEPT !.enable = TRUE]
  /\ UNCHANGED <<mode, appEdited, genesis, db, synced, shell, tip, crashes>>

EditServers ==
  /\ pc = "servers"
  /\ Goto("height")
  /\ cfg' = [cfg EXCEPT !.servers = TRUE]
  /\ UNCHANGED <<mode, appEdited, genesis, db, synced, shell, tip, crashes>>

EditTrustHeight ==
  /\ pc = "height"
  /\ Goto("trust")
  /\ cfg' = [cfg EXCEPT !.trustHeight = height - TrustLag]
  /\ UNCHANGED <<mode, appEdited, genesis, db, synced, shell, tip, crashes>>

EditTrustHash ==
  /\ pc = "trust"
  /\ Goto("start")
  /\ cfg' = [cfg EXCEPT !.trustHash = hash]
  /\ UNCHANGED <<mode, appEdited, genesis, db, synced, shell, tip, crashes>>

Disabled_LeftAlone(c) == c
Disabled(c) == [c EXCEPT !.enable = FALSE]

DisableSync ==
  /\ pc = "disable"
  /\ Goto("start")
  /\ cfg' = Disabled(cfg)
  /\ UNCHANGED <<mode, appEdited, genesis, db, synced, shell, tip, crashes>>

(* exec Neutaro start: newApp asks for the chain id, which is read from    *)
(* the genesis, and fails when there is none to read; only then CometBFT   *)
(* creates its databases.                                                  *)
StartNode ==
  /\ pc = "start"
  /\ LET readable == genesis \notin {"none", "partial"} IN
       /\ IF readable THEN Goto("running") ELSE Exit
       /\ db' = (db \/ readable)
  /\ UNCHANGED <<mode, cfg, appEdited, genesis, synced, shell, tip, crashes>>

(* State sync ends: CometBFT tries it only when the data directory holds   *)
(* no state, and it needs an anchor on the chain.                          *)
FinishStateSync ==
  /\ pc = "running"
  /\ ~synced
  /\ cfg.enable
  /\ cfg.trustHash = HashOf(cfg.trustHeight)
  /\ synced' = TRUE
  /\ UNCHANGED <<pc, mode, cfg, appEdited, genesis, db, shell, tip, crashes>>

---------------------------------------------------------------------------
(* The world                                                               *)

ChainGrows ==
  /\ tip < MaxTip
  /\ tip' = tip + 1
  /\ UNCHANGED <<pc, mode, volume, shell, crashes>>

Crash ==
  /\ pc \in CrashAt
  /\ crashes < MaxCrashes
  /\ crashes' = crashes + 1
  /\ pc' = "down"
  /\ UNCHANGED <<mode, volume, shell, tip>>

FirstBoot ==
  \/ InitConfig \/ InitGenesis \/ EditConfig \/ EditApp
  \/ FetchGenesis \/ VerifyGenesis
Prime ==
  \/ QueryTip \/ QueryHash \/ EditEnable \/ EditServers
  \/ EditTrustHeight \/ EditTrustHash
Script ==
  StartContainer \/ FirstBootGuard \/ FirstBoot \/ DecideSync \/ Prime
  \/ DisableSync \/ StartNode \/ FinishStateSync

Next == Script \/ ChainGrows \/ Crash
Spec == Init /\ [][Next]_vars

(* The script runs, the supervisor restarts the container, the chain       *)
(* grows, and an endpoint that is asked again and again answers.           *)
Fairness ==
  /\ WF_vars(Script)
  /\ WF_vars(ChainGrows)
  /\ SF_vars(QueryTip /\ pc' = "hash")
  /\ SF_vars(QueryHash /\ pc' = "enable")
FairSpec == Spec /\ Fairness

---------------------------------------------------------------------------
(* Properties                                                              *)

(* The type invariant.                                                     *)
TypeOK ==
  /\ pc \in Points
  /\ mode \in Modes
  /\ cfg \in [file : BOOLEAN, peers : BOOLEAN, enable : BOOLEAN,
              servers : BOOLEAN, trustHeight : Nat, trustHash : Nat]
  /\ appEdited \in BOOLEAN
  /\ genesis \in Genesis
  /\ db \in BOOLEAN /\ synced \in BOOLEAN
  /\ height \in Nat /\ hash \in Nat /\ tip \in Nat /\ crashes \in Nat

(* A node that starts with state sync enabled has an anchor that belongs   *)
(* together and that this very run fetched: height and hash are written by *)
(* separate edits, and a crash between them, a change of STATESYNC and a   *)
(* later run must never leave a mixed or an empty anchor in force.         *)
AnchorIsOfThisRun ==
  pc = "running" /\ cfg.enable =>
    /\ cfg.servers
    /\ cfg.trustHash # NoHash
    /\ cfg.trustHash = HashOf(cfg.trustHeight)
    /\ cfg.trustHeight + TrustLag = height
    /\ cfg.trustHash = hash

(* STATESYNC=auto never sends a node that has a chain state back to state  *)
(* sync, however often it is restarted.                                    *)
AutoKeepsState ==
  [][pc = "start" /\ pc' = "running" /\ mode = "auto" /\ synced => ~cfg.enable]_vars

(* A fresh volume ends in a synced node, although endpoints fail, the      *)
(* chain is too short at first and the container dies while it primes.     *)
EventuallySynced == <>(pc = "running" /\ synced)

(* NeutaroDocker.md: the entrypoint verifies the genesis checksum and      *)
(* refuses to start on a mismatch.                                         *)
RunsOnVerifiedGenesis == pc = "running" => genesis = "official"

(* NeutaroDocker.md: restarts resume from local data, state sync only      *)
(* primes when the data directory is empty.  So a node that starts without *)
(* state sync in auto mode has local data to resume from.                  *)
RestartsResume == pc = "running" /\ mode = "auto" /\ ~cfg.enable => synced

===========================================================================
