---------------------------- MODULE AppWiring ----------------------------
(***************************************************************************)
(* A Neutaro process up to its application: main, the root command         *)
(* (cmd/Neutaro) and app.New (app/app.go), the order in which the parts    *)
(* are put together, and what the calls made through them find as a result.*)
(*                                                                         *)
(* Go evaluates an argument when the constructor is called.  A keeper that *)
(* is a struct is copied, and one that has not been built yet is copied as *)
(* its zero value, without a complaint.  A keeper behind a pointer that is *)
(* not built yet panics when New takes a field of it.  An argument &app.X  *)
(* is looked up when it is used.  Four objects close at some point and     *)
(* panic when something is added afterwards: the SDK's configuration and   *)
(* the capability keeper (Seal), the IBC router (SetRouter) and BaseApp    *)
(* (LoadLatestVersion).                                                    *)
(*                                                                         *)
(* Definitions named X_Something are X with a plausible mistake, as in     *)
(* UpgradeHandler.                                                         *)
(***************************************************************************)
EXTENDS Naturals, Sequences, FiniteSets, SequencesExt

(* The statements that build or change something, in order: main and the   *)
(* root command, the keepers, and what New does with them.                 *)
Process ==
  <<"AddressPrefixes", "Denoms", "Encoding", "ConfigSeal", "Flags", "ClientConfig",
    "ClientContext", "ServerConfig", "AppOptions">>
Capabilities_SealFirst ==
  <<"Capability", "CapabilitySeal", "ScopedWasm", "ScopedIBC", "ScopedTransfer">>
Capabilities ==
  <<"Capability", "ScopedWasm", "ScopedIBC", "ScopedTransfer", "CapabilitySeal">>
SDKKeepers_HooksEarly ==
  <<"Account", "Authz", "Bank", "Staking", "StakingHooks", "Mint", "Distr",
    "Slashing", "Crisis", "FeeGrant", "Upgrade">>
SDKKeepers ==
  <<"Account", "Authz", "Bank", "Staking", "Mint", "Distr", "Slashing", "Crisis",
    "FeeGrant", "Upgrade", "StakingHooks">>
IBCKeepers ==
  <<"IBC", "Wasm", "GovRouter", "Gov", "Evidence", "IBCFee", "Transfer",
    "TransferStack", "WasmStack", "IBCRouter">>
Finish ==
  <<"ModuleManager", "Orders", "Invariants", "Configurator", "Services",
    "StoreLoader", "UpgradeHandlers", "Mounts", "Blockers", "Ante", "Snapshotter",
    "PostHandler">>
Base == <<"Codec", "BaseApp", "Params", "ConsensusParams">>
Order == Process \o Base \o Capabilities \o SDKKeepers \o IBCKeepers \o Finish

Parts == ToSet(Order) \cup {"Load", "PinnedCodes", "LoadHeight"}

(* The keepers that are built with an address in text: the authority of    *)
(* their messages, or the addresses x/bank blocks.                         *)
Addressed ==
  {"ConsensusParams", "Account", "Bank", "Staking", "Mint", "Distr", "Slashing",
   "Crisis", "Upgrade", "Wasm", "Gov"}

(* The values a statement copies: struct keepers, stacks, what was read    *)
(* before it.                                                              *)
Copies ==
  [p \in Parts |-> (IF p \in Addressed THEN {"AddressPrefixes"} ELSE {}) \cup
    (CASE p = "ClientConfig"  -> {"Flags"}
      [] p = "ClientContext" -> {"Encoding", "ClientConfig"}
      [] p = "Upgrade"       -> {"AppOptions"}
      [] p \in {"Authz", "FeeGrant"}       -> {"Account"}
      [] p = "Bank"                        -> {"Account"}
      [] p \in {"Staking", "Mint", "Distr"} -> {"Account", "Bank"}
      [] p = "Crisis"        -> {"Bank"}
      [] p = "StakingHooks"  -> {"Distr", "Slashing"}
      [] p = "IBC"           -> {"ScopedIBC"}
      [] p = "Wasm"          -> {"Account", "Bank", "Distr", "IBCFee", "ScopedWasm",
                                 "Transfer"}
      [] p = "GovRouter"     -> {"Params"}
      [] p = "Gov"           -> {"Account", "Bank", "GovRouter"}
      [] p = "Evidence"      -> {"Slashing"}
      [] p = "IBCFee"        -> {"Account", "Bank"}
      [] p = "Transfer"      -> {"IBCFee", "Account", "Bank", "ScopedTransfer"}
      [] p = "TransferStack" -> {"Transfer", "IBCFee"}
      [] p = "WasmStack"     -> {"Wasm", "IBCFee"}
      [] p = "IBCRouter"     -> {"WasmStack", "TransferStack"}
      [] p = "ModuleManager" -> {"Account", "Authz", "Bank", "FeeGrant", "Mint",
                                 "Slashing", "Distr", "Evidence", "Params",
                                 "ConsensusParams", "Transfer", "IBCFee"}
      [] p = "UpgradeHandlers" -> {"Configurator", "Params", "ConsensusParams"}
      [] p = "Ante"          -> {"Account", "Bank", "FeeGrant"}
      [] OTHER               -> {})]

(* The pointers a statement copies or looks into: it panics, or keeps nil, *)
(* when they are not set.                                                  *)
Pointers ==
  [p \in Parts |->
    CASE p \in {"BaseApp", "Params"}         -> {"Codec"}
      [] p \in {"ScopedWasm", "ScopedIBC", "ScopedTransfer", "CapabilitySeal"}
                                            -> {"Capability"}
      [] p \in {"Mint", "Distr", "Slashing", "StakingHooks", "Gov", "Evidence"}
                                            -> {"Staking"}
      [] p \in {"IBC"}                      -> {"Staking", "Upgrade"}
      [] p \in {"Wasm"}                     -> {"Staking", "IBC"}
      [] p = "GovRouter"                    -> {"Upgrade", "IBC"}
      [] p \in {"IBCFee", "Transfer", "WasmStack", "IBCRouter", "Ante"}
                                            -> {"IBC"}
      [] p = "ModuleManager"                -> {"Capability", "Staking", "Crisis",
                                                "Upgrade", "IBC"}
      [] p \in {"Orders", "Services"}       -> {"ModuleManager"}
      [] p = "Invariants"                   -> {"ModuleManager", "Crisis"}
      [] p = "StoreLoader"                  -> {"Upgrade"}
      [] p = "UpgradeHandlers"              -> {"ModuleManager", "Upgrade", "IBC"}
      [] OTHER                              -> {}]

(* &app.X: what is looked up when it is used.                              *)
References ==
  [p \in Parts |->
    CASE p = "BaseApp"       -> {"ConsensusParams"}
      [] p = "ModuleManager" -> {"Gov", "Wasm"}
      [] p = "Snapshotter"   -> {"Wasm"}
      [] OTHER               -> {}]

(* What must not have happened yet.                                        *)
ClosedBy ==
  [p \in Parts |->
    CASE p = "AddressPrefixes"                             -> {"ConfigSeal"}
      [] p \in {"ScopedWasm", "ScopedIBC", "ScopedTransfer"} -> {"CapabilitySeal"}
      [] p \in {"TransferStack", "WasmStack"}                -> {"IBCRouter"}
      [] p \in {"StoreLoader", "Mounts", "Blockers", "Ante", "Snapshotter",
                "PostHandler"}                        -> {"Load", "LoadHeight"}
      [] OTHER                                               -> {}]

(* What a process may end at although the order is right: its flags and    *)
(* files, state streaming, the wasm configuration, the snapshot extension, *)
(* the load and the pinned codes can each report an error.                 *)
MayFail ==
  {"Flags", "ClientConfig", "ClientContext", "ServerConfig", "AppOptions", "BaseApp",
   "Wasm", "Snapshotter", "Load", "PinnedCodes", "LoadHeight"}

(* The calls of the run time, each as the links it goes through: <<x, y>>  *)
(* is a call that x makes on its y.                                        *)
Calls ==
  [userTransfer     |-> {<<"ModuleManager", "Transfer">>, <<"Transfer", "IBCFee">>,
                         <<"IBCFee", "IBC">>, <<"Transfer", "ScopedTransfer">>},
   contractSend     |-> {<<"ModuleManager", "Wasm">>, <<"Wasm", "IBCFee">>,
                         <<"IBCFee", "IBC">>},
   contractTransfer |-> {<<"ModuleManager", "Wasm">>, <<"Wasm", "Transfer">>},
   contractBank     |-> {<<"ModuleManager", "Wasm">>, <<"Wasm", "Bank">>},
   receiveTransfer  |-> {<<"IBCRouter", "TransferStack">>, <<"TransferStack", "IBCFee">>,
                         <<"TransferStack", "Transfer">>, <<"Transfer", "Bank">>},
   receiveContract  |-> {<<"IBCRouter", "WasmStack">>, <<"WasmStack", "IBCFee">>,
                         <<"WasmStack", "Wasm">>, <<"Wasm", "ScopedWasm">>},
   delegate         |-> {<<"ModuleManager", "Staking">>, <<"StakingHooks", "Distr">>,
                         <<"StakingHooks", "Slashing">>, <<"Staking", "Bank">>},
   upgradeProposal  |-> {<<"ModuleManager", "Gov">>, <<"Gov", "GovRouter">>,
                         <<"GovRouter", "Upgrade">>},
   upgradeToV2      |-> {<<"UpgradeHandlers", "ModuleManager">>,
                         <<"UpgradeHandlers", "Configurator">>,
                         <<"UpgradeHandlers", "Params">>,
                         <<"UpgradeHandlers", "ConsensusParams">>},
   evidence         |-> {<<"ModuleManager", "Evidence">>, <<"Evidence", "Slashing">>,
                         <<"Evidence", "Staking">>},
   payFee           |-> {<<"Ante", "Account">>, <<"Ante", "Bank">>, <<"Ante", "FeeGrant">>},
   snapshot         |-> {<<"Snapshotter", "Wasm">>},
   authority        |-> {<<p, "AddressPrefixes">> : p \in Addressed},
   sign             |-> {<<"ClientContext", "Encoding">>, <<"ClientConfig", "Flags">>,
                         <<"ClientContext", "ClientConfig">>},
   skipUpgrade      |-> {<<"Upgrade", "AppOptions">>},
   blockParams      |-> {<<"BaseApp", "ConsensusParams">>}]

CallNames == DOMAIN Calls
(* The calls a contract makes into IBC.                                    *)
ContractIBC == {"contractSend", "contractTransfer"}

VARIABLES
  command,  \* "start", "export", "exportAt": the last state or a height
  done,     \* the statements executed
  zero,     \* zero[p]: what p copied before it was built
  status    \* "building", "running", "exited", "panicked"

Commands == {"start", "export", "exportAt"}
vars == <<command, done, zero, status>>

(* newApp and appExport call New; appExport without the last state when it *)
(* is given a height, which it loads afterwards.                           *)
Statements_NeverLoad(c) == Order
Statements(c) ==
  Order \o (IF c = "exportAt" THEN <<"LoadHeight">> ELSE <<"Load", "PinnedCodes">>)

Init ==
  /\ command \in Commands
  /\ done = {}
  /\ zero = [p \in Parts |-> {}]
  /\ status = "building"

Current == Statements(command)[Cardinality(done) + 1]
Complete == Cardinality(done) = Len(Statements(command))

Illegal(p) ==
  \/ ~ (Pointers[p] \subseteq done)
  \/ ClosedBy[p] \cap done # {}

(* A statement that is not legal where it stands panics, and New with it.  *)
Execute ==
  /\ status = "building"
  /\ ~Complete
  /\ LET legal == ~Illegal(Current) IN
       /\ status' = IF legal THEN status ELSE "panicked"
       /\ done' = IF legal THEN done \cup {Current} ELSE done
       /\ zero' = IF legal THEN [zero EXCEPT ![Current] = Copies[Current] \ done] ELSE zero
  /\ UNCHANGED command

Fail ==
  /\ status = "building"
  /\ ~Complete
  /\ Current \in MayFail
  /\ status' = "exited"
  /\ UNCHANGED <<command, done, zero>>

Return ==
  /\ status = "building"
  /\ Complete
  /\ status' = "running"
  /\ UNCHANGED <<command, done, zero>>

(* A call made through a zero value dereferences nil; a panic in a         *)
(* transaction is recovered and the transaction fails.                     *)
Reaches(link) ==
  /\ link[1] \in done /\ link[2] \in done
  /\ link[2] \notin zero[link[1]]

Works(c) == \A link \in Calls[c] : Reaches(link)

Next == Execute \/ Fail \/ Return
Spec == Init /\ [][Next]_vars

---------------------------------------------------------------------------
(* Properties                                                              *)

(* The type invariant; New only returns an application that has executed   *)
(* everything it has to, the load of a state included, for every command.  *)
TypeOK ==
  /\ command \in Commands
  /\ done \subseteq Parts
  /\ zero \in [Parts -> SUBSET Parts]
  /\ status \in {"building", "running", "exited", "panicked"}
  /\ status = "running" =>
       IF command = "exportAt" THEN "LoadHeight" \in done
       ELSE {"Load", "PinnedCodes"} \subseteq done

(* The process never trips over its own order: nothing takes a field of a  *)
(* keeper that is not there, asks for a capability scope, adds an IBC      *)
(* route, sets a hook of BaseApp or an address prefix after it was closed  *)
(* (app.go: "must be before Loading version", "after app.ModuleManager and *)
(* app.configurator are set").                                             *)
NewNeverPanics == status # "panicked"

(* Whatever is called, apart from what contracts call in IBC, finds every  *)
(* keeper on its way built, in particular the hooks that staking runs, the *)
(* authorities in the chain's own prefix, and the references that are      *)
(* taken before what they refer to exists.                                 *)
CallsFindTheirKeepers ==
  status = "running" => \A c \in CallNames \ ContractIBC : Works(c)

(* app.go hands wasm the fee middleware as "ISC4 Wrapper: fee IBC          *)
(* middleware" and the transfer keeper as its port source: what a contract *)
(* sends over IBC goes through them.                                       *)
ContractsReachIBC == status = "running" => \A c \in ContractIBC : Works(c)

==========================================================================
