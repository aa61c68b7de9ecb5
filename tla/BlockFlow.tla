---------------------------- MODULE BlockFlow ----------------------------
(***************************************************************************)
(* What the modules do to each other's money in InitChain, BeginBlock and  *)
(* EndBlock, in the orders of app.go 509-605, with the permissions of the  *)
(* module accounts (app.go 168-179) and the addresses x/bank refuses       *)
(* (app.go 915-926).                                                       *)
(*                                                                         *)
(* The modules are the SDK's, ibc-go's and wasmd's and external: each is   *)
(* modelled by the coins it moves, by what it finds of the others when its *)
(* turn comes, and by what it panics on.  A panic in a transaction is      *)
(* recovered; anywhere else it stops every node at that block.             *)
(*                                                                         *)
(* Money is counted in unit steps, vouchers of other chains together with  *)
(* the chain's own coin.  A validator's power, rewards and commission are  *)
(* taken together over all validators.  A crash inside a block throws the  *)
(* block away (BaseApp), so a restart is a step between two blocks.        *)
(*                                                                         *)
(* Definitions named X_Something are X with a plausible mistake, as in     *)
(* UpgradeHandler.                                                         *)
(***************************************************************************)
EXTENDS Naturals, Sequences, Functions

CONSTANTS
  GenesisDocs,  \* the genesis files a chain may start from
  MaxCoins,     \* bound: coins in existence
  MaxTxs        \* bound: transactions in a block

(* The permissions of the module accounts.                                 *)
maccPerms_GovCannotBurn ==
  [fee_collector |-> {}, distribution |-> {}, mint |-> {"minter"},
   bonded_tokens_pool |-> {"burner", "staking"},
   not_bonded_tokens_pool |-> {"burner", "staking"},
   gov |-> {}, wasm |-> {"burner"}, transfer |-> {"minter", "burner"}, feeibc |-> {}]
maccPerms ==
  [fee_collector |-> {}, distribution |-> {}, mint |-> {"minter"},
   bonded_tokens_pool |-> {"burner", "staking"},
   not_bonded_tokens_pool |-> {"burner", "staking"},
   gov |-> {"burner"}, wasm |-> {"burner"}, transfer |-> {"minter", "burner"},
   feeibc |-> {}]

ModuleAccounts == DOMAIN maccPerms
Holders == ModuleAccounts \cup {"users"}
May(account, permission) == permission \in maccPerms[account]

BlockedAddresses_DistributionToo == ModuleAccounts \ {"gov", "distribution"}
BlockedAddresses == ModuleAccounts \ {"gov"}

(* The orders of the module manager.  A module that is not in the manager  *)
(* (group) is passed over.  The mistaken orders leave out modules that do  *)
(* nothing here.                                                           *)
SetOrderBeginBlockers_SlashFirst ==
  <<"upgrade", "capability", "mint", "slashing", "evidence", "distribution", "staking">>
SetOrderBeginBlockers ==
  <<"upgrade", "capability", "mint", "distribution", "slashing", "evidence",
    "staking", "auth", "bank", "gov", "crisis", "genutil", "authz", "feegrant",
    "group", "params", "vesting", "consensus", "transfer", "ibc", "feeibc", "wasm">>
SetOrderEndBlockers ==
  <<"crisis", "gov", "staking", "capability", "auth", "bank", "distribution",
    "slashing", "mint", "genutil", "evidence", "authz", "feegrant", "group",
    "params", "upgrade", "vesting", "consensus", "transfer", "ibc", "feeibc", "wasm">>
SetOrderInitGenesis_GenutilEarly ==
  <<"capability", "auth", "bank", "distribution", "genutil", "staking", "slashing",
    "gov", "mint", "transfer", "wasm", "crisis">>
SetOrderInitGenesis ==
  <<"capability", "auth", "bank", "distribution", "staking", "slashing", "gov",
    "mint", "genutil", "evidence", "authz", "feegrant", "group", "params", "upgrade",
    "vesting", "consensus", "transfer", "ibc", "feeibc", "wasm", "crisis">>

Orders ==
  [genesis |-> SetOrderInitGenesis, begin |-> SetOrderBeginBlockers,
   end |-> SetOrderEndBlockers]

(* The modules that have something to do here.                             *)
Acting ==
  [genesis |-> {"capability", "bank", "distribution", "staking", "slashing", "gov",
                "genutil", "transfer", "wasm", "crisis"},
   begin |-> {"capability", "mint", "distribution", "slashing", "evidence"},
   end |-> {"crisis", "gov", "staking"}]

VARIABLES
  phase,    \* "genesis", "begin", "txs", "end"
  pos,      \* the next module in the order of this phase
  doc,      \* the genesis file
  bal,      \* bal[h]: x/bank's balance of h
  books,    \* what the modules think they hold: bonded, unbonding, owed
            \*   (validators' outstanding rewards), pool (community), deposits
  caps,     \* the memory store of x/capability is filled
  claimed,  \* ports are bound
  keys,     \* x/slashing knows the validators' keys
  later,    \* the block is not the first
  txs,      \* transactions delivered in this block
  panic,    \* what stopped the chain, or "none"
  aborted   \* a transaction was aborted for a missing permission

chainVars == <<phase, pos, doc, bal, books, caps, claimed, keys, later, txs, panic, aborted>>
memory == <<caps, claimed, keys>>

Books == [bonded : Nat, unbonding : Nat, owed : Nat, pool : Nat, deposits : Nat]
NoBooks == [bonded |-> 0, unbonding |-> 0, owed |-> 0, pool |-> 0, deposits |-> 0]
NoCoins == [h \in Holders |-> 0]
NoDoc == [bal |-> NoCoins, books |-> NoBooks, gentx |-> 0]

Supply == SumFunction(bal)
Pay(b, from, to, n) == [b EXCEPT ![from] = @ - n, ![to] = @ + n]
Mint(b, to, n) == [b EXCEPT ![to] = @ + n]
Burn(b, from, n) == [b EXCEPT ![from] = @ - n]

(* The invariants registered with x/crisis: the pools of x/staking hold    *)
(* the tokens, x/distribution what it owes, x/gov at least the deposits.   *)
Balanced(b, k) ==
  /\ b["bonded_tokens_pool"] = k.bonded
  /\ b["not_bonded_tokens_pool"] = k.unbonding
  /\ b["distribution"] = k.owed + k.pool
  /\ b["gov"] >= k.deposits

(* The genesis file of a first start: balances that agree with the books,  *)
(* and validators from gentxs or taken over, not from both.                *)
ASSUME GenesisAssumption ==
  \A d \in GenesisDocs :
    /\ d \in [bal : [Holders -> Nat], books : Books, gentx : Nat]
    /\ Balanced(d.bal, d.books) /\ d.bal["gov"] = d.books.deposits
    /\ d.gentx < d.bal["users"]
    /\ (d.gentx = 0) # (d.books.bonded = 0)
ASSUME FlowBoundsAssumption == MaxCoins \in Nat /\ MaxTxs \in Nat

ChainInit ==
  /\ phase = "genesis" /\ pos = 1
  /\ doc \in GenesisDocs
  /\ bal = NoCoins /\ books = NoBooks
  /\ caps = FALSE /\ claimed = FALSE /\ keys = FALSE
  /\ later = FALSE /\ txs = 0 /\ panic = "none" /\ aborted = FALSE

Turn(p, m) ==
  /\ panic = "none" /\ phase = p
  /\ pos <= Len(Orders[p]) /\ m = Orders[p][pos]

(* The module's turn passes, or it panics and nothing goes on.             *)
Pass(ok, reason) ==
  /\ panic' = IF ok THEN "none" ELSE reason
  /\ pos' = IF ok THEN pos + 1 ELSE pos
  /\ UNCHANGED <<phase, doc, later, txs, aborted>>

Idle(p) ==
  /\ p \in DOMAIN Orders /\ pos <= Len(Orders[p]) /\ Orders[p][pos] \notin Acting[p]
  /\ Turn(p, Orders[p][pos])
  /\ Pass(TRUE, "none")
  /\ UNCHANGED <<bal, books, memory>>

(* The last module of a phase is done.                                     *)
Done(p) == panic = "none" /\ phase = p /\ pos > Len(Orders[p])

---------------------------------------------------------------------------
(* InitGenesis of each module                                              *)

(* Opening the index panics when a capability was created before.          *)
GenesisCapability ==
  /\ Turn("genesis", "capability")
  /\ Pass(~claimed, "genesis")
  /\ caps' = TRUE
  /\ UNCHANGED <<bal, books, claimed, keys>>

GenesisBank ==
  /\ Turn("genesis", "bank")
  /\ Pass(TRUE, "genesis")
  /\ bal' = doc.bal
  /\ UNCHANGED <<books, memory>>

(* Every module with an account compares its balance with its books.       *)
GenesisDistribution ==
  /\ Turn("genesis", "distribution")
  /\ Pass(bal["distribution"] = doc.books.owed + doc.books.pool, "genesis")
  /\ books' = [books EXCEPT !.owed = doc.books.owed, !.pool = doc.books.pool]
  /\ UNCHANGED <<bal, memory>>

GenesisStaking ==
  /\ Turn("genesis", "staking")
  /\ Pass(/\ bal["bonded_tokens_pool"] = doc.books.bonded
          /\ bal["not_bonded_tokens_pool"] = doc.books.unbonding, "genesis")
  /\ books' = [books EXCEPT !.bonded = doc.books.bonded, !.unbonding = doc.books.unbonding]
  /\ UNCHANGED <<bal, memory>>

GenesisGov ==
  /\ Turn("genesis", "gov")
  /\ Pass(bal["gov"] = doc.books.deposits, "genesis")
  /\ books' = [books EXCEPT !.deposits = doc.books.deposits]
  /\ UNCHANGED <<bal, memory>>

(* x/slashing takes the keys of the validators it finds.                   *)
GenesisSlashing ==
  /\ Turn("genesis", "slashing")
  /\ Pass(TRUE, "genesis")
  /\ keys' = (keys \/ books.bonded > 0)
  /\ UNCHANGED <<bal, books, caps, claimed>>

(* The gentxs create validators; a hook gives x/slashing their keys.       *)
GenesisGenutil ==
  /\ Turn("genesis", "genutil")
  /\ Pass(doc.gentx <= bal["users"], "genesis")
  /\ IF doc.gentx <= bal["users"]
     THEN /\ bal' = Pay(bal, "users", "bonded_tokens_pool", doc.gentx)
          /\ books' = [books EXCEPT !.bonded = @ + doc.gentx]
          /\ keys' = (keys \/ doc.gentx > 0)
     ELSE UNCHANGED <<bal, books, keys>>
  /\ UNCHANGED <<caps, claimed>>

(* The transfer module binds its port.                                     *)
GenesisTransfer ==
  /\ Turn("genesis", "transfer")
  /\ Pass(TRUE, "genesis")
  /\ claimed' = TRUE
  /\ UNCHANGED <<bal, books, caps, keys>>

(* Contracts in the genesis bind ports and spend and delegate their coins. *)
GenesisWasm ==
  /\ Turn("genesis", "wasm")
  /\ Pass(doc.gentx < doc.bal["users"] =>
            caps /\ bal["users"] > 0 /\ books.bonded > 0, "genesis")
  /\ claimed' = TRUE
  /\ UNCHANGED <<bal, books, caps, keys>>

(* Each node decides for itself whether the invariants are asserted here.  *)
GenesisCrisis ==
  /\ Turn("genesis", "crisis")
  /\ \E skipGenesisInvariants \in BOOLEAN :
       Pass(skipGenesisInvariants \/ Balanced(bal, books), "genesis")
  /\ UNCHANGED <<bal, books, memory>>

(* A genesis without validators is refused.                                *)
InitChainEnds ==
  /\ Done("genesis")
  /\ IF books.bonded > 0
     THEN phase' = "begin" /\ pos' = 1 /\ doc' = NoDoc /\ panic' = panic
     ELSE panic' = "genesis" /\ UNCHANGED <<phase, pos, doc>>
  /\ UNCHANGED <<bal, books, memory, later, txs, aborted>>

---------------------------------------------------------------------------
(* BeginBlock of each module                                               *)

BeginCapability ==
  /\ Turn("begin", "capability")
  /\ Pass(TRUE, "begin")
  /\ caps' = TRUE
  /\ UNCHANGED <<bal, books, claimed, keys>>

(* New coins pass through the mint account to the fee collector.           *)
BeginMint ==
  /\ Turn("begin", "mint")
  /\ Pass(May("mint", "minter"), "permission")
  /\ \E n \in 0 .. 1 :
       /\ Supply + n <= MaxCoins
       /\ bal' = IF May("mint", "minter") THEN Mint(bal, "fee_collector", n) ELSE bal
  /\ UNCHANGED <<books, memory>>

(* The fees go to the last signers; the community pool gets its tax and    *)
(* what cannot be divided.  In the first block nobody has signed.          *)
BeginDistribution ==
  /\ Turn("begin", "distribution")
  /\ Pass(TRUE, "begin")
  /\ LET fees == IF later THEN bal["fee_collector"] ELSE 0 IN
     \E tax \in 0 .. fees :
       /\ bal' = Pay(bal, "fee_collector", "distribution", fees)
       /\ books' = [books EXCEPT !.owed = @ + (fees - tax), !.pool = @ + tax]
  /\ UNCHANGED memory

(* x/slashing looks up the keys of the last signers, x/evidence those of   *)
(* who signed twice.                                                       *)
NoSlash(m) ==
  /\ Turn("begin", m)
  /\ Pass(keys \/ ~later \/ m = "evidence", "keys")
  /\ UNCHANGED <<bal, books, memory>>

(* Downtime and double signing burn tokens that are or were bonded.        *)
Slash(m, tokens) ==
  LET pool == IF tokens = "bonded" THEN "bonded_tokens_pool" ELSE "not_bonded_tokens_pool"
      ok == May(pool, "burner")
  IN /\ Turn("begin", m)
     /\ later /\ keys
     /\ books[tokens] > (IF tokens = "bonded" THEN 1 ELSE 0)
     /\ Pass(ok, "permission")
     /\ bal' = IF ok THEN Burn(bal, pool, 1) ELSE bal
     /\ books' = IF ok THEN [books EXCEPT ![tokens] = @ - 1] ELSE books
     /\ UNCHANGED memory

BeginBlockEnds ==
  /\ Done("begin")
  /\ phase' = "txs" /\ pos' = 1
  /\ UNCHANGED <<doc, bal, books, memory, later, txs, panic, aborted>>

---------------------------------------------------------------------------
(* Transactions                                                            *)

Paid == Pay(bal, "users", "fee_collector", 1)
HasCoin_FeeForgotten == bal["users"] > 0
HasCoin == bal["users"] > 1

(* The fee is taken by the ante handler.  A message that fails leaves the  *)
(* fee and nothing else; a missing permission is a panic that is recovered.*)
DeliverTx(ok, permitted, b, k) ==
  /\ panic = "none" /\ phase = "txs" /\ txs < MaxTxs /\ bal["users"] > 0
  /\ bal' = IF ok /\ permitted THEN b ELSE Paid
  /\ books' = IF ok /\ permitted THEN k ELSE books
  /\ txs' = txs + 1
  /\ aborted' = (aborted \/ (ok /\ ~permitted))
  /\ UNCHANGED <<phase, pos, doc, memory, later, panic>>

Send(to) ==
  DeliverTx(HasCoin /\ to \notin BlockedAddresses, TRUE, Pay(Paid, "users", to, 1), books)

Delegate ==
  DeliverTx(HasCoin, TRUE, Pay(Paid, "users", "bonded_tokens_pool", 1),
            [books EXCEPT !.bonded = @ + 1])

Undelegate ==
  DeliverTx(books.bonded > 1, TRUE,
            Pay(Paid, "bonded_tokens_pool", "not_bonded_tokens_pool", 1),
            [books EXCEPT !.bonded = @ - 1, !.unbonding = @ + 1])

WithdrawRewards ==
  DeliverTx(books.owed > 0, TRUE, Pay(Paid, "distribution", "users", 1),
            [books EXCEPT !.owed = @ - 1])

FundCommunityPool ==
  DeliverTx(HasCoin, TRUE, Pay(Paid, "users", "distribution", 1),
            [books EXCEPT !.pool = @ + 1])

Deposit ==
  DeliverTx(HasCoin, TRUE, Pay(Paid, "users", "gov", 1), [books EXCEPT !.deposits = @ + 1])

(* A packet with a voucher: minted by the transfer module and sent on, to  *)
(* an address that may be a module's.  The channel's capability is needed. *)
ReceivePacket(to) ==
  /\ Supply < MaxCoins
  /\ DeliverTx(caps /\ to \notin BlockedAddresses, May("transfer", "minter"),
               Mint(Paid, to, 1), books)

(* A voucher sent home, or coins a contract burns.                         *)
BurnThrough(account) ==
  DeliverTx(HasCoin, May(account, "burner"), Burn(Paid, "users", 1), books)

DeliverTxsEnd ==
  /\ panic = "none" /\ phase = "txs"
  /\ phase' = "end" /\ txs' = 0
  /\ UNCHANGED <<pos, doc, bal, books, memory, later, panic, aborted>>

---------------------------------------------------------------------------
(* EndBlock of each module, Commit                                         *)

(* And, by invCheckPeriod, in which blocks; by default in none.            *)
EndCrisis ==
  /\ Turn("end", "crisis")
  /\ \E asserted \in BOOLEAN : Pass(asserted => Balanced(bal, books), "invariant")
  /\ UNCHANGED <<bal, books, memory>>

(* A proposal ends: nothing happens, its deposit is returned or burned, or *)
(* it is paid from the community pool.                                     *)
EndGov ==
  /\ Turn("end", "gov")
  /\ \/ /\ Pass(TRUE, "end")
        /\ UNCHANGED <<bal, books>>
     \/ /\ books.deposits > 0
        /\ Pass(TRUE, "end")
        /\ bal' = Pay(bal, "gov", "users", 1)
        /\ books' = [books EXCEPT !.deposits = @ - 1]
     \/ /\ books.deposits > 0
        /\ Pass(May("gov", "burner"), "permission")
        /\ bal' = Burn(bal, "gov", 1)
        /\ books' = [books EXCEPT !.deposits = @ - 1]
     \/ /\ books.pool > 0
        /\ Pass(TRUE, "end")
        /\ bal' = Pay(bal, "distribution", "users", 1)
        /\ books' = [books EXCEPT !.pool = @ - 1]
  /\ UNCHANGED memory

(* Validators lose their seats, mature unbondings are paid out.            *)
EndStaking ==
  /\ Turn("end", "staking")
  /\ Pass(TRUE, "end")
  /\ \E left, mature \in 0 .. 1 :
       /\ left = 0 \/ left < books.bonded
       /\ mature <= books.unbonding
       /\ bal' = Pay(Pay(bal, "bonded_tokens_pool", "not_bonded_tokens_pool", left),
                     "not_bonded_tokens_pool", "users", mature)
       /\ books' = [books EXCEPT !.bonded = @ - left, !.unbonding = (@ + left) - mature]
  /\ UNCHANGED memory

CommitBlock ==
  /\ Done("end")
  /\ phase' = "begin" /\ pos' = 1 /\ later' = TRUE
  /\ UNCHANGED <<doc, bal, books, memory, txs, panic, aborted>>

(* Memory stores are lost; the process builds its application again.       *)
Restart ==
  /\ panic = "none" /\ phase \in {"genesis", "begin"} /\ pos = 1
  /\ caps' = FALSE
  /\ UNCHANGED <<phase, pos, doc, bal, books, claimed, keys, later, txs, panic, aborted>>

(* The state is exported, as it is, and starts a new chain.                *)
Export ==
  /\ panic = "none" /\ phase = "begin" /\ pos = 1 /\ later
  /\ doc' = [bal |-> bal, books |-> books, gentx |-> 0]
  /\ phase' = "genesis" /\ bal' = NoCoins /\ books' = NoBooks
  /\ caps' = FALSE /\ claimed' = FALSE /\ keys' = FALSE /\ later' = FALSE
  /\ UNCHANGED <<pos, txs, panic, aborted>>

InitGenesis ==
  \/ GenesisCapability \/ GenesisBank \/ GenesisDistribution \/ GenesisStaking
  \/ GenesisSlashing \/ GenesisGov \/ GenesisGenutil \/ GenesisTransfer
  \/ GenesisWasm \/ GenesisCrisis \/ InitChainEnds
BeginBlock ==
  \/ BeginCapability \/ BeginMint \/ BeginDistribution \/ BeginBlockEnds
  \/ \E m \in {"slashing", "evidence"} :
       NoSlash(m) \/ \E tokens \in {"bonded", "unbonding"} : Slash(m, tokens)
Transactions ==
  \/ Delegate \/ Undelegate \/ WithdrawRewards \/ FundCommunityPool \/ Deposit
  \/ \E to \in ModuleAccounts : Send(to) \/ ReceivePacket(to)
  \/ \E account \in {"transfer", "wasm"} : BurnThrough(account)
  \/ DeliverTxsEnd
EndBlock == EndCrisis \/ EndGov \/ EndStaking \/ CommitBlock

Blocks == Idle(phase) \/ InitGenesis \/ BeginBlock \/ Transactions \/ EndBlock
ChainNext == Blocks \/ Restart \/ Export
ChainSpec == ChainInit /\ [][ChainNext]_chainVars

---------------------------------------------------------------------------
(* Properties                                                              *)

(* The type invariant; no account is ever overdrawn.                       *)
ChainTypeOK ==
  /\ phase \in {"genesis", "begin", "txs", "end"} /\ pos \in Nat \ {0}
  /\ doc \in [bal : [Holders -> Nat], books : Books, gentx : Nat]
  /\ bal \in [Holders -> Nat] /\ books \in Books
  /\ {caps, claimed, keys, later, aborted} \subseteq BOOLEAN
  /\ txs \in Nat
  /\ panic \in {"none", "genesis", "permission", "keys", "invariant"}

(* InitGenesis finds what it needs of the other modules in the order       *)
(* chosen, for a chain that starts from gentxs and for one that starts     *)
(* from any state it can export (app.go: genutil "must occur after         *)
(* staking", capability "must occur first", wasm "at the end", crisis      *)
(* after all modules), and leaves nothing missing that a later block would *)
(* need; a restart neither.  It refuses an export only when somebody sent  *)
(* coins to x/gov, the one module account that is not blocked and whose    *)
(* balance is compared.                                                    *)
NothingIsMissing ==
  /\ panic = "genesis" => doc.bal["gov"] > doc.books.deposits
  /\ panic # "keys"
  /\ phase # "genesis" => claimed /\ keys /\ books.bonded > 0
  /\ phase \in {"txs", "end"} => caps

(* Whatever is paid to whom, each pool holds what its module thinks it     *)
(* holds: only the addresses that x/bank refuses keep transfers, packets   *)
(* and contracts from making an invariant of x/crisis fail, which would    *)
(* halt every node that asserts it in the end block.  On a node that       *)
(* asserts nothing they balance as well.                                   *)
BooksBalance ==
  /\ phase # "genesis" => Balanced(bal, books)
  /\ panic # "invariant"

(* Every module that mints or burns may do so: no permission is missing,   *)
(* in a block or in a transaction.                                         *)
PermissionsSuffice == panic # "permission" /\ ~aborted

(* app.go: "slashing happens after distr.BeginBlocker so that there is     *)
(* nothing left over in the validator fee pool".  All fees and minted      *)
(* coins of the blocks before are with the distribution module when tokens *)
(* are slashed.                                                            *)
NothingLeftOver ==
  [][phase = "begin" /\ phase' = "begin" /\ books'.bonded < books.bonded
       => bal["fee_collector"] = 0]_chainVars
==========================================================================
