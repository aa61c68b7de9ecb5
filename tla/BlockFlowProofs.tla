------------------------- MODULE BlockFlowProofs -------------------------
(***************************************************************************)
(* The properties of BlockFlow for every set of genesis files and every    *)
(* bound on coins and transactions.                                        *)
(***************************************************************************)
EXTENDS BlockFlow, TLAPS

(***************************************************************************)
(* The constants of app.go                                                 *)
(***************************************************************************)

LEMMA OrderLengths == \A p \in DOMAIN Orders : Len(Orders[p]) = 22
BY DEF Orders, SetOrderInitGenesis, SetOrderBeginBlockers, SetOrderEndBlockers

LEMMA Permissions ==
  /\ May("mint", "minter") /\ May("transfer", "minter")
  /\ \A a \in {"bonded_tokens_pool", "not_bonded_tokens_pool", "gov", "wasm", "transfer"} :
       May(a, "burner")
BY DEF May, maccPerms

LEMMA Accounts ==
  Holders = {"fee_collector", "distribution", "mint", "bonded_tokens_pool",
             "not_bonded_tokens_pool", "gov", "wasm", "transfer", "feeibc", "users"}
BY DEF Holders, ModuleAccounts, maccPerms

(* A module's turn leaves the phase, the block and the transactions alone. *)
LEMMA PassEffect ==
  ASSUME NEW ok \in BOOLEAN, NEW reason, Pass(ok, reason)
  PROVE  /\ panic' = IF ok THEN "none" ELSE reason
         /\ pos' = IF ok THEN pos + 1 ELSE pos
         /\ phase' = phase /\ doc' = doc /\ later' = later /\ txs' = txs
         /\ aborted' = aborted
BY DEF Pass

(***************************************************************************)
(* Permissions.  The property is inductive: nothing but a missing          *)
(* permission aborts a transaction or panics with that reason.             *)
(***************************************************************************)

LEMMA PermissionsInGenesis ==
  ASSUME PermissionsSuffice, InitGenesis PROVE PermissionsSuffice'
BY DEF PermissionsSuffice, InitGenesis, GenesisCapability, GenesisBank,
   GenesisDistribution, GenesisStaking, GenesisSlashing, GenesisGov, GenesisGenutil,
   GenesisTransfer, GenesisWasm, GenesisCrisis, InitChainEnds, Pass

LEMMA PermissionsInBeginBlock ==
  ASSUME PermissionsSuffice, BeginBlock PROVE PermissionsSuffice'
<1>1. CASE BeginCapability \/ BeginDistribution \/ BeginBlockEnds
  <2>1. Pass(TRUE, "begin") \/ BeginBlockEnds
    BY <1>1 DEF BeginCapability, BeginDistribution
  <2>2. QED BY <2>1 DEF PermissionsSuffice, BeginBlockEnds, Pass
<1>5. CASE BeginMint
  <2>1. Pass(May("mint", "minter"), "permission")
    BY <1>5 DEF BeginMint
  <2>2. QED BY <2>1, Permissions DEF PermissionsSuffice, Pass
<1>2. ASSUME NEW m \in {"slashing", "evidence"}, NoSlash(m) PROVE PermissionsSuffice'
  BY <1>2 DEF PermissionsSuffice, NoSlash, Pass
<1>3. ASSUME NEW m \in {"slashing", "evidence"}, NEW t \in {"bonded", "unbonding"},
             Slash(m, t)
      PROVE PermissionsSuffice'
  BY <1>3, Permissions DEF PermissionsSuffice, Slash, Pass
<1>4. QED BY <1>1, <1>2, <1>3, <1>5 DEF BeginBlock

LEMMA PermissionsInTransactions ==
  ASSUME PermissionsSuffice, Transactions PROVE PermissionsSuffice'
<1>1. CASE Delegate \/ Undelegate \/ WithdrawRewards \/ FundCommunityPool \/ Deposit
  BY <1>1 DEF PermissionsSuffice, DeliverTx, Delegate, Undelegate, WithdrawRewards,
     FundCommunityPool, Deposit
<1>2. ASSUME NEW to \in ModuleAccounts, Send(to) PROVE PermissionsSuffice'
  BY <1>2 DEF PermissionsSuffice, DeliverTx, Send
<1>3. ASSUME NEW to \in ModuleAccounts, ReceivePacket(to) PROVE PermissionsSuffice'
  BY <1>3, Permissions DEF PermissionsSuffice, ReceivePacket, DeliverTx
<1>4. ASSUME NEW a \in {"transfer", "wasm"}, BurnThrough(a) PROVE PermissionsSuffice'
  BY <1>4, Permissions DEF PermissionsSuffice, BurnThrough, DeliverTx
<1>5. CASE DeliverTxsEnd
  BY <1>5 DEF PermissionsSuffice, DeliverTxsEnd
<1>6. QED BY <1>1, <1>2, <1>3, <1>4, <1>5 DEF Transactions

LEMMA PermissionsInEndBlock ==
  ASSUME PermissionsSuffice, EndBlock PROVE PermissionsSuffice'
BY Permissions DEF PermissionsSuffice, EndBlock, EndCrisis, EndGov, EndStaking,
   CommitBlock, Pass

(* No module that mints or burns lacks the permission for it, in any block *)
(* and in any transaction.                                                 *)
THEOREM NoPermissionMissing == ChainSpec => []PermissionsSuffice
<1>1. ChainInit => PermissionsSuffice
  BY DEF ChainInit, PermissionsSuffice
<1>2. PermissionsSuffice /\ [ChainNext]_chainVars => PermissionsSuffice'
  <2> SUFFICES ASSUME PermissionsSuffice, [ChainNext]_chainVars
               PROVE  PermissionsSuffice'
    OBVIOUS
  <2>1. CASE Idle(phase) \/ Restart \/ Export
    BY <2>1 DEF PermissionsSuffice, Idle, Restart, Export, Pass
  <2>2. CASE UNCHANGED chainVars
    BY <2>2 DEF PermissionsSuffice, chainVars
  <2>3. QED
    BY <2>1, <2>2, PermissionsInGenesis, PermissionsInBeginBlock,
       PermissionsInTransactions, PermissionsInEndBlock DEF ChainNext, Blocks
<1>3. QED BY <1>1, <1>2, PTL DEF ChainSpec

(***************************************************************************)
(* The books.  From the end of InitGenesis on every pool holds what its    *)
(* module thinks it holds.                                                 *)
(***************************************************************************)

Sound(b, k) == b \in [Holders -> Nat] /\ k \in Books /\ Balanced(b, k) /\ k.bonded > 0

FlowInv ==
  /\ ChainTypeOK
  /\ phase # "genesis" => Sound(bal, books)
  /\ panic # "invariant"

Moved(c, b, from, to, n) ==
  /\ c \in [Holders -> Nat]
  /\ \A h \in Holders :
       c[h] = IF h = from THEN b[h] - n ELSE IF h = to THEN b[h] + n ELSE b[h]

LEMMA Paying ==
  ASSUME NEW b \in [Holders -> Nat], NEW from \in Holders, NEW to \in Holders,
         from # to, NEW n \in Nat, n <= b[from]
  PROVE  Moved(Pay(b, from, to, n), b, from, to, n)
BY DEF Moved, Pay

LEMMA Minting ==
  ASSUME NEW b \in [Holders -> Nat], NEW to \in Holders, NEW n \in Nat
  PROVE  /\ Mint(b, to, n) \in [Holders -> Nat]
         /\ \A h \in Holders : Mint(b, to, n)[h] = IF h = to THEN b[h] + n ELSE b[h]
BY DEF Mint

LEMMA Burning ==
  ASSUME NEW b \in [Holders -> Nat], NEW from \in Holders, NEW n \in Nat, n <= b[from]
  PROVE  /\ Burn(b, from, n) \in [Holders -> Nat]
         /\ \A h \in Holders : Burn(b, from, n)[h] = IF h = from THEN b[h] - n ELSE b[h]
BY DEF Burn

(* A transaction keeps the books if its messages do: the fee is no         *)
(* module's.                                                               *)
LEMMA PaidSound ==
  ASSUME Sound(bal, books), bal["users"] > 0
  PROVE  /\ Sound(Paid, books)
         /\ Paid["users"] = bal["users"] - 1
         /\ \A h \in Holders \ {"users", "fee_collector"} : Paid[h] = bal[h]
<1>1. "users" \in Holders /\ "fee_collector" \in Holders
  BY Accounts
<1>2. bal \in [Holders -> Nat] /\ 1 <= bal["users"]
  BY <1>1 DEF Sound
<1>3. /\ Paid \in [Holders -> Nat] /\ Paid["users"] = bal["users"] - 1
      /\ \A h \in Holders \ {"users", "fee_collector"} : Paid[h] = bal[h]
  BY <1>1, <1>2, Paying DEF Paid, Moved
<1>4. Balanced(Paid, books)
  BY <1>3, Accounts DEF Sound, Balanced
<1>5. QED BY <1>3, <1>4 DEF Sound

LEMMA Delivering ==
  ASSUME FlowInv, NEW ok, NEW permitted, NEW b, NEW k, DeliverTx(ok, permitted, b, k),
         ok => Sound(b, k)
  PROVE  FlowInv'
<1>1. phase = "txs" /\ bal["users"] > 0 /\ Sound(bal, books)
  BY DEF DeliverTx, FlowInv
<1>2. Sound(bal', books')
  <2>1. CASE ok /\ permitted
    BY <2>1 DEF DeliverTx
  <2>2. CASE ~(ok /\ permitted)
    BY <1>1, <2>2, PaidSound DEF DeliverTx
  <2>3. QED BY <2>1, <2>2
<1>3. aborted' \in BOOLEAN
  BY DEF DeliverTx
<1>4. /\ phase' = "txs" /\ pos' = pos /\ doc' = doc /\ memory' = memory
      /\ later' = later /\ panic' = panic /\ txs' = txs + 1
  BY <1>1 DEF DeliverTx
<1>5. ChainTypeOK'
  BY <1>2, <1>3, <1>4 DEF FlowInv, ChainTypeOK, memory, Sound
<1>6. QED BY <1>2, <1>4, <1>5 DEF FlowInv

LEMMA SoundIf ==
  ASSUME NEW b \in [Holders -> Nat], NEW k \in Books, k.bonded > 0,
         b["bonded_tokens_pool"] = k.bonded, b["not_bonded_tokens_pool"] = k.unbonding,
         b["distribution"] = k.owed + k.pool, b["gov"] >= k.deposits
  PROVE  Sound(b, k)
BY DEF Sound, Balanced

LEMMA BooksInTransactions ==
  ASSUME FlowInv, Transactions PROVE FlowInv'
<1>1. CASE DeliverTxsEnd
  BY <1>1 DEF DeliverTxsEnd, FlowInv, ChainTypeOK, memory
<1>2. ASSUME ~DeliverTxsEnd PROVE FlowInv'
  <2>1. phase = "txs" /\ bal["users"] > 0 /\ Sound(bal, books)
    BY <1>2 DEF Transactions, Delegate, Undelegate, WithdrawRewards, FundCommunityPool,
       Deposit, Send, ReceivePacket, BurnThrough, DeliverTx, FlowInv
  <2>2. /\ Paid \in [Holders -> Nat] /\ books \in Books /\ books.bonded > 0
        /\ HasCoin => 1 <= Paid["users"]
        /\ {"users", "bonded_tokens_pool", "not_bonded_tokens_pool", "distribution", "gov"}
             \subseteq Holders
    BY <2>1, PaidSound, Accounts DEF Sound, HasCoin
  <2>3. /\ Paid["bonded_tokens_pool"] = books.bonded
        /\ Paid["not_bonded_tokens_pool"] = books.unbonding
        /\ Paid["distribution"] = books.owed + books.pool
        /\ Paid["gov"] >= books.deposits
    BY <2>1, PaidSound DEF Sound, Balanced
  <2>4. /\ \A p \in Holders : Paid[p] \in Nat
        /\ {books.bonded, books.unbonding, books.owed, books.pool, books.deposits} \subseteq Nat
    BY <2>2 DEF Books
  <2>5. CASE Delegate
    <3> DEFINE b == Pay(Paid, "users", "bonded_tokens_pool", 1)
               k == [books EXCEPT !.bonded = @ + 1]
    <3>1. ASSUME HasCoin PROVE Sound(b, k)
      <4>1. Moved(b, Paid, "users", "bonded_tokens_pool", 1)
        BY <2>2, <3>1, Paying
      <4>2. /\ k \in Books /\ k.bonded = books.bonded + 1 /\ k.unbonding = books.unbonding
            /\ k.owed = books.owed /\ k.pool = books.pool /\ k.deposits = books.deposits
        BY <2>2 DEF Books
      <4> HIDE DEF b, k
      <4>3. QED BY <2>2, <2>3, <2>4, <4>1, <4>2, SoundIf DEF Moved
    <3>2. QED BY <2>5, <3>1, Delivering DEF Delegate
  <2>6. CASE Undelegate
    <3> DEFINE b == Pay(Paid, "bonded_tokens_pool", "not_bonded_tokens_pool", 1)
               k == [books EXCEPT !.bonded = @ - 1, !.unbonding = @ + 1]
    <3>1. ASSUME books.bonded > 1 PROVE Sound(b, k)
      <4>1. Moved(b, Paid, "bonded_tokens_pool", "not_bonded_tokens_pool", 1)
        BY <2>2, <2>3, <2>4, <3>1, Paying
      <4>2. /\ k \in Books /\ k.bonded = books.bonded - 1
            /\ k.unbonding = books.unbonding + 1
            /\ k.owed = books.owed /\ k.pool = books.pool /\ k.deposits = books.deposits
        <5>1. PICK x \in Nat, y \in Nat : x = books.bonded - 1 /\ y = books.unbonding + 1
          BY <2>4, <3>1
        <5>2. k = [books EXCEPT !.bonded = x, !.unbonding = y]
          BY <5>1
        <5> HIDE DEF k
        <5>3. QED BY <2>2, <5>1, <5>2 DEF Books
      <4> HIDE DEF b, k
      <4>3. QED BY <2>2, <2>3, <2>4, <3>1, <4>1, <4>2, SoundIf DEF Moved
    <3>2. QED BY <2>6, <3>1, Delivering DEF Undelegate
  <2>7. CASE WithdrawRewards
    <3> DEFINE b == Pay(Paid, "distribution", "users", 1)
               k == [books EXCEPT !.owed = @ - 1]
    <3>1. ASSUME books.owed > 0 PROVE Sound(b, k)
      <4>4. Paid["distribution"] >= 1
        BY <2>3, <2>4, <3>1
      <4>1. Moved(b, Paid, "distribution", "users", 1)
        BY <2>2, <4>4, Paying
      <4>2. /\ k \in Books /\ k.bonded = books.bonded /\ k.unbonding = books.unbonding
            /\ k.owed = books.owed - 1 /\ k.pool = books.pool /\ k.deposits = books.deposits
        BY <2>2, <3>1 DEF Books
      <4> HIDE DEF b, k
      <4>3. QED BY <2>2, <2>3, <2>4, <3>1, <4>1, <4>2, SoundIf DEF Moved
    <3>2. QED BY <2>7, <3>1, Delivering DEF WithdrawRewards
  <2>8. CASE FundCommunityPool
    <3> DEFINE b == Pay(Paid, "users", "distribution", 1)
               k == [books EXCEPT !.pool = @ + 1]
    <3>1. ASSUME HasCoin PROVE Sound(b, k)
      <4>1. Moved(b, Paid, "users", "distribution", 1)
        BY <2>2, <3>1, Paying
      <4>2. /\ k \in Books /\ k.bonded = books.bonded /\ k.unbonding = books.unbonding
            /\ k.owed = books.owed /\ k.pool = books.pool + 1 /\ k.deposits = books.deposits
        BY <2>2 DEF Books
      <4> HIDE DEF b, k
      <4>3. QED BY <2>2, <2>3, <2>4, <4>1, <4>2, SoundIf DEF Moved
    <3>2. QED BY <2>8, <3>1, Delivering DEF FundCommunityPool
  <2>9. CASE Deposit
    <3> DEFINE b == Pay(Paid, "users", "gov", 1)
               k == [books EXCEPT !.deposits = @ + 1]
    <3>1. ASSUME HasCoin PROVE Sound(b, k)
      <4>1. Moved(b, Paid, "users", "gov", 1)
        BY <2>2, <3>1, Paying
      <4>2. /\ k \in Books /\ k.bonded = books.bonded /\ k.unbonding = books.unbonding
            /\ k.owed = books.owed /\ k.pool = books.pool /\ k.deposits = books.deposits + 1
        BY <2>2 DEF Books
      <4> HIDE DEF b, k
      <4>3. QED BY <2>2, <2>3, <2>4, <4>1, <4>2, SoundIf DEF Moved
    <3>2. QED BY <2>9, <3>1, Delivering DEF Deposit
  <2>10. ASSUME NEW to \in ModuleAccounts, Send(to) PROVE FlowInv'
    <3> DEFINE b == Pay(Paid, "users", to, 1)
    <3>1. ASSUME HasCoin, to \notin BlockedAddresses PROVE Sound(b, books)
      <4>1. to = "gov"
        BY <3>1 DEF BlockedAddresses
      <4>2. Moved(b, Paid, "users", "gov", 1)
        BY <2>2, <3>1, <4>1, Paying
      <4> HIDE DEF b
      <4>3. QED BY <2>2, <2>3, <2>4, <4>2, SoundIf DEF Moved
    <3>2. QED BY <2>10, <3>1, Delivering DEF Send
  <2>11. ASSUME NEW to \in ModuleAccounts, ReceivePacket(to) PROVE FlowInv'
    <3> DEFINE b == Mint(Paid, to, 1)
    <3>1. ASSUME to \notin BlockedAddresses PROVE Sound(b, books)
      <4>1. to = "gov"
        BY <3>1 DEF BlockedAddresses
      <4>2. b \in [Holders -> Nat] /\ \A h \in Holders :
              b[h] = IF h = "gov" THEN Paid[h] + 1 ELSE Paid[h]
        <5>1. "gov" \in Holders /\ 1 \in Nat /\ Paid \in [Holders -> Nat]
          BY <2>2
        <5>2. QED BY <4>1, <5>1, Minting
      <4> HIDE DEF b
      <4>3. QED BY <2>2, <2>3, <2>4, <4>2, SoundIf
    <3>2. QED BY <2>11, <3>1, Delivering DEF ReceivePacket
  <2>12. ASSUME NEW a \in {"transfer", "wasm"}, BurnThrough(a) PROVE FlowInv'
    <3> DEFINE b == Burn(Paid, "users", 1)
    <3>1. ASSUME HasCoin PROVE Sound(b, books)
      <4>1. b \in [Holders -> Nat] /\ \A h \in Holders :
              b[h] = IF h = "users" THEN Paid[h] - 1 ELSE Paid[h]
        BY <2>2, <3>1, Burning
      <4> HIDE DEF b
      <4>2. QED BY <2>2, <2>3, <2>4, <4>1, SoundIf
    <3>2. QED BY <2>12, <3>1, Delivering DEF BurnThrough
  <2>13. QED
    BY <1>2, <2>5, <2>6, <2>7, <2>8, <2>9, <2>10, <2>11, <2>12 DEF Transactions
<1>3. QED BY <1>1, <1>2

(* So does a module's turn in a block, if it keeps its own.                *)
LEMMA Passing ==
  ASSUME FlowInv, phase \in {"begin", "end"}, NEW ok, NEW reason, Pass(ok, reason),
         ok \/ reason \in {"permission", "keys"}, Sound(bal', books'),
         caps' \in BOOLEAN, claimed' = claimed, keys' = keys
  PROVE  FlowInv'
<1>1. /\ panic' \in {"none", "permission", "keys"} /\ pos' \in Nat \ {0}
      /\ phase' = phase /\ doc' = doc /\ later' = later /\ txs' = txs
      /\ aborted' = aborted
  BY DEF FlowInv, ChainTypeOK, Pass
<1>2. ChainTypeOK'
  BY <1>1 DEF FlowInv, ChainTypeOK, Sound
<1>3. QED BY <1>1, <1>2 DEF FlowInv

LEMMA BooksInBeginBlock ==
  ASSUME FlowInv, BeginBlock PROVE FlowInv'
<1>1. CASE BeginBlockEnds
  BY <1>1 DEF BeginBlockEnds, Done, FlowInv, ChainTypeOK, memory, Sound
<1>2. ASSUME ~BeginBlockEnds PROVE FlowInv'
  <2>1. phase = "begin" /\ Sound(bal, books)
    BY <1>2 DEF BeginBlock, BeginCapability, BeginMint, BeginDistribution, NoSlash, Slash,
       Turn, FlowInv
  <2>2. /\ bal \in [Holders -> Nat] /\ books \in Books /\ books.bonded > 0
        /\ bal["bonded_tokens_pool"] = books.bonded
        /\ bal["not_bonded_tokens_pool"] = books.unbonding
        /\ bal["distribution"] = books.owed + books.pool
        /\ bal["gov"] >= books.deposits
    BY <2>1 DEF Sound, Balanced
  <2>3. /\ {"users", "fee_collector", "bonded_tokens_pool", "not_bonded_tokens_pool",
            "distribution", "gov"} \subseteq Holders
        /\ \A h \in Holders : bal[h] \in Nat
        /\ {books.bonded, books.unbonding, books.owed, books.pool, books.deposits} \subseteq Nat
    BY <2>2, Accounts DEF Books
  <2>4. {caps, claimed, keys} \subseteq BOOLEAN
    BY DEF FlowInv, ChainTypeOK
  <2>5. CASE BeginCapability
    <3>1. Pass(TRUE, "begin") /\ bal' = bal /\ books' = books /\ caps' \in BOOLEAN
          /\ claimed' = claimed /\ keys' = keys
      BY <2>5 DEF BeginCapability
    <3>2. QED BY <2>1, <3>1, Passing
  <2>6. CASE BeginMint
    <3>1. PICK n \in 0 .. 1 : bal' = Mint(bal, "fee_collector", n)
      BY <2>6, Permissions DEF BeginMint
    <3>2. Pass(TRUE, "permission") /\ books' = books /\ memory' = memory
      BY <2>6, Permissions DEF BeginMint, Pass
    <3>3. Sound(bal', books)
      <4> n \in Nat /\ "fee_collector" \in Holders
        BY <2>3
      <4>1. bal' \in [Holders -> Nat] /\ \A h \in Holders :
              bal'[h] = IF h = "fee_collector" THEN bal[h] + n ELSE bal[h]
        BY <2>2, <3>1, Minting
      <4>2. QED BY <2>2, <2>3, <4>1, SoundIf
    <3>4. QED BY <2>1, <2>4, <3>2, <3>3, Passing DEF memory
  <2>7. CASE BeginDistribution
    <3>1. PICK fees \in Nat, tax \in Nat :
            /\ fees <= bal["fee_collector"] /\ tax <= fees
            /\ bal' = Pay(bal, "fee_collector", "distribution", fees)
            /\ books' = [books EXCEPT !.owed = @ + (fees - tax), !.pool = @ + tax]
      <4> DEFINE fees == IF later THEN bal["fee_collector"] ELSE 0
      <4>1. fees \in Nat /\ fees <= bal["fee_collector"]
        BY <2>3
      <4>2. \E tax \in 0 .. fees :
              /\ bal' = Pay(bal, "fee_collector", "distribution", fees)
              /\ books' = [books EXCEPT !.owed = @ + (fees - tax), !.pool = @ + tax]
        BY <2>7, Zenon DEF BeginDistribution
      <4> HIDE DEF fees
      <4>3. \A tax \in 0 .. fees : tax \in Nat /\ tax <= fees
        BY <4>1
      <4>4. QED BY <4>1, <4>2, <4>3, Zenon
    <3>2. Pass(TRUE, "begin") /\ memory' = memory
      BY <2>7 DEF BeginDistribution
    <3>3. Moved(bal', bal, "fee_collector", "distribution", fees)
      BY <2>2, <2>3, <3>1, Paying
    <3>4. PICK x \in Nat, y \in Nat : x = books.owed + (fees - tax) /\ y = books.pool + tax
      BY <2>3, <3>1
    <3>5. books' = [books EXCEPT !.owed = x, !.pool = y]
      BY <3>1, <3>4
    <3>6. /\ books' \in Books /\ books'.bonded = books.bonded
          /\ books'.unbonding = books.unbonding /\ books'.owed = x /\ books'.pool = y
          /\ books'.deposits = books.deposits
      BY <2>2, <3>4, <3>5 DEF Books
    <3>7. x + y = books.owed + books.pool + fees
      BY <2>3, <3>1, <3>4
    <3>8. Sound(bal', books')
      BY <2>2, <2>3, <3>3, <3>6, <3>7, SoundIf DEF Moved
    <3>9. QED BY <2>1, <2>4, <3>2, <3>8, Passing DEF memory
  <2>8. ASSUME NEW m \in {"slashing", "evidence"}, NoSlash(m) PROVE FlowInv'
    <3>1. /\ Pass(keys \/ ~later \/ m = "evidence", "keys")
          /\ bal' = bal /\ books' = books /\ memory' = memory
      BY <2>8 DEF NoSlash
    <3>2. QED BY <2>1, <2>4, <3>1, Passing DEF memory
  <2>9. ASSUME NEW m \in {"slashing", "evidence"}, Slash(m, "bonded") PROVE FlowInv'
    <3>1. /\ books.bonded > 1 /\ Pass(TRUE, "permission") /\ memory' = memory
          /\ bal' = Burn(bal, "bonded_tokens_pool", 1)
          /\ books' = [books EXCEPT !.bonded = @ - 1]
      BY <2>9, Permissions DEF Slash, Pass
    <3> "bonded_tokens_pool" \in Holders /\ 1 <= bal["bonded_tokens_pool"]
      BY <2>2, <2>3, <3>1
    <3>2. bal' \in [Holders -> Nat] /\ \A h \in Holders :
            bal'[h] = IF h = "bonded_tokens_pool" THEN bal[h] - 1 ELSE bal[h]
      <4>1. bal \in [Holders -> Nat] /\ bal' = Burn(bal, "bonded_tokens_pool", 1)
        BY <2>2, <3>1
      <4>2. QED BY <4>1, Burning
    <3>3. /\ books' \in Books /\ books'.bonded = books.bonded - 1
          /\ books'.unbonding = books.unbonding /\ books'.owed = books.owed
          /\ books'.pool = books.pool /\ books'.deposits = books.deposits
      BY <2>2, <3>1 DEF Books
    <3>4. Sound(bal', books')
      <4>1. /\ books'.bonded > 0 /\ bal'["bonded_tokens_pool"] = books'.bonded
            /\ bal'["not_bonded_tokens_pool"] = books'.unbonding
        BY <2>2, <2>3, <3>1, <3>2, <3>3
      <4>2. /\ bal'["distribution"] = books'.owed + books'.pool
            /\ bal'["gov"] >= books'.deposits
        BY <2>2, <2>3, <3>2, <3>3
      <4>3. QED BY <3>2, <3>3, <4>1, <4>2, SoundIf
    <3>5. QED BY <2>1, <2>4, <3>1, <3>4, Passing DEF memory
  <2>10. ASSUME NEW m \in {"slashing", "evidence"}, Slash(m, "unbonding") PROVE FlowInv'
    <3>1. /\ books.unbonding > 0 /\ Pass(TRUE, "permission") /\ memory' = memory
          /\ bal' = Burn(bal, "not_bonded_tokens_pool", 1)
          /\ books' = [books EXCEPT !.unbonding = @ - 1]
      BY <2>10, Permissions DEF Slash, Pass
    <3> "not_bonded_tokens_pool" \in Holders /\ 1 <= bal["not_bonded_tokens_pool"]
      BY <2>2, <2>3, <3>1
    <3>2. bal' \in [Holders -> Nat] /\ \A h \in Holders :
            bal'[h] = IF h = "not_bonded_tokens_pool" THEN bal[h] - 1 ELSE bal[h]
      <4>1. bal \in [Holders -> Nat] /\ bal' = Burn(bal, "not_bonded_tokens_pool", 1)
        BY <2>2, <3>1
      <4>2. QED BY <4>1, Burning
    <3>3. /\ books' \in Books /\ books'.bonded = books.bonded
          /\ books'.unbonding = books.unbonding - 1 /\ books'.owed = books.owed
          /\ books'.pool = books.pool /\ books'.deposits = books.deposits
      BY <2>2, <3>1 DEF Books
    <3>4. Sound(bal', books')
      <4>1. /\ books'.bonded > 0 /\ bal'["bonded_tokens_pool"] = books'.bonded
            /\ bal'["not_bonded_tokens_pool"] = books'.unbonding
        BY <2>2, <2>3, <3>1, <3>2, <3>3
      <4>2. /\ bal'["distribution"] = books'.owed + books'.pool
            /\ bal'["gov"] >= books'.deposits
        BY <2>2, <2>3, <3>2, <3>3
      <4>3. QED BY <3>2, <3>3, <4>1, <4>2, SoundIf
    <3>5. QED BY <2>1, <2>4, <3>1, <3>4, Passing DEF memory
  <2>11. QED
    BY <1>2, <2>5, <2>6, <2>7, <2>8, <2>9, <2>10 DEF BeginBlock
<1>3. QED BY <1>1, <1>2

LEMMA BooksInEndBlock ==
  ASSUME FlowInv, EndBlock PROVE FlowInv'
<1>1. CASE CommitBlock
  BY <1>1 DEF CommitBlock, Done, FlowInv, ChainTypeOK, memory, Sound
<1>2. ASSUME ~CommitBlock PROVE FlowInv'
  <2>1. phase = "end" /\ Sound(bal, books)
    BY <1>2 DEF EndBlock, EndCrisis, EndGov, EndStaking, Turn, FlowInv
  <2>2. /\ bal \in [Holders -> Nat] /\ books \in Books /\ books.bonded > 0
        /\ bal["bonded_tokens_pool"] = books.bonded
        /\ bal["not_bonded_tokens_pool"] = books.unbonding
        /\ bal["distribution"] = books.owed + books.pool
        /\ bal["gov"] >= books.deposits
    BY <2>1 DEF Sound, Balanced
  <2>3. /\ {"users", "bonded_tokens_pool", "not_bonded_tokens_pool", "distribution", "gov"}
             \subseteq Holders
        /\ \A h \in Holders : bal[h] \in Nat
        /\ {books.bonded, books.unbonding, books.owed, books.pool, books.deposits} \subseteq Nat
    BY <2>2, Accounts DEF Books
  <2>4. {caps, claimed, keys} \subseteq BOOLEAN
    BY DEF FlowInv, ChainTypeOK
  <2>5. CASE EndCrisis
    <3>1. /\ \E asserted \in BOOLEAN : Pass(asserted => Balanced(bal, books), "invariant")
          /\ bal' = bal /\ books' = books /\ memory' = memory
      BY <2>5 DEF EndCrisis
    <3>2. Pass(TRUE, "invariant")
      BY <2>1, <3>1 DEF Sound, Pass
    <3>3. QED BY <2>1, <2>4, <3>1, <3>2, Passing DEF memory
  <2>6. CASE EndGov
    <3>1. memory' = memory
      BY <2>6 DEF EndGov
    <3>2. CASE Pass(TRUE, "end") /\ UNCHANGED <<bal, books>>
      BY <2>1, <2>4, <3>1, <3>2, Passing DEF memory
    <3>3. ASSUME books.deposits > 0, Pass(TRUE, "end"), bal' = Pay(bal, "gov", "users", 1),
                 books' = [books EXCEPT !.deposits = @ - 1]
          PROVE  FlowInv'
      <4>1. "gov" \in Holders /\ "users" \in Holders /\ 1 <= bal["gov"]
        BY <2>2, <2>3, <3>3
      <4>2. Moved(bal', bal, "gov", "users", 1)
        BY <2>2, <3>3, <4>1, Paying
      <4>3. /\ books' \in Books /\ books'.bonded = books.bonded
            /\ books'.unbonding = books.unbonding /\ books'.owed = books.owed
            /\ books'.pool = books.pool /\ books'.deposits = books.deposits - 1
        BY <2>2, <3>3 DEF Books
      <4>4. Sound(bal', books')
        BY <2>2, <2>3, <4>1, <4>2, <4>3, SoundIf DEF Moved
      <4>5. QED BY <2>1, <2>4, <3>1, <3>3, <4>4, Passing DEF memory
    <3>4. ASSUME books.deposits > 0, Pass(TRUE, "permission"), bal' = Burn(bal, "gov", 1),
                 books' = [books EXCEPT !.deposits = @ - 1]
          PROVE  FlowInv'
      <4>1. "gov" \in Holders /\ 1 <= bal["gov"]
        BY <2>2, <2>3, <3>4
      <4>2. bal' \in [Holders -> Nat] /\ \A h \in Holders :
              bal'[h] = IF h = "gov" THEN bal[h] - 1 ELSE bal[h]
        BY <2>2, <3>4, <4>1, Burning
      <4>3. /\ books' \in Books /\ books'.bonded = books.bonded
            /\ books'.unbonding = books.unbonding /\ books'.owed = books.owed
            /\ books'.pool = books.pool /\ books'.deposits = books.deposits - 1
        BY <2>2, <3>4 DEF Books
      <4>4. Sound(bal', books')
        BY <2>2, <2>3, <4>1, <4>2, <4>3, SoundIf
      <4>5. QED BY <2>1, <2>4, <3>1, <3>4, <4>4, Passing DEF memory
    <3>5. ASSUME books.pool > 0, Pass(TRUE, "end"),
                 bal' = Pay(bal, "distribution", "users", 1),
                 books' = [books EXCEPT !.pool = @ - 1]
          PROVE  FlowInv'
      <4>1. "distribution" \in Holders /\ "users" \in Holders /\ 1 <= bal["distribution"]
        BY <2>2, <2>3, <3>5
      <4>2. Moved(bal', bal, "distribution", "users", 1)
        BY <2>2, <3>5, <4>1, Paying
      <4>3. /\ books' \in Books /\ books'.bonded = books.bonded
            /\ books'.unbonding = books.unbonding /\ books'.owed = books.owed
            /\ books'.pool = books.pool - 1 /\ books'.deposits = books.deposits
        BY <2>2, <3>5 DEF Books
      <4>4. Sound(bal', books')
        BY <2>2, <2>3, <4>1, <4>2, <4>3, SoundIf DEF Moved
      <4>5. QED BY <2>1, <2>4, <3>1, <3>5, <4>4, Passing DEF memory
    <3>6. Pass(May("gov", "burner"), "permission") => Pass(TRUE, "permission")
      BY Permissions DEF Pass
    <3>7. QED BY <2>6, <3>2, <3>3, <3>4, <3>5, <3>6 DEF EndGov
  <2>7. CASE EndStaking
    <3> DEFINE seats(left) == Pay(bal, "bonded_tokens_pool", "not_bonded_tokens_pool", left)
    <3>1. /\ Pass(TRUE, "end") /\ memory' = memory
          /\ \E left, mature \in 0 .. 1 :
               /\ left = 0 \/ left < books.bonded
               /\ mature <= books.unbonding
               /\ bal' = Pay(seats(left), "not_bonded_tokens_pool", "users", mature)
               /\ books' = [books EXCEPT !.bonded = @ - left,
                                         !.unbonding = (@ + left) - mature]
      BY <2>7, Zenon DEF EndStaking
    <3>2. PICK left \in 0 .. 1, mature \in 0 .. 1 :
               /\ left = 0 \/ left < books.bonded
               /\ mature <= books.unbonding
               /\ bal' = Pay(seats(left), "not_bonded_tokens_pool", "users", mature)
               /\ books' = [books EXCEPT !.bonded = @ - left,
                                         !.unbonding = (@ + left) - mature]
      BY <3>1, Zenon
    <3>3. /\ left \in Nat /\ mature \in Nat /\ left <= bal["bonded_tokens_pool"]
          /\ left < books.bonded /\ mature <= books.unbonding
      BY <2>2, <2>3, <3>2
    <3>4. Moved(seats(left), bal, "bonded_tokens_pool", "not_bonded_tokens_pool", left)
      BY <2>2, <2>3, <3>3, Paying
    <3>5. PICK c : c = seats(left)
      OBVIOUS
    <3> HIDE DEF seats
    <3>6. /\ c \in [Holders -> Nat] /\ mature <= c["not_bonded_tokens_pool"]
          /\ bal' = Pay(c, "not_bonded_tokens_pool", "users", mature)
      BY <2>2, <2>3, <3>2, <3>3, <3>4, <3>5 DEF Moved
    <3>7. Moved(bal', c, "not_bonded_tokens_pool", "users", mature)
      BY <2>3, <3>3, <3>6, Paying
    <3>8. PICK x \in Nat, y \in Nat :
            x = books.bonded - left /\ y = (books.unbonding + left) - mature
      BY <2>3, <3>3
    <3>9. books' = [books EXCEPT !.bonded = x, !.unbonding = y]
      BY <3>2, <3>8
    <3>10. /\ books' \in Books /\ books'.bonded = x /\ books'.unbonding = y
           /\ books'.owed = books.owed /\ books'.pool = books.pool
           /\ books'.deposits = books.deposits
      BY <2>2, <3>8, <3>9 DEF Books
    <3>11. /\ bal'["bonded_tokens_pool"] = x /\ bal'["not_bonded_tokens_pool"] = y
           /\ bal'["distribution"] = bal["distribution"] /\ bal'["gov"] = bal["gov"]
           /\ bal' \in [Holders -> Nat] /\ x > 0
      BY <2>2, <2>3, <3>3, <3>4, <3>5, <3>7, <3>8 DEF Moved
    <3>12. Sound(bal', books')
      BY <2>2, <3>10, <3>11, SoundIf
    <3>13. QED BY <2>1, <2>4, <3>1, <3>12, Passing DEF memory
  <2>8. QED BY <1>2, <2>5, <2>6, <2>7 DEF EndBlock
<1>3. QED BY <1>1, <1>2

(***************************************************************************)
(* The genesis order.  What the module whose turn it is finds depends on   *)
(* the genesis file and on its place in the order only: capability first,  *)
(* bank third, distribution, staking, slashing, gov, genutil ninth,        *)
(* transfer eighteenth, wasm, crisis last.                                 *)
(***************************************************************************)

Accepted(d) ==
  /\ Balanced(d.bal, d.books) /\ d.gentx <= d.bal["users"]
  /\ d.gentx > 0 \/ d.books.bonded > 0

Initialized ==
  /\ Accepted(doc)
  /\ pos = 1 => ~claimed
  /\ pos > 1 => caps
  /\ pos > 3 => \A h \in Holders \ {"users", "bonded_tokens_pool"} : bal[h] = doc.bal[h]
  /\ pos > 3 /\ pos <= 9 => bal = doc.bal
  /\ pos > 9 => /\ bal["users"] = doc.bal["users"] - doc.gentx
                /\ bal["bonded_tokens_pool"] = doc.bal["bonded_tokens_pool"] + doc.gentx
                /\ books.bonded = doc.books.bonded + doc.gentx
  /\ pos > 4 => books.owed = doc.books.owed /\ books.pool = doc.books.pool
  /\ pos > 5 => books.unbonding = doc.books.unbonding
  /\ pos > 5 /\ pos <= 9 => books.bonded = doc.books.bonded
  /\ pos > 6 /\ doc.books.bonded > 0 => keys
  /\ pos > 7 => books.deposits = doc.books.deposits
  /\ pos > 9 => keys
  /\ pos > 18 => claimed

Equipped ==
  /\ phase = "genesis" /\ panic = "none" => Initialized
  /\ panic = "genesis" => doc.bal["gov"] > doc.books.deposits
  /\ panic # "keys"
  /\ phase # "genesis" => claimed /\ keys
  /\ phase = "begin" /\ pos > 2 => caps
  /\ phase \in {"txs", "end"} => caps

LEMMA BeginPositions ==
  ASSUME NEW m, Turn("begin", m), pos \in Nat \ {0}
  PROVE  /\ m = "capability" => pos = 2
         /\ m = "mint" => pos = 3
         /\ m = "distribution" => pos = 4
         /\ m \in {"slashing", "evidence"} => pos \in {5, 6}
         /\ pos = 2 => m = "capability"
         /\ pos = 4 => m = "distribution"
<1>1. Len(SetOrderBeginBlockers) = 22
  BY DEF SetOrderBeginBlockers
<1>2. Orders["begin"] = SetOrderBeginBlockers
  BY DEF Orders
<1>3. pos <= Len(Orders["begin"]) /\ m = Orders["begin"][pos]
  BY Zenon DEF Turn
<1>4. pos \in 1 .. 22 /\ m = SetOrderBeginBlockers[pos]
  <2>1. pos <= 22
    BY <1>1, <1>2, <1>3, Zenon
  <2>2. QED BY <1>2, <1>3, <2>1
<1>5. QED BY <1>4 DEF SetOrderBeginBlockers

LEMMA GenesisPositions ==
  ASSUME NEW m, Turn("genesis", m), pos \in Nat \ {0}
  PROVE  /\ pos <= 22
         /\ m = "capability" <=> pos = 1
         /\ m = "bank" <=> pos = 3
         /\ m = "distribution" <=> pos = 4
         /\ m = "staking" <=> pos = 5
         /\ m = "slashing" <=> pos = 6
         /\ m = "gov" <=> pos = 7
         /\ m = "genutil" <=> pos = 9
         /\ m = "transfer" <=> pos = 18
         /\ m = "wasm" <=> pos = 21
         /\ m = "crisis" <=> pos = 22
<1>1. Len(SetOrderInitGenesis) = 22
  BY DEF SetOrderInitGenesis
<1>2. Orders["genesis"] = SetOrderInitGenesis
  BY DEF Orders
<1>3. pos <= Len(Orders["genesis"]) /\ m = Orders["genesis"][pos]
  BY Zenon DEF Turn
<1>4. pos \in 1 .. 22 /\ m = SetOrderInitGenesis[pos]
  <2>1. pos <= 22
    BY <1>1, <1>2, <1>3, Zenon
  <2>2. QED BY <1>2, <1>3, <2>1
<1>5. QED BY <1>4 DEF SetOrderInitGenesis

(* What FlowInv says of the state, for the arithmetic below.               *)
LEMMA GenesisFacts ==
  ASSUME FlowInv
  PROVE  /\ pos \in Nat \ {0} /\ bal \in [Holders -> Nat] /\ books \in Books
         /\ doc.bal \in [Holders -> Nat] /\ doc.books \in Books /\ doc.gentx \in Nat
         /\ {"users", "bonded_tokens_pool", "not_bonded_tokens_pool", "distribution", "gov"}
              \subseteq Holders
         /\ \A h \in Holders : bal[h] \in Nat /\ doc.bal[h] \in Nat
         /\ \A k \in {books, doc.books} :
              k.bonded \in Nat /\ k.unbonding \in Nat /\ k.owed \in Nat /\ k.pool \in Nat
              /\ k.deposits \in Nat
BY Accounts DEF FlowInv, ChainTypeOK, Books

LEMMA EquippedInGenesis ==
  ASSUME FlowInv, Equipped, InitGenesis PROVE Equipped'
<1>1. phase = "genesis" /\ panic = "none" /\ Initialized /\ pos \in Nat \ {0}
  BY GenesisFacts DEF Equipped, InitGenesis, GenesisCapability, GenesisBank,
     GenesisDistribution, GenesisStaking, GenesisSlashing, GenesisGov, GenesisGenutil,
     GenesisTransfer, GenesisWasm, GenesisCrisis, InitChainEnds, Done, Turn
<1>2. ASSUME NEW ok, Pass(ok, "genesis"), ok => Initialized',
             ok \/ doc.bal["gov"] > doc.books.deposits
      PROVE  Equipped'
  BY <1>1, <1>2 DEF Pass, Equipped
<1>3. CASE GenesisCapability
  <2>1. pos = 1
    BY <1>1, <1>3, GenesisPositions DEF GenesisCapability
  <2>2. Pass(TRUE, "genesis") /\ caps' = TRUE /\ doc' = doc /\ pos' = pos + 1
        /\ UNCHANGED <<bal, books, claimed, keys>>
    BY <1>1, <1>3, <2>1 DEF GenesisCapability, Initialized, Pass
  <2>3. Initialized'
    BY <1>1, <2>1, <2>2 DEF Initialized
  <2>4. QED BY <1>2, <2>2, <2>3
<1>4. CASE GenesisBank
  <2>1. pos = 3
    BY <1>1, <1>4, GenesisPositions DEF GenesisBank
  <2>2. Pass(TRUE, "genesis") /\ bal' = doc.bal /\ doc' = doc /\ pos' = pos + 1
        /\ UNCHANGED <<books, caps, claimed, keys>>
    BY <1>4 DEF GenesisBank, Pass, memory
  <2>3. Initialized'
    BY <1>1, <2>1, <2>2 DEF Initialized
  <2>4. QED BY <1>2, <2>2, <2>3
<1>5. CASE GenesisDistribution
  <2>1. pos = 4
    BY <1>1, <1>5, GenesisPositions DEF GenesisDistribution
  <2>2. bal["distribution"] = doc.books.owed + doc.books.pool
    BY <1>1, <2>1 DEF Initialized, Accepted, Balanced
  <2>3. Pass(TRUE, "genesis") /\ doc' = doc /\ pos' = pos + 1
    BY <1>5, <2>2 DEF GenesisDistribution, Pass
  <2>4. /\ books' = [books EXCEPT !.owed = doc.books.owed, !.pool = doc.books.pool]
        /\ UNCHANGED <<bal, caps, claimed, keys>>
    BY <1>5 DEF GenesisDistribution, memory
  <2>5. /\ books'.owed = doc.books.owed /\ books'.pool = doc.books.pool
    BY <2>4, GenesisFacts DEF Books
  <2>6. Initialized'
    BY <1>1, <2>1, <2>3, <2>4, <2>5 DEF Initialized
  <2>7. QED BY <1>2, <2>3, <2>6
<1>6. CASE GenesisStaking
  <2>1. pos = 5
    BY <1>1, <1>6, GenesisPositions DEF GenesisStaking
  <2>2. /\ bal["bonded_tokens_pool"] = doc.books.bonded
        /\ bal["not_bonded_tokens_pool"] = doc.books.unbonding
    BY <1>1, <2>1 DEF Initialized, Accepted, Balanced
  <2>3. Pass(TRUE, "genesis") /\ doc' = doc /\ pos' = pos + 1
    BY <1>6, <2>2 DEF GenesisStaking, Pass
  <2>4. /\ books' = [books EXCEPT !.bonded = doc.books.bonded,
                                  !.unbonding = doc.books.unbonding]
        /\ UNCHANGED <<bal, caps, claimed, keys>>
    BY <1>6 DEF GenesisStaking, memory
  <2>5. /\ books'.bonded = doc.books.bonded /\ books'.unbonding = doc.books.unbonding
        /\ books'.owed = books.owed /\ books'.pool = books.pool
    BY <2>4, GenesisFacts DEF Books
  <2>6. Initialized'
    BY <1>1, <2>1, <2>3, <2>4, <2>5 DEF Initialized
  <2>7. QED BY <1>2, <2>3, <2>6
<1>7. CASE GenesisSlashing
  <2>1. pos = 6
    BY <1>1, <1>7, GenesisPositions DEF GenesisSlashing
  <2>2. Pass(TRUE, "genesis") /\ doc' = doc /\ pos' = pos + 1
        /\ (books.bonded > 0 => keys') /\ UNCHANGED <<bal, books, caps, claimed>>
    BY <1>7 DEF GenesisSlashing, Pass
  <2>3. Initialized'
    BY <1>1, <2>1, <2>2 DEF Initialized
  <2>4. QED BY <1>2, <2>2, <2>3
<1>8. CASE GenesisGov
  <2>1. pos = 7
    BY <1>1, <1>8, GenesisPositions DEF GenesisGov
  <2>2. /\ bal["gov"] = doc.bal["gov"] /\ doc.bal["gov"] >= doc.books.deposits
    BY <1>1, <2>1, GenesisFacts DEF Initialized, Accepted, Balanced
  <2>3. CASE bal["gov"] = doc.books.deposits
    <3>1. Pass(TRUE, "genesis") /\ doc' = doc /\ pos' = pos + 1
      BY <1>8, <2>3 DEF GenesisGov, Pass
    <3>2. /\ books' = [books EXCEPT !.deposits = doc.books.deposits]
          /\ UNCHANGED <<bal, caps, claimed, keys>>
      BY <1>8 DEF GenesisGov, memory
    <3>3. /\ books'.bonded = books.bonded /\ books'.unbonding = books.unbonding
          /\ books'.owed = books.owed /\ books'.pool = books.pool
          /\ books'.deposits = doc.books.deposits
      BY <3>2, GenesisFacts DEF Books
    <3>4. Initialized'
      BY <1>1, <2>1, <3>1, <3>2, <3>3 DEF Initialized
    <3>5. QED BY <1>2, <3>1, <3>4
  <2>4. CASE bal["gov"] # doc.books.deposits
    <3>1. Pass(FALSE, "genesis")
      BY <1>8, <2>4 DEF GenesisGov, Pass
    <3>2. doc.bal["gov"] > doc.books.deposits
      BY <2>2, <2>4, GenesisFacts
    <3>3. QED BY <1>2, <3>1, <3>2
  <2>5. QED BY <2>3, <2>4
<1>9. CASE GenesisGenutil
  <2>1. pos = 9
    BY <1>1, <1>9, GenesisPositions DEF GenesisGenutil
  <2>2. doc.gentx <= bal["users"] /\ bal = doc.bal /\ books.bonded = doc.books.bonded
        /\ (doc.gentx > 0 \/ keys)
    BY <1>1, <2>1 DEF Initialized, Accepted
  <2>3. Pass(TRUE, "genesis") /\ doc' = doc /\ pos' = pos + 1
    BY <1>9, <2>2 DEF GenesisGenutil, Pass
  <2>4. /\ bal' = Pay(bal, "users", "bonded_tokens_pool", doc.gentx)
        /\ books' = [books EXCEPT !.bonded = @ + doc.gentx]
        /\ keys' /\ caps' = caps /\ claimed' = claimed
    BY <1>9, <2>2 DEF GenesisGenutil
  <2>5. /\ books'.bonded = doc.books.bonded + doc.gentx
        /\ books'.unbonding = books.unbonding /\ books'.owed = books.owed
        /\ books'.pool = books.pool /\ books'.deposits = books.deposits
    BY <2>2, <2>4, GenesisFacts DEF Books
  <2>6. Moved(bal', bal, "users", "bonded_tokens_pool", doc.gentx)
    BY <2>2, <2>4, GenesisFacts, Paying
  <2>7. /\ bal'["users"] = doc.bal["users"] - doc.gentx
        /\ bal'["bonded_tokens_pool"] = doc.bal["bonded_tokens_pool"] + doc.gentx
        /\ \A h \in Holders \ {"users", "bonded_tokens_pool"} : bal'[h] = doc.bal[h]
    BY <2>2, <2>6, GenesisFacts DEF Moved
  <2>8. Initialized'
    BY <1>1, <2>1, <2>3, <2>4, <2>5, <2>7 DEF Initialized
  <2>9. QED BY <1>2, <2>3, <2>8
<1>10. CASE GenesisTransfer
  <2>1. pos = 18
    BY <1>1, <1>10, GenesisPositions DEF GenesisTransfer
  <2>2. Pass(TRUE, "genesis") /\ doc' = doc /\ pos' = pos + 1 /\ claimed' = TRUE
        /\ UNCHANGED <<bal, books, caps, keys>>
    BY <1>10 DEF GenesisTransfer, Pass
  <2>3. Initialized'
    BY <1>1, <2>1, <2>2 DEF Initialized
  <2>4. QED BY <1>2, <2>2, <2>3
<1>11. CASE GenesisWasm
  <2>1. pos = 21
    BY <1>1, <1>11, GenesisPositions DEF GenesisWasm
  <2>2. /\ caps /\ books.bonded > 0
        /\ doc.gentx < doc.bal["users"] => bal["users"] > 0
    BY <1>1, <2>1, GenesisFacts DEF Initialized, Accepted
  <2>3. Pass(TRUE, "genesis") /\ doc' = doc /\ pos' = pos + 1 /\ claimed' = TRUE
        /\ UNCHANGED <<bal, books, caps, keys>>
    BY <1>11, <2>2 DEF GenesisWasm, Pass
  <2>4. Initialized'
    BY <1>1, <2>1, <2>3 DEF Initialized
  <2>5. QED BY <1>2, <2>3, <2>4
<1>12. CASE GenesisCrisis
  <2>1. pos = 22
    BY <1>1, <1>12, GenesisPositions DEF GenesisCrisis
  <2>2. Balanced(bal, books)
    BY <1>1, <2>1, GenesisFacts DEF Initialized, Accepted, Balanced
  <2>3. Pass(TRUE, "genesis") /\ doc' = doc /\ pos' = pos + 1
        /\ UNCHANGED <<bal, books, caps, claimed, keys>>
    BY <1>12, <2>2 DEF GenesisCrisis, Pass, memory
  <2>4. Initialized'
    BY <1>1, <2>1, <2>3 DEF Initialized
  <2>5. QED BY <1>2, <2>3, <2>4
<1>13. CASE InitChainEnds
  <2>1. pos > 22
    BY <1>13, OrderLengths DEF InitChainEnds, Done, Orders
  <2>2. books.bonded > 0 /\ claimed /\ keys
    BY <1>1, <2>1, GenesisFacts DEF Initialized, Accepted
  <2>3. phase' = "begin" /\ pos' = 1 /\ panic' = panic /\ claimed' = claimed /\ keys' = keys
    BY <1>13, <2>2 DEF InitChainEnds, memory
  <2>4. QED BY <1>1, <2>2, <2>3 DEF Equipped
<1>14. QED
  BY <1>3, <1>4, <1>5, <1>6, <1>7, <1>8, <1>9, <1>10, <1>11, <1>12, <1>13 DEF InitGenesis

LEMMA EquippedInBlocks ==
  ASSUME FlowInv, Equipped, BeginBlock \/ Transactions \/ EndBlock PROVE Equipped'
<1>1. phase # "genesis" /\ panic = "none" /\ claimed /\ keys /\ pos \in Nat \ {0}
  BY GenesisFacts DEF Equipped, BeginBlock, BeginCapability, BeginMint,
     BeginDistribution, NoSlash, Slash, BeginBlockEnds, Transactions, Delegate,
     Undelegate, WithdrawRewards, FundCommunityPool, Deposit, Send, ReceivePacket,
     BurnThrough, DeliverTx, DeliverTxsEnd, EndBlock, EndCrisis, EndGov, EndStaking,
     CommitBlock, Done, Turn
<1>2. ASSUME NEW ok, NEW reason, Pass(ok, reason), UNCHANGED memory,
             ok \/ reason \in {"permission", "invariant"}, pos # 2 \/ phase # "begin"
      PROVE  Equipped'
  BY <1>1, <1>2 DEF Pass, Equipped, memory
<1>3. CASE BeginCapability
  BY <1>1, <1>3 DEF BeginCapability, Pass, Turn, Equipped
<1>4. CASE BeginMint \/ BeginDistribution
  <2>1. pos # 2 /\ UNCHANGED memory
    BY <1>1, <1>4, BeginPositions DEF BeginMint, BeginDistribution
  <2>2. PICK ok, reason : Pass(ok, reason) /\ (ok \/ reason \in {"permission", "invariant"})
    <3>1. Pass(TRUE, "begin") \/ Pass(May("mint", "minter"), "permission")
      BY <1>4 DEF BeginMint, BeginDistribution
    <3>2. QED BY <3>1
  <2>3. QED BY <1>2, <2>1, <2>2
<1>5. ASSUME NEW m \in {"slashing", "evidence"}, NoSlash(m) PROVE Equipped'
  <2>1. pos # 2 /\ UNCHANGED memory
    BY <1>1, <1>5, BeginPositions DEF NoSlash
  <2>2. Pass(TRUE, "keys")
    BY <1>1, <1>5 DEF NoSlash, Pass
  <2>3. QED BY <1>2, <2>1, <2>2
<1>6. ASSUME NEW m \in {"slashing", "evidence"}, NEW t \in {"bonded", "unbonding"}, Slash(m, t)
      PROVE  Equipped'
  <2>1. pos # 2 /\ UNCHANGED memory
    BY <1>1, <1>6, BeginPositions DEF Slash
  <2>2. Pass(TRUE, "permission")
    BY <1>6, Permissions DEF Slash, Pass
  <2>3. QED BY <1>2, <2>1, <2>2
<1>7. CASE BeginBlockEnds
  <2>1. phase = "begin" /\ pos > 22
    BY <1>7, OrderLengths DEF BeginBlockEnds, Done, Orders
  <2>2. QED BY <1>1, <1>7, <2>1 DEF BeginBlockEnds, Equipped, memory
<1>8. CASE Transactions
  <2>1. /\ phase = "txs" /\ phase' \in {"txs", "end"} /\ panic' = panic
        /\ caps' = caps /\ claimed' = claimed /\ keys' = keys
    BY <1>8 DEF Transactions, Delegate, Undelegate, WithdrawRewards, FundCommunityPool,
       Deposit, Send, ReceivePacket, BurnThrough, DeliverTx, DeliverTxsEnd, memory
  <2>2. QED BY <1>1, <2>1 DEF Equipped
<1>9. CASE CommitBlock
  BY <1>1, <1>9 DEF CommitBlock, Equipped, memory
<1>10. CASE EndCrisis \/ EndGov \/ EndStaking
  <2>1. phase = "end" /\ UNCHANGED memory
    BY <1>10 DEF EndCrisis, EndGov, EndStaking, Turn
  <2>2. PICK ok, reason : Pass(ok, reason) /\ (ok \/ reason \in {"permission", "invariant"})
    <3>1. \/ Pass(TRUE, "end") \/ Pass(May("gov", "burner"), "permission")
          \/ \E asserted \in BOOLEAN : Pass(asserted => Balanced(bal, books), "invariant")
      BY <1>10 DEF EndCrisis, EndGov, EndStaking
    <3>2. QED BY <3>1
  <2>3. QED BY <1>2, <2>1, <2>2
<1>11. QED
  BY <1>3, <1>4, <1>5, <1>6, <1>7, <1>8, <1>9, <1>10 DEF BeginBlock, EndBlock

LEMMA EquippedStep ==
  ASSUME FlowInv, Equipped, [ChainNext]_chainVars PROVE Equipped'
<1>1. CASE UNCHANGED chainVars
  BY <1>1 DEF chainVars, Equipped, Initialized, Accepted
<1>2. CASE Restart
  BY <1>2 DEF Restart, Equipped, Initialized, Accepted
<1>3. CASE Export
  <2>1. /\ panic' = "none" /\ phase' = "genesis" /\ pos' = 1 /\ claimed' = FALSE
        /\ doc' = [bal |-> bal, books |-> books, gentx |-> 0]
        /\ Balanced(bal, books) /\ books.bonded > 0
    BY <1>3 DEF Export, FlowInv, Sound
  <2>2. Accepted(doc')
    BY <2>1, GenesisFacts DEF Accepted
  <2>3. QED BY <2>1, <2>2 DEF Equipped, Initialized
<1>4. CASE Idle(phase)
  <2>1. /\ Turn(phase, Orders[phase][pos]) /\ Pass(TRUE, "none")
        /\ phase \in {"genesis", "begin", "end"}
        /\ Orders[phase][pos] \notin Acting[phase]
        /\ pos \in Nat \ {0} /\ panic = "none" /\ panic' = "none"
        /\ pos' = pos + 1 /\ phase' = phase /\ doc' = doc
        /\ UNCHANGED <<bal, books, caps, claimed, keys>>
    BY <1>4, GenesisFacts DEF Idle, Pass, Turn, Orders, memory
  <2>2. CASE phase = "genesis"
    <3>1. pos \notin {1, 3, 4, 5, 6, 7, 9, 18}
      <4>1. Orders[phase][pos] \notin {"capability", "bank", "distribution", "staking",
              "slashing", "gov", "genutil", "transfer", "wasm", "crisis"}
        BY <2>1, <2>2 DEF Acting
      <4>2. Turn("genesis", Orders[phase][pos])
        BY <2>1, <2>2
      <4>3. QED BY <2>1, <4>1, <4>2, GenesisPositions
    <3>2. Initialized
      BY <2>1, <2>2 DEF Equipped
    <3>3. Initialized'
      BY <2>1, <3>1, <3>2 DEF Initialized
    <3>4. QED BY <2>1, <2>2, <3>3 DEF Equipped
  <2>3. CASE phase # "genesis"
    <3>1. phase = "begin" => pos # 2
      <4>1. ASSUME phase = "begin" PROVE Orders[phase][pos] # "capability"
        BY <2>1, <4>1 DEF Acting
      <4>2. ASSUME phase = "begin" PROVE Turn("begin", Orders[phase][pos])
        BY <2>1, <4>2
      <4>3. QED BY <2>1, <4>1, <4>2, BeginPositions
    <3>2. QED BY <2>1, <2>3, <3>1 DEF Equipped
  <2>4. QED BY <2>2, <2>3
<1>5. QED
  BY <1>1, <1>2, <1>3, <1>4, EquippedInGenesis, EquippedInBlocks DEF ChainNext, Blocks

LEMMA EquippedInit == ChainInit => Equipped
<1> SUFFICES ASSUME ChainInit PROVE Equipped
  OBVIOUS
<1>1. Accepted(doc)
  BY GenesisAssumption DEF ChainInit, Accepted, Books, Holders
<1>2. QED BY <1>1 DEF ChainInit, Equipped, Initialized

(***************************************************************************)
(* The books in InitGenesis, and the invariant of the chain.               *)
(***************************************************************************)

(* In InitGenesis the books need not agree before the chain starts.        *)
LEMMA Initializing ==
  ASSUME FlowInv, NEW m, Turn("genesis", m), NEW ok, Pass(ok, "genesis"),
         bal' \in [Holders -> Nat], books' \in Books,
         {caps', claimed', keys'} \subseteq BOOLEAN
  PROVE  FlowInv'
<1>1. pos \in Nat \ {0}
  BY DEF FlowInv, ChainTypeOK
<1>2. /\ panic' \in {"none", "genesis"} /\ pos' \in Nat \ {0}
      /\ phase' = "genesis" /\ doc' = doc /\ later' = later /\ txs' = txs
      /\ aborted' = aborted
  BY <1>1 DEF Pass, Turn
<1>3. ChainTypeOK'
  BY <1>2 DEF FlowInv, ChainTypeOK
<1>4. QED BY <1>2, <1>3 DEF FlowInv

LEMMA BooksInGenesis ==
  ASSUME FlowInv, Equipped, InitGenesis PROVE FlowInv'
<1>1. /\ doc.bal \in [Holders -> Nat] /\ doc.books \in Books /\ doc.gentx \in Nat
      /\ bal \in [Holders -> Nat] /\ books \in Books
      /\ {caps, claimed, keys} \subseteq BOOLEAN
      /\ {doc.books.bonded, doc.books.unbonding, doc.books.owed, doc.books.pool,
          doc.books.deposits} \subseteq Nat
  BY DEF FlowInv, ChainTypeOK, Books
<1>2. CASE GenesisCapability
  BY <1>1, <1>2, Initializing DEF GenesisCapability
<1>3. CASE GenesisBank
  <2>1. Turn("genesis", "bank") /\ Pass(TRUE, "genesis") /\ bal' = doc.bal
        /\ books' = books /\ memory' = memory
    BY <1>3 DEF GenesisBank
  <2>2. QED BY <1>1, <2>1, Initializing DEF memory
<1>4. CASE GenesisDistribution
  <2>1. PICK ok : Turn("genesis", "distribution") /\ Pass(ok, "genesis")
    BY <1>4 DEF GenesisDistribution
  <2>2. /\ books' = [books EXCEPT !.owed = doc.books.owed, !.pool = doc.books.pool]
        /\ bal' = bal /\ memory' = memory
    BY <1>4 DEF GenesisDistribution
  <2>3. books' \in Books
    BY <1>1, <2>2 DEF Books
  <2>4. QED BY <1>1, <2>1, <2>2, <2>3, Initializing DEF memory
<1>5. CASE GenesisStaking
  <2>1. PICK ok : Turn("genesis", "staking") /\ Pass(ok, "genesis")
    BY <1>5 DEF GenesisStaking
  <2>2. /\ books' = [books EXCEPT !.bonded = doc.books.bonded,
                                  !.unbonding = doc.books.unbonding]
        /\ bal' = bal /\ memory' = memory
    BY <1>5 DEF GenesisStaking
  <2>3. books' \in Books
    BY <1>1, <2>2 DEF Books
  <2>4. QED BY <1>1, <2>1, <2>2, <2>3, Initializing DEF memory
<1>6. CASE GenesisGov
  <2>1. PICK ok : Turn("genesis", "gov") /\ Pass(ok, "genesis")
    BY <1>6 DEF GenesisGov
  <2>2. /\ books' = [books EXCEPT !.deposits = doc.books.deposits]
        /\ bal' = bal /\ memory' = memory
    BY <1>6 DEF GenesisGov
  <2>3. books' \in Books
    BY <1>1, <2>2 DEF Books
  <2>4. QED BY <1>1, <2>1, <2>2, <2>3, Initializing DEF memory
<1>7. CASE GenesisSlashing
  <2>1. Turn("genesis", "slashing") /\ Pass(TRUE, "genesis")
        /\ keys' \in BOOLEAN /\ UNCHANGED <<bal, books, caps, claimed>>
    BY <1>7 DEF GenesisSlashing
  <2>2. QED BY <1>1, <2>1, Initializing
<1>8. CASE GenesisGenutil
  <2>1. PICK ok : Turn("genesis", "genutil") /\ Pass(ok, "genesis")
    BY <1>8 DEF GenesisGenutil
  <2>2. CASE doc.gentx <= bal["users"]
    <3>1. /\ bal' = Pay(bal, "users", "bonded_tokens_pool", doc.gentx)
          /\ books' = [books EXCEPT !.bonded = @ + doc.gentx]
          /\ keys' \in BOOLEAN /\ UNCHANGED <<caps, claimed>>
      BY <1>8, <2>2 DEF GenesisGenutil
    <3>2. "users" \in Holders /\ "bonded_tokens_pool" \in Holders
      BY Accounts
    <3>5. Moved(bal', bal, "users", "bonded_tokens_pool", doc.gentx)
      BY <1>1, <2>2, <3>1, <3>2, Paying
    <3>3. books' \in Books
      BY <1>1, <3>1 DEF Books
    <3>4. QED BY <1>1, <2>1, <3>1, <3>5, <3>3, Initializing DEF Moved
  <2>3. CASE ~(doc.gentx <= bal["users"])
    <3>1. UNCHANGED <<bal, books, keys, caps, claimed>>
      BY <1>8, <2>3 DEF GenesisGenutil
    <3>2. QED BY <1>1, <2>1, <3>1, Initializing
  <2>4. QED BY <2>2, <2>3
<1>9. CASE GenesisTransfer
  BY <1>1, <1>9, Initializing DEF GenesisTransfer
<1>10. CASE GenesisWasm
  <2>1. PICK ok : Turn("genesis", "wasm") /\ Pass(ok, "genesis")
    BY <1>10 DEF GenesisWasm
  <2>2. claimed' = TRUE /\ UNCHANGED <<bal, books, caps, keys>>
    BY <1>10 DEF GenesisWasm
  <2>3. QED BY <1>1, <2>1, <2>2, Initializing
<1>11. CASE GenesisCrisis
  <2>1. PICK ok \in BOOLEAN : Turn("genesis", "crisis") /\ Pass(ok, "genesis")
    BY <1>11 DEF GenesisCrisis
  <2>2. UNCHANGED <<bal, books, memory>>
    BY <1>11 DEF GenesisCrisis
  <2>3. QED BY <1>1, <2>1, <2>2, Initializing DEF memory
<1>12. CASE InitChainEnds
  <2>1. phase = "genesis" /\ Balanced(bal, books)
    <3>1. phase = "genesis" /\ panic = "none" /\ pos > 22
      BY <1>12, OrderLengths DEF InitChainEnds, Done, Orders
    <3>2. Initialized
      BY <3>1 DEF Equipped
    <3>3. QED BY <3>1, <3>2, GenesisFacts DEF Initialized, Accepted, Balanced
  <2>2. UNCHANGED <<bal, books, caps, claimed, keys, later, txs, aborted>>
    BY <1>12 DEF InitChainEnds, memory
  <2>3. CASE books.bonded > 0
    <3>1. phase' = "begin" /\ pos' = 1 /\ doc' = NoDoc /\ panic' = panic
      BY <1>12, <2>3 DEF InitChainEnds
    <3>2. doc' \in [bal : [Holders -> Nat], books : Books, gentx : Nat]
      BY <3>1 DEF NoDoc, NoCoins, NoBooks, Books
    <3>3. Sound(bal', books')
      BY <1>1, <2>1, <2>2, <2>3 DEF Sound
    <3>4. ChainTypeOK'
      BY <2>2, <3>1, <3>2 DEF FlowInv, ChainTypeOK
    <3>5. QED BY <3>1, <3>3, <3>4 DEF FlowInv
  <2>4. CASE ~(books.bonded > 0)
    <3>1. panic' = "genesis" /\ UNCHANGED <<phase, pos, doc>>
      BY <1>12, <2>4 DEF InitChainEnds
    <3>2. QED BY <2>1, <2>2, <3>1 DEF FlowInv, ChainTypeOK
  <2>5. QED BY <2>3, <2>4
<1>13. QED
  BY <1>2, <1>3, <1>4, <1>5, <1>6, <1>7, <1>8, <1>9, <1>10, <1>11, <1>12 DEF InitGenesis

LEMMA FlowStep ==
  ASSUME FlowInv, Equipped, [ChainNext]_chainVars PROVE FlowInv'
<1>1. CASE Idle(phase)
  <2>1. /\ Turn(phase, Orders[phase][pos]) /\ Pass(TRUE, "none")
        /\ Orders[phase][pos] \notin Acting[phase]
        /\ UNCHANGED <<bal, books, memory>>
    BY <1>1 DEF Idle
  <2>2. CASE phase = "genesis"
    <3>1. Turn("genesis", Orders[phase][pos])
      BY <2>1, <2>2
    <3>2. /\ panic = "none" /\ Pass(TRUE, "genesis")
          /\ bal \in [Holders -> Nat] /\ books \in Books
          /\ {caps, claimed, keys} \subseteq BOOLEAN
      BY <2>1 DEF Pass, Turn, FlowInv, ChainTypeOK
    <3>3. QED BY <2>1, <3>1, <3>2, Initializing DEF memory
  <2>3. CASE phase # "genesis"
    <3>1. phase \in {"begin", "end"} /\ Sound(bal, books)
      BY <1>1, <2>3 DEF Idle, Orders, FlowInv
    <3>2. caps \in BOOLEAN
      BY DEF FlowInv, ChainTypeOK
    <3>3. QED BY <2>1, <3>1, <3>2, Passing DEF memory
  <2>4. QED BY <2>2, <2>3
<1>2. CASE Restart
  BY <1>2 DEF Restart, FlowInv, ChainTypeOK, Sound
<1>3. CASE Export
  <2>1. /\ doc' = [bal |-> bal, books |-> books, gentx |-> 0]
        /\ bal \in [Holders -> Nat] /\ books \in Books
    BY <1>3 DEF Export, FlowInv, ChainTypeOK
  <2>2. /\ doc' \in [bal : [Holders -> Nat], books : Books, gentx : Nat]
        /\ NoCoins \in [Holders -> Nat] /\ NoBooks \in Books
    BY <2>1 DEF NoCoins, NoBooks, Books
  <2>3. ChainTypeOK'
    BY <1>3, <2>2 DEF Export, FlowInv, ChainTypeOK
  <2>4. QED BY <1>3, <2>3 DEF Export, FlowInv
<1>4. CASE UNCHANGED chainVars
  BY <1>4 DEF chainVars, FlowInv, ChainTypeOK, Sound
<1>5. QED
  BY <1>1, <1>2, <1>3, <1>4, BooksInGenesis, BooksInBeginBlock, BooksInTransactions,
     BooksInEndBlock DEF ChainNext, Blocks

LEMMA FlowInit == ChainInit => FlowInv
<1> SUFFICES ASSUME ChainInit PROVE FlowInv
  OBVIOUS
<1>1. /\ doc \in [bal : [Holders -> Nat], books : Books, gentx : Nat]
      /\ NoCoins \in [Holders -> Nat] /\ NoBooks \in Books
  BY GenesisAssumption DEF ChainInit, NoCoins, NoBooks, Books
<1>2. {caps, claimed, keys, later, aborted} \subseteq BOOLEAN
  BY DEF ChainInit
<1>3. ChainTypeOK
  BY <1>1, <1>2 DEF ChainInit, ChainTypeOK
<1>4. QED BY <1>3 DEF ChainInit, FlowInv

LEMMA FlowInvariant == ChainSpec => [](FlowInv /\ Equipped)
<1>1. FlowInv /\ Equipped /\ [ChainNext]_chainVars => FlowInv' /\ Equipped'
  BY FlowStep, EquippedStep
<1>2. QED BY <1>1, FlowInit, EquippedInit, PTL DEF ChainSpec

(* No account is ever overdrawn.                                           *)
THEOREM FlowTypes == ChainSpec => []ChainTypeOK
<1>1. FlowInv => ChainTypeOK
  BY DEF FlowInv
<1>2. QED BY <1>1, FlowInvariant, PTL

(* Whatever is paid to whom, no pool ever holds more or less than its      *)
(* module thinks, whether or not x/crisis compares them, and x/crisis      *)
(* halts no chain.                                                         *)
THEOREM BooksAlwaysBalance == ChainSpec => []BooksBalance
<1>1. FlowInv => BooksBalance
  BY DEF FlowInv, BooksBalance, Sound
<1>2. QED BY <1>1, FlowInvariant, PTL

(* InitGenesis finds what it needs, whatever genesis file and whatever     *)
(* exported state it starts from, and refuses only an export of a chain on *)
(* which somebody paid x/gov; no later block misses anything.              *)
THEOREM GenesisCompletes == ChainSpec => []NothingIsMissing
<1>1. FlowInv /\ Equipped => NothingIsMissing
  BY DEF FlowInv, Equipped, NothingIsMissing, Sound
<1>2. QED BY <1>1, FlowInvariant, PTL

(***************************************************************************)
(* The begin block: the fee collector is empty once x/distribution had its *)
(* turn, the fourth; x/slashing and x/evidence follow.                     *)
(***************************************************************************)

Collected == phase = "begin" /\ later /\ pos > 4 => bal["fee_collector"] = 0

LEMMA CollectedStep ==
  ASSUME FlowInv, Equipped, Collected, [ChainNext]_chainVars PROVE Collected'
<1>1. pos \in Nat \ {0} /\ bal \in [Holders -> Nat] /\ "fee_collector" \in Holders
      /\ pos' \in Nat \ {0}
      /\ "distribution" \in Holders /\ phase \in {"genesis", "begin", "txs", "end"}
  BY FlowStep, Accounts DEF FlowInv, ChainTypeOK
<1>2. CASE phase' # "begin" \/ pos' <= 4
  BY <1>1, <1>2 DEF Collected
<1>3. CASE phase' = "begin" /\ pos' > 4
  <2>1. CASE UNCHANGED <<phase, pos, later, bal>>
    BY <2>1 DEF Collected
  <2>2. CASE BeginDistribution
    <3>1. phase = "begin" /\ later' = later
      BY <2>2 DEF BeginDistribution, Turn, Pass
    <3>2. CASE later
      <4>1. bal' = Pay(bal, "fee_collector", "distribution", bal["fee_collector"])
        BY <2>2, <3>2 DEF BeginDistribution
      <4>2. bal["fee_collector"] \in Nat /\ bal["fee_collector"] <= bal["fee_collector"]
        BY <1>1
      <4>3. Moved(bal', bal, "fee_collector", "distribution", bal["fee_collector"])
        BY <1>1, <4>1, <4>2, Paying
      <4>4. bal'["fee_collector"] = 0
        BY <1>1, <4>2, <4>3 DEF Moved
      <4>5. QED BY <4>4 DEF Collected
    <3>3. CASE ~later
      BY <3>1, <3>3 DEF Collected
    <3>4. QED BY <3>2, <3>3
  <2>3. CASE BeginMint \/ BeginCapability
    <3>1. pos < 4 /\ pos' \in {pos, pos + 1}
      BY <1>1, <2>3, BeginPositions DEF BeginMint, BeginCapability, Pass
    <3>2. QED BY <1>1, <1>3, <3>1
  <2>4. ASSUME NEW m \in {"slashing", "evidence"}, NoSlash(m) PROVE Collected'
    <3>1. phase = "begin" /\ pos > 4 /\ later' = later /\ bal' = bal
      BY <1>1, <2>4, BeginPositions DEF NoSlash, Turn, Pass
    <3>2. QED BY <3>1 DEF Collected
  <2>5. ASSUME NEW m \in {"slashing", "evidence"}, NEW t \in {"bonded", "unbonding"},
               Slash(m, t)
        PROVE  Collected'
    <3>1. phase = "begin" /\ pos > 4 /\ later' = later
      BY <1>1, <2>5, BeginPositions DEF Slash, Turn, Pass
    <3>2. PICK pool \in {"bonded_tokens_pool", "not_bonded_tokens_pool"} :
            bal' = Burn(bal, pool, 1) \/ bal' = bal
      BY <2>5 DEF Slash
    <3>3. bal'["fee_collector"] = bal["fee_collector"]
      BY <1>1, <3>2 DEF Burn
    <3>4. QED BY <3>1, <3>3 DEF Collected
  <2>6. CASE Idle(phase)
    <3>1. /\ bal' = bal /\ later' = later /\ phase' = phase
          /\ Turn("begin", Orders["begin"][pos]) /\ pos' \in {pos, pos + 1}
          /\ Orders["begin"][pos] # "distribution"
      BY <1>3, <2>6 DEF Idle, Turn, Pass, Acting
    <3>2. pos > 4
      BY <1>1, <1>3, <3>1, BeginPositions
    <3>3. QED BY <1>3, <3>1, <3>2 DEF Collected
  <2>7. CASE InitGenesis \/ CommitBlock \/ Restart \/ Export
    <3>1. phase' # "begin" \/ pos' = 1
      BY <1>1, <2>7 DEF InitGenesis, GenesisCapability, GenesisBank,
         GenesisDistribution, GenesisStaking, GenesisSlashing, GenesisGov,
         GenesisGenutil, GenesisTransfer, GenesisWasm, GenesisCrisis, InitChainEnds,
         Done, Turn, Pass, CommitBlock, Restart, Export
    <3>2. QED BY <1>3, <3>1
  <2>8. CASE BeginBlockEnds \/ Transactions \/ EndCrisis \/ EndGov \/ EndStaking
    <3>1. phase' # "begin"
      BY <2>8 DEF BeginBlockEnds, Transactions, Delegate, Undelegate, WithdrawRewards,
         FundCommunityPool, Deposit, Send, ReceivePacket, BurnThrough, DeliverTx,
         DeliverTxsEnd, EndCrisis, EndGov, EndStaking, Turn, Pass
    <3>2. QED BY <1>3, <3>1
  <2>9. QED
    BY <2>1, <2>2, <2>3, <2>4, <2>5, <2>6, <2>7, <2>8
    DEF ChainNext, Blocks, BeginBlock, EndBlock, chainVars
<1>4. QED BY <1>1, <1>2, <1>3 DEF FlowInv, ChainTypeOK

LEMMA SlashAfterDistribution ==
  ASSUME FlowInv, Collected, ChainNext, phase = "begin", phase' = "begin",
         books'.bonded < books.bonded
  PROVE  bal["fee_collector"] = 0
<1>1. pos \in Nat \ {0} /\ books \in Books
  BY DEF FlowInv, ChainTypeOK
<1>2. ASSUME books' = books \/ books'.bonded = books.bonded PROVE FALSE
  BY <1>1, <1>2 DEF Books
<1>3. PICK m \in {"slashing", "evidence"} : \E t \in {"bonded", "unbonding"} : Slash(m, t)
  <2>1. ~BeginDistribution
    <3>1. ASSUME BeginDistribution PROVE books'.bonded = books.bonded
      <4>1. PICK x, y : books' = [books EXCEPT !.owed = x, !.pool = y]
        BY <3>1 DEF BeginDistribution
      <4>2. QED BY <1>1, <4>1 DEF Books
    <3>2. QED BY <1>2, <3>1
  <2>2. ~Idle(phase) /\ ~Restart /\ ~Export /\ ~BeginCapability /\ ~BeginMint
        /\ ~BeginBlockEnds /\ \A m \in {"slashing", "evidence"} : ~NoSlash(m)
    BY <1>2 DEF Idle, Restart, Export, BeginCapability, BeginMint, BeginBlockEnds, NoSlash
  <2>3. ~InitGenesis
    BY DEF InitGenesis, GenesisCapability, GenesisBank, GenesisDistribution,
       GenesisStaking, GenesisSlashing, GenesisGov, GenesisGenutil, GenesisTransfer,
       GenesisWasm, GenesisCrisis, InitChainEnds, Done, Turn
  <2>4. ~Transactions
    BY DEF Transactions, Delegate, Undelegate, WithdrawRewards, FundCommunityPool,
       Deposit, Send, ReceivePacket, BurnThrough, DeliverTx, DeliverTxsEnd
  <2>5. ~EndBlock
    BY DEF EndBlock, EndCrisis, EndGov, EndStaking, CommitBlock, Done, Turn
  <2>6. QED BY <2>1, <2>2, <2>3, <2>4, <2>5 DEF ChainNext, Blocks, BeginBlock
<1>4. Turn("begin", m) /\ later
  BY <1>3 DEF Slash
<1>5. pos > 4
  BY <1>1, <1>4, BeginPositions
<1>6. QED BY <1>4, <1>5 DEF Collected

(* When a validator's tokens are slashed, the fees of the blocks before    *)
(* and the minted coins are with x/distribution already.                   *)
THEOREM FeesBeforeSlashing == ChainSpec => NothingLeftOver
<1>1. ChainInit => Collected
  BY DEF ChainInit, Collected
<1>2. FlowInv /\ Equipped /\ Collected /\ [ChainNext]_chainVars => Collected'
  BY CollectedStep
<1>3. FlowInv /\ Collected /\ [ChainNext]_chainVars =>
        [phase = "begin" /\ phase' = "begin" /\ books'.bonded < books.bonded
           => bal["fee_collector"] = 0]_chainVars
  BY SlashAfterDistribution
<1>4. QED BY <1>1, <1>2, <1>3, FlowInvariant, PTL DEF ChainSpec, NothingLeftOver
==========================================================================
