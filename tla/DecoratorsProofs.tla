------------------------- MODULE DecoratorsProofs -------------------------
(***************************************************************************)
(* What each decorator asks for and what it writes, outside simulations,   *)
(* and what a simulation's limit is.                                       *)
(***************************************************************************)
EXTENDS Decorators, FiniteSetTheorems, SequenceTheorems, TLAPS

Contexts ==
  [st : States, tx : Txs, mode : Modes, height : Nat, min : Nat, limit : Int,
   index : Nat, ok : BOOLEAN]

Entries == [tx : Txs, height : Nat, index : Nat, done : BOOLEAN]

LEMMA StateFields ==
  ASSUME NEW st \in States
  PROVE  /\ st.seq \in [Accounts -> Nat] /\ st.keyed \subseteq Accounts
         /\ st.bal \in [Accounts -> Nat] /\ st.grant \in [Accounts \X Accounts -> Nat]
         /\ st.received \subseteq Packets /\ st.counter \in [height : Nat, n : Nat]
         /\ st.log \in Seq(Entries)
BY DEF States, Entries

LEMMA TxFields ==
  ASSUME NEW t \in Txs
  PROVE  /\ t.signer \in Accounts /\ t.payer \in Accounts /\ t.seq \in Nat
         /\ t.fee \in Nat /\ t.spends \in Nat /\ t.gas \in Nat /\ t.packets \subseteq Packets
         /\ t.valid \in BOOLEAN /\ t.key \in BOOLEAN
BY TxAssumption DEF Transaction

LEMMA LetsPass ==
  ASSUME NEW c, NEW d, c.ok, ~Refuses(d, c)
  PROVE  Decorate(c, d) = Effect(d, c)
BY Zenon DEF Decorate

LEMMA Stops ==
  ASSUME NEW c, NEW d, ~(c.ok /\ ~Refuses(d, c))
  PROVE  Decorate(c, d) = [c EXCEPT !.ok = FALSE]
BY Zenon DEF Decorate

---------------------------------------------------------------------------
(* The limit of a simulation                                               *)

(* A decorator that only writes to the state, or to the index, leaves the  *)
(* limit of gas as it is.                                                  *)
Bounded(c, limit) ==
  DOMAIN c = {"st", "tx", "mode", "height", "min", "limit", "index", "ok"}
  /\ (c.ok => c.limit = limit)

LEMMA WritesKeepLimit ==
  ASSUME NEW c, NEW limit, Bounded(c, limit), NEW d,
         \/ Effect(d, c) = c
         \/ \E st : Effect(d, c) = [c EXCEPT !.st = st]
         \/ \E st, i : Effect(d, c) = [c EXCEPT !.index = i, !.st = st]
  PROVE  Bounded(Decorate(c, d), limit)
<1>1. CASE c.ok /\ ~Refuses(d, c)
  <2>1. Decorate(c, d) = Effect(d, c)
    BY <1>1, LetsPass, Zenon
  <2>2. CASE Effect(d, c) = c
    BY <2>1, <2>2
  <2>3. CASE \E st : Effect(d, c) = [c EXCEPT !.st = st]
    BY <2>1, <2>3, <1>1 DEF Bounded
  <2>4. CASE \E st, i : Effect(d, c) = [c EXCEPT !.index = i, !.st = st]
    <3>1. PICK st, i : Effect(d, c) = [c EXCEPT !.index = i, !.st = st]
      BY <2>4
    <3> DEFINE e == [c EXCEPT !.index = i]
    <3>2. DOMAIN e = DOMAIN c /\ e.limit = c.limit /\ e.ok = c.ok
      BY DEF Bounded
    <3>3. Effect(d, c) = [e EXCEPT !.st = st]
      BY <3>1, Zenon
    <3> HIDE DEF e
    <3>4. /\ DOMAIN [e EXCEPT !.st = st] = DOMAIN c
          /\ [e EXCEPT !.st = st].limit = c.limit
      BY <3>2 DEF Bounded
    <3>5. QED BY <1>1, <2>1, <3>3, <3>4 DEF Bounded
  <2>5. QED BY <2>2, <2>3, <2>4
<1>2. CASE ~(c.ok /\ ~Refuses(d, c))
  <2>1. Decorate(c, d) = [c EXCEPT !.ok = FALSE]
    BY <1>2, Stops, Zenon
  <2>2. QED BY <2>1 DEF Bounded
<1>3. QED BY <1>1, <1>2, Zenon

LEMMA LimitStays ==
  ASSUME NEW c, NEW limit, Bounded(c, limit),
         NEW d, d # "SetUpContext", d # "LimitSimulationGas"
  PROVE  Bounded(Decorate(c, d), limit)
<1>1. CASE d = "CountTX" /\ c.mode # "simulate"
  <2>1. Effect(d, c) =
          [c EXCEPT !.index = Counted(c),
                    !.st = [c.st EXCEPT !.counter = [height |-> c.height, n |-> Counted(c) + 1]]]
    BY <1>1, Zenon DEF Effect
  <2>2. QED BY <2>1, WritesKeepLimit, Zenon
<1>2. CASE d = "DeductFee"
  <2>1. Effect(d, c) = [c EXCEPT !.st = PayFee(c)]
    BY <1>2, Zenon DEF Effect
  <2>2. QED BY <2>1, WritesKeepLimit, Zenon
<1>3. CASE d = "SetPubKey"
  <2>1. Effect(d, c) =
          [c EXCEPT !.st = [c.st EXCEPT !.keyed = IF c.tx.key THEN @ \cup {c.tx.signer} ELSE @]]
    BY <1>3, Zenon DEF Effect
  <2>2. QED BY <2>1, WritesKeepLimit, Zenon
<1>4. CASE d = "IncrementSequence"
  <2>1. Effect(d, c) =
          [c EXCEPT !.st = [c.st EXCEPT !.seq = [c.st.seq EXCEPT ![c.tx.signer] = @ + 1]]]
    BY <1>4, Zenon DEF Effect
  <2>2. QED BY <2>1, WritesKeepLimit, Zenon
<1>5. CASE d = "RedundantRelay" /\ Relay(c)
  <2>1. Effect(d, c) =
          [c EXCEPT !.st = [c.st EXCEPT !.received = @ \cup c.tx.packets]]
    BY <1>5, Zenon DEF Effect
  <2>2. QED BY <2>1, WritesKeepLimit, Zenon
<1>6. CASE /\ ~(d = "CountTX" /\ c.mode # "simulate") /\ d # "DeductFee"
           /\ d # "SetPubKey" /\ d # "IncrementSequence"
           /\ ~(d = "RedundantRelay" /\ Relay(c))
  <2>1. Effect(d, c) = c
    BY <1>6, Zenon DEF Effect
  <2>2. QED BY <2>1, WritesKeepLimit, Zenon
<1>7. QED BY <1>1, <1>2, <1>3, <1>4, <1>5, <1>6, Zenon
---------------------------------------------------------------------------
(* What the ante handler asks for and what it writes                       *)

(* Whether a transaction is looked at for packets it brings again.         *)
Relays(tx) == tx.packets # {} /\ tx.spends = 0
Checks(mode, tx) == mode # "deliver" /\ Relays(tx)

(* The transactions that pass.                                             *)
Admits(st, tx, mode, h, min) ==
  /\ tx.timeout = 0 \/ h <= tx.timeout
  /\ tx.gas >= 1
  /\ mode # "deliver" => tx.fee >= min
  /\ st.bal[tx.payer] >= tx.fee
  /\ tx.payer = tx.signer \/ st.grant[<<tx.payer, tx.signer>>] >= tx.fee
  /\ tx.signer \in st.keyed \/ tx.key
  /\ tx.seq = st.seq[tx.signer]
  /\ mode # "recheck" => tx.valid
  /\ Checks(mode, tx) => ~(tx.packets \subseteq st.received)

(* What they leave behind.                                                 *)
Becomes(st, tx, mode, e) ==
  /\ e \in States
  /\ e.seq = [st.seq EXCEPT ![tx.signer] = @ + 1]
  /\ e.keyed = IF tx.key THEN st.keyed \cup {tx.signer} ELSE st.keyed
  /\ e.bal = Less(st.bal, tx.payer, tx.fee)
  /\ e.grant = IF tx.payer = tx.signer THEN st.grant
               ELSE Less(st.grant, <<tx.payer, tx.signer>>, tx.fee)
  /\ e.received = IF Checks(mode, tx) THEN st.received \cup tx.packets ELSE st.received

(* Outside simulations a transaction that came in as b has by now brought  *)
(* the state to st, or is out.                                             *)
Live(b) == b \in Contexts /\ b.ok = TRUE /\ b.mode # "simulate"

Changed(b, st, l, i) == [b EXCEPT !.st = st, !.limit = l, !.index = i]

Now(b, c, st, l, i) ==
  /\ c = Changed(b, st, l, i)
  /\ st \in States /\ l \in Int /\ i \in Nat

Like(b, c, st, l, i) ==
  /\ c \in Contexts /\ c.st = st /\ c.limit = l /\ c.index = i /\ c.ok = TRUE
  /\ c.tx = b.tx /\ c.mode = b.mode /\ c.height = b.height /\ c.min = b.min

Out(c) == c \in Contexts /\ c.ok = FALSE

LEMMA NowFields ==
  ASSUME NEW b, Live(b), NEW c, NEW st, NEW l, NEW i, Now(b, c, st, l, i)
  PROVE  Like(b, c, st, l, i)
BY DEF Contexts, Changed, Now, Like, Live

(* What a decorator may change.                                            *)
LEMMA NowState ==
  ASSUME NEW b, Live(b), NEW c, NEW st, NEW l, NEW i, Now(b, c, st, l, i), NEW st2 \in States
  PROVE  Now(b, [c EXCEPT !.st = st2], st2, l, i)
BY DEF Contexts, Changed, Now, Live

LEMMA NowLimit ==
  ASSUME NEW b, Live(b), NEW c, NEW st, NEW l, NEW i, Now(b, c, st, l, i), NEW l2 \in Int
  PROVE  Now(b, [c EXCEPT !.limit = l2], st, l2, i)
BY DEF Contexts, Changed, Now, Live

LEMMA NowCounted ==
  ASSUME NEW b, Live(b), NEW c, NEW st, NEW l, NEW i, Now(b, c, st, l, i),
         NEW st2 \in States, NEW i2 \in Nat
  PROVE  Now(b, [c EXCEPT !.index = i2, !.st = st2], st2, l, i2)
BY DEF Contexts, Changed, Now, Live

LEMMA NowPasses ==
  ASSUME NEW b, Live(b), NEW c, NEW st, NEW l, NEW i, Now(b, c, st, l, i), NEW d
  PROVE  /\ ~Refuses(d, c) => Decorate(c, d) = Effect(d, c)
         /\ Refuses(d, c) => Out(Decorate(c, d))
<1>1. c \in Contexts /\ c.ok
  BY NowFields, Zenon DEF Like
<1>2. CASE ~Refuses(d, c)
  BY <1>1, <1>2, LetsPass, Zenon
<1>3. CASE Refuses(d, c)
  <2>1. Decorate(c, d) = [c EXCEPT !.ok = FALSE]
    BY <1>3, Stops, Zenon
  <2>2. Out([c EXCEPT !.ok = FALSE])
    BY <1>1 DEF Out, Contexts
  <2>3. QED BY <1>3, <2>1, <2>2, Zenon
<1>4. QED BY <1>2, <1>3, Zenon

LEMMA OutStays ==
  ASSUME NEW c, Out(c), NEW d
  PROVE  Out(Decorate(c, d))
<1>1. Decorate(c, d) = [c EXCEPT !.ok = FALSE]
  BY Zenon DEF Out, Decorate
<1>2. QED BY <1>1 DEF Out, Contexts

(* The decorators, one after the other.                                    *)
LEMMA NowSetUp ==
  ASSUME NEW b, Live(b), NEW c, NEW st, NEW l, NEW i, Now(b, c, st, l, i)
  PROVE  Now(b, Decorate(c, "SetUpContext"), st, b.tx.gas, i)
<1>1. ~Refuses("SetUpContext", c)
  BY Zenon DEF Refuses
<1>2. Effect("SetUpContext", c) = [c EXCEPT !.limit = b.tx.gas]
  BY NowFields, Zenon DEF Effect, Live, Like
<1>3. b.tx.gas \in Int
  BY TxFields DEF Live, Contexts
<1>4. Decorate(c, "SetUpContext") = [c EXCEPT !.limit = b.tx.gas]
  BY <1>1, <1>2, NowPasses, Zenon
<1>5. Now(b, [c EXCEPT !.limit = b.tx.gas], st, b.tx.gas, i)
  BY <1>3, NowLimit
<1>6. QED BY <1>4, <1>5, Zenon

LEMMA NowLimited ==
  ASSUME NEW b, Live(b), NEW c, NEW st, NEW l, NEW i, Now(b, c, st, l, i)
  PROVE  Now(b, Decorate(c, "LimitSimulationGas"), st, l, i)
<1>1. ~Refuses("LimitSimulationGas", c)
  BY Zenon DEF Refuses
<1>2. c.mode # "simulate" /\ c.limit = l
  BY NowFields, Zenon DEF Live, Like
<1>3. Effect("LimitSimulationGas", c) = [c EXCEPT !.limit = l]
  BY <1>2, Zenon DEF Effect
<1>4. Decorate(c, "LimitSimulationGas") = [c EXCEPT !.limit = l]
  BY <1>1, <1>3, NowPasses, Zenon
<1>5. l \in Int
  BY DEF Now
<1>6. Now(b, [c EXCEPT !.limit = l], st, l, i)
  BY <1>5, NowLimit
<1>7. QED BY <1>4, <1>6, Zenon

CountIn(st, h) == IF st.counter.height = h THEN st.counter.n ELSE 0
CountUp(st, h) == [st EXCEPT !.counter = [height |-> h, n |-> CountIn(st, h) + 1]]

LEMMA NowCount ==
  ASSUME NEW b, Live(b), NEW c, NEW st, NEW l, NEW i, Now(b, c, st, l, i)
  PROVE  Now(b, Decorate(c, "CountTX"), CountUp(st, b.height), l, CountIn(st, b.height))
<1> DEFINE k == CountIn(st, b.height)
           st2 == CountUp(st, b.height)
<1>1. ~Refuses("CountTX", c)
  BY Zenon DEF Refuses
<1>2. c.mode = b.mode /\ c.st = st /\ c.height = b.height
  BY NowFields, Zenon DEF Like
<1>3. Counted(c) = k
  BY <1>2, Zenon DEF Counted, CountIn
<1>4. Effect("CountTX", c) = [c EXCEPT !.index = k, !.st = st2]
  BY <1>2, <1>3, Zenon DEF Effect, Live, CountUp
<1>5. k \in Nat /\ b.height \in Nat
  BY DEF CountIn, States, Live, Contexts, Now
<1>6. st2 \in States
  <2> DEFINE n == [height |-> b.height, n |-> k + 1]
  <2>1. n \in [height : Nat, n : Nat]
    BY <1>5
  <2> HIDE DEF n
  <2>2. [st EXCEPT !.counter = n] \in States
    BY <2>1 DEF States, Now
  <2>3. QED BY <2>2, Zenon DEF n, CountUp
<1> HIDE DEF k, st2
<1>7. Decorate(c, "CountTX") = [c EXCEPT !.index = k, !.st = st2]
  BY <1>1, <1>4, NowPasses, Zenon
<1>8. Now(b, [c EXCEPT !.index = k, !.st = st2], st2, l, k)
  BY <1>5, <1>6, NowCounted
<1>9. QED BY <1>7, <1>8, Zenon DEF k, st2

LEMMA NowTimeout ==
  ASSUME NEW b, Live(b), NEW c, NEW st, NEW l, NEW i, Now(b, c, st, l, i)
  PROVE  IF b.tx.timeout = 0 \/ b.height <= b.tx.timeout
         THEN Now(b, Decorate(c, "TxTimeoutHeight"), st, l, i)
         ELSE Out(Decorate(c, "TxTimeoutHeight"))
<1>1. c.height = b.height /\ c.tx = b.tx
  BY NowFields, Zenon DEF Like
<1>2. b.height \in Nat /\ b.tx.timeout \in Nat
  BY TxAssumption DEF Live, Contexts, Transaction
<1>3. Refuses("TxTimeoutHeight", c) <=> b.tx.timeout > 0 /\ b.height > b.tx.timeout
  BY <1>1, Zenon DEF Refuses
<1>4. Refuses("TxTimeoutHeight", c) <=> ~(b.tx.timeout = 0 \/ b.height <= b.tx.timeout)
  BY <1>2, <1>3
<1>5. Effect("TxTimeoutHeight", c) = c
  BY Zenon DEF Effect
<1>6. QED BY <1>4, <1>5, NowPasses, Zenon

LEMMA NowGas ==
  ASSUME NEW b, Live(b), NEW c, NEW st, NEW i, Now(b, c, st, b.tx.gas, i)
  PROVE  IF b.tx.gas >= 1
         THEN Now(b, Decorate(c, "ConsumeGas"), st, b.tx.gas, i)
         ELSE Out(Decorate(c, "ConsumeGas"))
<1>1. c.limit = b.tx.gas
  BY NowFields, Zenon DEF Like
<1>2. b.tx.gas \in Nat
  BY TxAssumption DEF Live, Contexts, Transaction
<1>3. Refuses("ConsumeGas", c) <=> ~Affords(c, 1)
  BY Zenon DEF Refuses
<1>4. Affords(c, 1) <=> b.tx.gas >= 1
  BY <1>1, <1>2 DEF Affords, NoLimit
<1>5. Effect("ConsumeGas", c) = c
  BY Zenon DEF Effect
<1>6. QED BY <1>3, <1>4, <1>5, NowPasses, Zenon

(* Who pays can pay, and the minimum price is asked for in checks.         *)
Affordable(b, st) ==
  /\ b.mode # "deliver" => b.tx.fee >= b.min
  /\ st.bal[b.tx.payer] >= b.tx.fee
  /\ b.tx.payer = b.tx.signer \/ st.grant[<<b.tx.payer, b.tx.signer>>] >= b.tx.fee
Paid(st, tx) ==
  [st EXCEPT !.bal = Less(@, tx.payer, tx.fee),
             !.grant = IF tx.payer = tx.signer THEN @
                       ELSE Less(@, <<tx.payer, tx.signer>>, tx.fee)]

LEMMA PaidFields ==
  ASSUME NEW st \in States, NEW tx \in Txs, st.bal[tx.payer] >= tx.fee,
         tx.payer = tx.signer \/ st.grant[<<tx.payer, tx.signer>>] >= tx.fee
  PROVE  LET e == Paid(st, tx) IN
         /\ e \in States
         /\ e.bal = Less(st.bal, tx.payer, tx.fee)
         /\ e.grant = IF tx.payer = tx.signer THEN st.grant
                      ELSE Less(st.grant, <<tx.payer, tx.signer>>, tx.fee)
         /\ e.seq = st.seq /\ e.keyed = st.keyed /\ e.received = st.received
         /\ e.counter = st.counter /\ e.log = st.log
<1> DEFINE bal == Less(st.bal, tx.payer, tx.fee)
           grant == IF tx.payer = tx.signer THEN st.grant
                    ELSE Less(st.grant, <<tx.payer, tx.signer>>, tx.fee)
           s1 == [st EXCEPT !.bal = bal]
           s2 == [s1 EXCEPT !.grant = grant]
<1>1. /\ tx.payer \in Accounts /\ tx.signer \in Accounts /\ tx.fee \in Nat
      /\ st.bal \in [Accounts -> Nat] /\ st.grant \in [Accounts \X Accounts -> Nat]
  BY TxFields, StateFields
<1>2. bal \in [Accounts -> Nat]
  BY <1>1 DEF Less
<1>3. grant \in [Accounts \X Accounts -> Nat]
  <2>1. CASE tx.payer = tx.signer
    BY <1>1, <2>1
  <2>2. CASE tx.payer # tx.signer
    <3>1. Less(st.grant, <<tx.payer, tx.signer>>, tx.fee) \in [Accounts \X Accounts -> Nat]
      BY <1>1, <2>2 DEF Less
    <3>2. QED BY <2>2, <3>1
  <2>3. QED BY <2>1, <2>2
<1>4. s1.grant = st.grant
  BY DEF States
<1>5. Paid(st, tx) = s2
  BY <1>4, Zenon DEF Paid
<1> HIDE DEF bal, grant
<1>6. /\ s1 \in States /\ s1.bal = bal /\ s1.seq = st.seq /\ s1.keyed = st.keyed
      /\ s1.received = st.received /\ s1.counter = st.counter /\ s1.log = st.log
  BY <1>2 DEF States
<1> HIDE DEF s1
<1>7. /\ s2 \in States /\ s2.bal = s1.bal /\ s2.grant = grant /\ s2.seq = s1.seq
      /\ s2.keyed = s1.keyed
      /\ s2.received = s1.received /\ s2.counter = s1.counter /\ s2.log = s1.log
  BY <1>3, <1>6 DEF States
<1> HIDE DEF s2
<1>8. QED BY <1>5, <1>6, <1>7, Zenon DEF bal, grant

LEMMA NowFee ==
  ASSUME NEW b, Live(b), NEW c, NEW st, NEW l, NEW i, Now(b, c, st, l, i)
  PROVE  IF Affordable(b, st)
         THEN Now(b, Decorate(c, "DeductFee"), Paid(st, b.tx), l, i)
         ELSE Out(Decorate(c, "DeductFee"))
<1>1. c.mode = b.mode /\ c.st = st /\ c.tx = b.tx /\ c.min = b.min
  BY NowFields, Zenon DEF Like
<1>2. /\ b.mode \in Modes /\ b.mode # "simulate" /\ b.min \in Nat
      /\ b.tx \in Txs /\ b.tx.fee \in Nat
  BY TxFields DEF Live, Contexts
<1>3. st \in States /\ b.tx.payer \in Accounts /\ b.tx.signer \in Accounts
  BY <1>2, TxFields DEF Now
<1>4. Refuses("DeductFee", c) <=> c.tx.fee < MinFee(c) \/ ~CanPay(c)
  BY Zenon DEF Refuses
<1>5. c.tx.fee < MinFee(c) <=> ~(b.mode # "deliver" => b.tx.fee >= b.min)
  BY <1>1, <1>2 DEF MinFee, Modes
<1>6. CanPay(c) <=>
        /\ st.bal[b.tx.payer] >= b.tx.fee
        /\ b.tx.payer = b.tx.signer \/ st.grant[<<b.tx.payer, b.tx.signer>>] >= b.tx.fee
  BY <1>1, Zenon DEF CanPay
<1>7. Refuses("DeductFee", c) <=> ~Affordable(b, st)
  BY <1>4, <1>5, <1>6, Zenon DEF Affordable
<1>8. Effect("DeductFee", c) = [c EXCEPT !.st = Paid(st, b.tx)]
  BY <1>1, Zenon DEF Effect, PayFee, Paid
<1>9. CASE Affordable(b, st)
  <2>1. Paid(st, b.tx) \in States
    BY <1>2, <1>3, <1>9, PaidFields, Zenon DEF Affordable
  <2>2. Now(b, [c EXCEPT !.st = Paid(st, b.tx)], Paid(st, b.tx), l, i)
    BY <2>1, NowState
  <2>3. Decorate(c, "DeductFee") = [c EXCEPT !.st = Paid(st, b.tx)]
    BY <1>7, <1>8, <1>9, NowPasses, Zenon
  <2>4. QED BY <1>9, <2>2, <2>3, Zenon
<1>10. CASE ~Affordable(b, st)
  BY <1>7, <1>10, NowPasses, Zenon
<1>11. QED BY <1>9, <1>10, Zenon
KeyStored(st, tx) ==
  [st EXCEPT !.keyed = IF tx.key THEN @ \cup {tx.signer} ELSE @]

LEMMA KeyStoredFields ==
  ASSUME NEW st \in States, NEW tx \in Txs
  PROVE  LET e == KeyStored(st, tx) IN
         /\ e \in States
         /\ e.keyed = IF tx.key THEN st.keyed \cup {tx.signer} ELSE st.keyed
         /\ e.seq = st.seq /\ e.bal = st.bal /\ e.grant = st.grant
         /\ e.received = st.received /\ e.counter = st.counter /\ e.log = st.log
<1> DEFINE k == IF tx.key THEN st.keyed \cup {tx.signer} ELSE st.keyed
           e == [st EXCEPT !.keyed = k]
<1>1. k \subseteq Accounts
  BY TxFields, StateFields
<1>2. KeyStored(st, tx) = e
  BY Zenon DEF KeyStored
<1> HIDE DEF k
<1>3. /\ e \in States /\ e.keyed = k /\ e.seq = st.seq /\ e.bal = st.bal
      /\ e.grant = st.grant
      /\ e.received = st.received /\ e.counter = st.counter /\ e.log = st.log
  BY <1>1 DEF States
<1> HIDE DEF e
<1>4. QED BY <1>2, <1>3, Zenon DEF k

LEMMA NowKey ==
  ASSUME NEW b, Live(b), NEW c, NEW st, NEW l, NEW i, Now(b, c, st, l, i)
  PROVE  Now(b, Decorate(c, "SetPubKey"), KeyStored(st, b.tx), l, i)
<1>1. ~Refuses("SetPubKey", c)
  BY Zenon DEF Refuses
<1>2. c.st = st /\ c.tx = b.tx
  BY NowFields, Zenon DEF Like
<1>3. Effect("SetPubKey", c) = [c EXCEPT !.st = KeyStored(st, b.tx)]
  BY <1>2, Zenon DEF Effect, KeyStored
<1>4. Decorate(c, "SetPubKey") = [c EXCEPT !.st = KeyStored(st, b.tx)]
  BY <1>1, <1>3, NowPasses, Zenon
<1>5. st \in States /\ b.tx \in Txs
  BY DEF Now, Live, Contexts
<1>6. KeyStored(st, b.tx) \in States
  BY <1>5, KeyStoredFields, Zenon
<1>7. Now(b, [c EXCEPT !.st = KeyStored(st, b.tx)], KeyStored(st, b.tx), l, i)
  BY <1>6, NowState
<1>8. QED BY <1>4, <1>7, Zenon

HasSigned(b, st) ==
  /\ b.tx.signer \in st.keyed
  /\ b.tx.seq = st.seq[b.tx.signer]
  /\ b.mode # "recheck" => b.tx.valid

LEMMA NowSigned ==
  ASSUME NEW b, Live(b), NEW c, NEW st, NEW l, NEW i, Now(b, c, st, l, i)
  PROVE  IF HasSigned(b, st)
         THEN Now(b, Decorate(c, "SigVerification"), st, l, i)
         ELSE Out(Decorate(c, "SigVerification"))
<1>1. c.mode = b.mode /\ c.st = st /\ c.tx = b.tx
  BY NowFields, Zenon DEF Like
<1>2. b.mode # "simulate"
  BY DEF Live
<1>3. Refuses("SigVerification", c) <=> ~Signed(c)
  BY Zenon DEF Refuses
<1>4. Signed(c) <=> HasSigned(b, st)
  <2>1. c.mode \in {"recheck", "simulate"} <=> b.mode = "recheck"
    BY <1>1, <1>2
  <2>2. c.mode # "simulate"
    BY <1>1, <1>2
  <2>3. QED BY <1>1, <2>1, <2>2, Zenon DEF Signed, HasSigned
<1>5. Effect("SigVerification", c) = c
  BY Zenon DEF Effect
<1>6. QED BY <1>3, <1>4, <1>5, NowPasses, Zenon

MovedOn(st, tx) == [st EXCEPT !.seq[tx.signer] = @ + 1]

LEMMA MovedOnFields ==
  ASSUME NEW st \in States, NEW tx \in Txs
  PROVE  LET e == MovedOn(st, tx) IN
         /\ e \in States
         /\ e.seq = [st.seq EXCEPT ![tx.signer] = @ + 1]
         /\ e.keyed = st.keyed /\ e.bal = st.bal /\ e.grant = st.grant
         /\ e.received = st.received /\ e.counter = st.counter /\ e.log = st.log
<1> DEFINE q == [st.seq EXCEPT ![tx.signer] = @ + 1]
           e == [st EXCEPT !.seq = q]
<1>1. q \in [Accounts -> Nat]
  BY TxFields, StateFields
<1>2. MovedOn(st, tx) = e
  BY Zenon DEF MovedOn
<1> HIDE DEF q
<1>3. /\ e \in States /\ e.seq = q /\ e.keyed = st.keyed /\ e.bal = st.bal
      /\ e.grant = st.grant
      /\ e.received = st.received /\ e.counter = st.counter /\ e.log = st.log
  BY <1>1 DEF States
<1> HIDE DEF e
<1>4. QED BY <1>2, <1>3, Zenon DEF q

LEMMA NowMoved ==
  ASSUME NEW b, Live(b), NEW c, NEW st, NEW l, NEW i, Now(b, c, st, l, i)
  PROVE  Now(b, Decorate(c, "IncrementSequence"), MovedOn(st, b.tx), l, i)
<1>1. ~Refuses("IncrementSequence", c)
  BY Zenon DEF Refuses
<1>2. c.st = st /\ c.tx = b.tx
  BY NowFields, Zenon DEF Like
<1>3. Effect("IncrementSequence", c) = [c EXCEPT !.st = MovedOn(st, b.tx)]
  BY <1>2, Zenon DEF Effect, MovedOn
<1>4. Decorate(c, "IncrementSequence") = [c EXCEPT !.st = MovedOn(st, b.tx)]
  BY <1>1, <1>3, NowPasses, Zenon
<1>5. st \in States /\ b.tx \in Txs
  BY DEF Now, Live, Contexts
<1>6. MovedOn(st, b.tx) \in States
  BY <1>5, MovedOnFields, Zenon
<1>7. Now(b, [c EXCEPT !.st = MovedOn(st, b.tx)], MovedOn(st, b.tx), l, i)
  BY <1>6, NowState
<1>8. QED BY <1>4, <1>7, Zenon

Seen(st, tx, mode) ==
  IF Checks(mode, tx) THEN [st EXCEPT !.received = @ \cup tx.packets] ELSE st

LEMMA SeenFields ==
  ASSUME NEW st \in States, NEW tx \in Txs, NEW mode
  PROVE  LET e == Seen(st, tx, mode) IN
         /\ e \in States
         /\ e.received = IF Checks(mode, tx) THEN st.received \cup tx.packets ELSE st.received
         /\ e.seq = st.seq /\ e.keyed = st.keyed /\ e.bal = st.bal /\ e.grant = st.grant
         /\ e.counter = st.counter /\ e.log = st.log
<1> DEFINE e == [st EXCEPT !.received = st.received \cup tx.packets]
<1>1. st.received \cup tx.packets \subseteq Packets
  BY TxFields, StateFields
<1>2. /\ e \in States /\ e.seq = st.seq /\ e.keyed = st.keyed /\ e.bal = st.bal
      /\ e.grant = st.grant /\ e.received = st.received \cup tx.packets
      /\ e.counter = st.counter /\ e.log = st.log
  BY <1>1 DEF States
<1>3. CASE Checks(mode, tx)
  <2>1. Seen(st, tx, mode) = e
    BY <1>3, Zenon DEF Seen
  <2> HIDE DEF e
  <2>2. QED BY <1>2, <1>3, <2>1, Zenon
<1>4. CASE ~Checks(mode, tx)
  <2>1. Seen(st, tx, mode) = st
    BY <1>4, Zenon DEF Seen
  <2>2. QED BY <1>4, <2>1, Zenon
<1>5. QED BY <1>3, <1>4, Zenon

LEMMA NowSeen ==
  ASSUME NEW b, Live(b), NEW c, NEW st, NEW l, NEW i, Now(b, c, st, l, i)
  PROVE  IF Checks(b.mode, b.tx) => ~(b.tx.packets \subseteq st.received)
         THEN Now(b, Decorate(c, "RedundantRelay"), Seen(st, b.tx, b.mode), l, i)
         ELSE Out(Decorate(c, "RedundantRelay"))
<1>1. c.mode = b.mode /\ c.st = st /\ c.tx = b.tx
  BY NowFields, Zenon DEF Like
<1>2. Relay(c) <=> Checks(b.mode, b.tx)
  <2>1. b.mode \in Modes /\ b.mode # "simulate"
    BY DEF Live, Contexts
  <2>2. b.mode \in {"check", "recheck"} <=> b.mode # "deliver"
    BY <2>1 DEF Modes
  <2>3. QED BY <1>1, <2>2, Zenon DEF Relay, Checks, Relays
<1>3. Refuses("RedundantRelay", c) <=> Checks(b.mode, b.tx) /\ b.tx.packets \subseteq st.received
  BY <1>1, <1>2, Zenon DEF Refuses
<1>4. CASE Checks(b.mode, b.tx)
  <2>1. Effect("RedundantRelay", c) = [c EXCEPT !.st = Seen(st, b.tx, b.mode)]
    BY <1>1, <1>2, <1>4, Zenon DEF Effect, Seen
  <2>2. st \in States /\ b.tx \in Txs
    BY DEF Now, Live, Contexts
  <2>3. Seen(st, b.tx, b.mode) \in States
    BY <2>2, SeenFields, Zenon
  <2>4. Now(b, [c EXCEPT !.st = Seen(st, b.tx, b.mode)], Seen(st, b.tx, b.mode), l, i)
    BY <2>3, NowState
  <2>5. QED BY <1>3, <1>4, <2>1, <2>4, NowPasses, Zenon
<1>5. CASE ~Checks(b.mode, b.tx)
  <2>1. Effect("RedundantRelay", c) = c
    BY <1>2, <1>5, Zenon DEF Effect
  <2>2. Seen(st, b.tx, b.mode) = st
    BY <1>5, Zenon DEF Seen
  <2>3. Decorate(c, "RedundantRelay") = c
    BY <1>3, <1>5, <2>1, NowPasses, Zenon
  <2>4. QED BY <1>5, <2>2, <2>3, Zenon
<1>6. QED BY <1>4, <1>5, Zenon
===========================================================================
