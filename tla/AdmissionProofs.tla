------------------------- MODULE AdmissionProofs -------------------------
(***************************************************************************)
(* The properties of Admission for any number of nodes, accounts and       *)
(* transactions, any prices and any blocks.                                *)
(***************************************************************************)
EXTENDS Admission, DecoratorsProofs, FoldTheorems

---------------------------------------------------------------------------
(* A transaction of a block                                                *)

(* The chain of decorators, unfolded.                                      *)
LEMMA AnteChain ==
  ASSUME NEW c
  PROVE  LET c1 == Decorate(c, "SetUpContext")
             c2 == Decorate(c1, "LimitSimulationGas")
             c3 == Decorate(c2, "CountTX")
             c4 == Decorate(c3, "TxTimeoutHeight")
             c5 == Decorate(c4, "ConsumeGas")
             c6 == Decorate(c5, "DeductFee")
             c7 == Decorate(c6, "SetPubKey")
             c8 == Decorate(c7, "SigVerification")
             c9 == Decorate(c8, "IncrementSequence")
         IN  Ante(c) = Decorate(c9, "RedundantRelay")
<1> DEFINE D == anteDecorators
<1>1. /\ D[1] = "SetUpContext" /\ D[2] = "LimitSimulationGas" /\ D[3] = "CountTX"
      /\ D[4] = "TxTimeoutHeight" /\ D[5] = "ConsumeGas" /\ D[6] = "DeductFee"
      /\ D[7] = "SetPubKey" /\ D[8] = "SigVerification" /\ D[9] = "IncrementSequence"
      /\ D[10] = "RedundantRelay"
  BY DEF anteDecorators
<1> HIDE DEF D
<1>2. QED BY <1>1, Zenon DEF Ante, D

(* The state a transaction leaves that passes.                             *)
After(st, tx, mode, h) ==
  Seen(MovedOn(KeyStored(Paid(CountUp(st, h), tx), tx), tx), tx, mode)

LEMMA CountUpFields ==
  ASSUME NEW st \in States, NEW h \in Nat
  PROVE  LET e == CountUp(st, h) IN
         /\ e \in States /\ CountIn(st, h) \in Nat
         /\ e.counter = [height |-> h, n |-> CountIn(st, h) + 1]
         /\ e.seq = st.seq /\ e.keyed = st.keyed /\ e.bal = st.bal /\ e.grant = st.grant
         /\ e.received = st.received /\ e.log = st.log
<1> DEFINE n == [height |-> h, n |-> CountIn(st, h) + 1]
           e == [st EXCEPT !.counter = n]
<1>1. CountIn(st, h) \in Nat
  BY DEF CountIn, States
<1>2. n \in [height : Nat, n : Nat]
  BY <1>1
<1>3. CountUp(st, h) = e
  BY Zenon DEF CountUp
<1> HIDE DEF n
<1>4. /\ e \in States /\ e.counter = n /\ e.seq = st.seq /\ e.keyed = st.keyed
      /\ e.bal = st.bal /\ e.grant = st.grant /\ e.received = st.received
      /\ e.log = st.log
  BY <1>2 DEF States
<1> HIDE DEF e
<1>5. QED BY <1>1, <1>3, <1>4, Zenon DEF n

LEMMA AfterFields ==
  ASSUME NEW st \in States, NEW tx \in Txs, NEW mode, NEW h \in Nat, NEW min,
         Admits(st, tx, mode, h, min)
  PROVE  LET e == After(st, tx, mode, h) IN
         /\ Becomes(st, tx, mode, e)
         /\ e.log = st.log /\ e.counter = [height |-> h, n |-> CountIn(st, h) + 1]
<1> DEFINE s1 == CountUp(st, h)
           s2 == Paid(s1, tx)
           s3 == KeyStored(s2, tx)
           s4 == MovedOn(s3, tx)
           s5 == Seen(s4, tx, mode)
<1>1. /\ s1 \in States
      /\ s1.counter = [height |-> h, n |-> CountIn(st, h) + 1]
      /\ s1.seq = st.seq /\ s1.keyed = st.keyed /\ s1.bal = st.bal
      /\ s1.grant = st.grant /\ s1.received = st.received /\ s1.log = st.log
  BY CountUpFields, Zenon
<1> HIDE DEF s1
<1>2. /\ s1.bal[tx.payer] >= tx.fee
      /\ tx.payer = tx.signer \/ s1.grant[<<tx.payer, tx.signer>>] >= tx.fee
  BY <1>1, Zenon DEF Admits
<1>3. /\ s2 \in States
      /\ s2.bal = Less(s1.bal, tx.payer, tx.fee)
      /\ s2.grant = IF tx.payer = tx.signer THEN s1.grant
                    ELSE Less(s1.grant, <<tx.payer, tx.signer>>, tx.fee)
      /\ s2.seq = s1.seq /\ s2.keyed = s1.keyed /\ s2.received = s1.received
      /\ s2.counter = s1.counter /\ s2.log = s1.log
  BY <1>1, <1>2, PaidFields, Zenon
<1> HIDE DEF s2
<1>4. /\ s3 \in States
      /\ s3.keyed = IF tx.key THEN s2.keyed \cup {tx.signer} ELSE s2.keyed
      /\ s3.seq = s2.seq /\ s3.bal = s2.bal /\ s3.grant = s2.grant
      /\ s3.received = s2.received /\ s3.counter = s2.counter /\ s3.log = s2.log
  BY <1>3, KeyStoredFields, Zenon
<1> HIDE DEF s3
<1>5. /\ s4 \in States
      /\ s4.seq = [s3.seq EXCEPT ![tx.signer] = @ + 1]
      /\ s4.keyed = s3.keyed /\ s4.bal = s3.bal /\ s4.grant = s3.grant
      /\ s4.received = s3.received /\ s4.counter = s3.counter /\ s4.log = s3.log
  BY <1>4, MovedOnFields, Zenon
<1> HIDE DEF s4
<1>6. /\ s5 \in States
      /\ s5.received = IF Checks(mode, tx) THEN s4.received \cup tx.packets ELSE s4.received
      /\ s5.seq = s4.seq /\ s5.keyed = s4.keyed /\ s5.bal = s4.bal /\ s5.grant = s4.grant
      /\ s5.counter = s4.counter /\ s5.log = s4.log
  BY <1>5, SeenFields, Zenon
<1> HIDE DEF s5
<1>7. Becomes(st, tx, mode, s5)
  BY <1>1, <1>3, <1>4, <1>5, <1>6, Zenon DEF Becomes
<1>8. s5.log = st.log /\ s5.counter = [height |-> h, n |-> CountIn(st, h) + 1]
  BY <1>1, <1>3, <1>4, <1>5, <1>6, Zenon
<1>9. QED BY <1>7, <1>8, Zenon DEF After, s1, s2, s3, s4, s5

(* The ante handler lets through what Admits says and writes After.        *)
LEMMA AnteIsExact ==
  ASSUME NEW st \in States, NEW tx \in Txs, NEW mode \in Modes \ {"simulate"},
         NEW h \in Nat, NEW min \in Nat
  PROVE  LET b == Context(st, tx, mode, h, min) IN
         /\ Live(b) /\ b.tx = tx /\ b.height = h
         /\ IF Admits(st, tx, mode, h, min)
            THEN Now(b, Ante(b), After(st, tx, mode, h), tx.gas, CountIn(st, h))
            ELSE Out(Ante(b))
<1> DEFINE b == Context(st, tx, mode, h, min)
           c1 == Decorate(b, "SetUpContext")
           c2 == Decorate(c1, "LimitSimulationGas")
           c3 == Decorate(c2, "CountTX")
           c4 == Decorate(c3, "TxTimeoutHeight")
           c5 == Decorate(c4, "ConsumeGas")
           c6 == Decorate(c5, "DeductFee")
           c7 == Decorate(c6, "SetPubKey")
           c8 == Decorate(c7, "SigVerification")
           c9 == Decorate(c8, "IncrementSequence")
           c10 == Decorate(c9, "RedundantRelay")
           s1 == CountUp(st, h)
           s2 == Paid(s1, tx)
           s3 == KeyStored(s2, tx)
           s4 == MovedOn(s3, tx)
           k == CountIn(st, h)
<1>1. Ante(b) = c10
  BY AnteChain, Zenon
<1>2. /\ Live(b) /\ b.tx = tx /\ b.height = h /\ b.mode = mode /\ b.min = min
      /\ Now(b, b, st, NoLimit, 0)
  <2>1. NoLimit \in Int /\ 0 \in Nat /\ mode \in Modes /\ mode # "simulate"
    BY DEF NoLimit
  <2>2. /\ b \in Contexts /\ b.st = st /\ b.tx = tx /\ b.height = h /\ b.mode = mode
        /\ b.min = min /\ b.limit = NoLimit /\ b.index = 0 /\ b.ok = TRUE
    BY <2>1 DEF Context, Contexts
  <2> HIDE DEF b
  <2>3. b = Changed(b, st, NoLimit, 0)
    BY <2>1, <2>2 DEF Contexts, Changed
  <2>4. QED BY <2>1, <2>2, <2>3, Zenon DEF Live, Now
<1> HIDE DEF b
<1>3. Now(b, c1, st, tx.gas, 0)
  BY <1>2, NowSetUp, Zenon
<1> HIDE DEF c1
<1>4. Now(b, c2, st, tx.gas, 0)
  BY <1>2, <1>3, NowLimited, Zenon
<1> HIDE DEF c2
<1>5. Now(b, c3, s1, tx.gas, k)
  BY <1>2, <1>4, NowCount, Zenon
<1> HIDE DEF c3
<1>6. /\ s1 \in States
      /\ s1.seq = st.seq /\ s1.keyed = st.keyed /\ s1.bal = st.bal
      /\ s1.grant = st.grant /\ s1.received = st.received
  BY CountUpFields, Zenon
<1>7. IF tx.timeout = 0 \/ h <= tx.timeout THEN Now(b, c4, s1, tx.gas, k) ELSE Out(c4)
  BY <1>2, <1>5, NowTimeout, Zenon
<1> HIDE DEF c4, s1, k
<1>8. Now(b, c4, s1, tx.gas, k) =>
        IF tx.gas >= 1 THEN Now(b, c5, s1, tx.gas, k) ELSE Out(c5)
  BY <1>2, NowGas, Zenon
<1>9. Out(c4) => Out(c5)
  BY OutStays, Zenon
<1> HIDE DEF c5
<1>10. Now(b, c5, s1, tx.gas, k) =>
         IF Affordable(b, s1) THEN Now(b, c6, s2, tx.gas, k) ELSE Out(c6)
  BY <1>2, NowFee, Zenon
<1>11. Out(c5) => Out(c6)
  BY OutStays, Zenon
<1> HIDE DEF c6
<1>12. Now(b, c6, s2, tx.gas, k) => Now(b, c7, s3, tx.gas, k)
  BY <1>2, NowKey, Zenon
<1>13. Out(c6) => Out(c7)
  BY OutStays, Zenon
<1> HIDE DEF c7
<1>14. Now(b, c7, s3, tx.gas, k) =>
         IF HasSigned(b, s3) THEN Now(b, c8, s3, tx.gas, k) ELSE Out(c8)
  BY <1>2, NowSigned, Zenon
<1>15. Out(c7) => Out(c8)
  BY OutStays, Zenon
<1> HIDE DEF c8
<1>16. Now(b, c8, s3, tx.gas, k) => Now(b, c9, s4, tx.gas, k)
  BY <1>2, NowMoved, Zenon
<1>17. Out(c8) => Out(c9)
  BY OutStays, Zenon
<1> HIDE DEF c9
<1>18. Now(b, c9, s4, tx.gas, k) =>
         IF Checks(mode, tx) => ~(tx.packets \subseteq s4.received)
         THEN Now(b, c10, Seen(s4, tx, mode), tx.gas, k) ELSE Out(c10)
  BY <1>2, NowSeen, Zenon
<1>19. Out(c9) => Out(c10)
  BY OutStays, Zenon
<1> HIDE DEF c10
<1>20. Affordable(b, s1) <=>
         /\ mode # "deliver" => tx.fee >= min
         /\ st.bal[tx.payer] >= tx.fee
         /\ tx.payer = tx.signer \/ st.grant[<<tx.payer, tx.signer>>] >= tx.fee
  BY <1>2, <1>6, Zenon DEF Affordable
<1>21. Affordable(b, s1) =>
         /\ s4.received = st.received
         /\ HasSigned(b, s3) <=> /\ tx.signer \in st.keyed \/ tx.key
                                 /\ tx.seq = st.seq[tx.signer]
                                 /\ mode # "recheck" => tx.valid
  <2> SUFFICES ASSUME Affordable(b, s1)
               PROVE  /\ s4.received = st.received
                      /\ HasSigned(b, s3) <=> /\ tx.signer \in st.keyed \/ tx.key
                                              /\ tx.seq = st.seq[tx.signer]
                                              /\ mode # "recheck" => tx.valid
    OBVIOUS
  <2>1. /\ s2 \in States /\ s2.seq = s1.seq /\ s2.keyed = s1.keyed
        /\ s2.received = s1.received
    BY <1>2, <1>6, PaidFields, Zenon DEF Affordable
  <2> HIDE DEF s2
  <2>2. /\ s3 \in States /\ s3.seq = s2.seq /\ s3.received = s2.received
        /\ s3.keyed = IF tx.key THEN s2.keyed \cup {tx.signer} ELSE s2.keyed
    BY <2>1, KeyStoredFields, Zenon
  <2> HIDE DEF s3
  <2>3. s4.received = s3.received
    BY <2>2, MovedOnFields, Zenon
  <2>4. tx.signer \in s3.keyed <=> tx.signer \in st.keyed \/ tx.key
    BY <1>6, <2>1, <2>2
  <2>5. HasSigned(b, s3) <=> /\ tx.signer \in s3.keyed
                             /\ tx.seq = st.seq[tx.signer]
                             /\ mode # "recheck" => tx.valid
    BY <1>2, <1>6, <2>1, <2>2, Zenon DEF HasSigned
  <2>6. s4.received = st.received
    BY <1>6, <2>1, <2>2, <2>3, Zenon
  <2>7. QED BY <2>4, <2>5, <2>6, Zenon
<1>22. CASE Admits(st, tx, mode, h, min)
  <2>1. Now(b, c4, s1, tx.gas, k)
    BY <1>7, <1>22, Zenon DEF Admits
  <2>2. Now(b, c5, s1, tx.gas, k)
    BY <1>8, <1>22, <2>1, Zenon DEF Admits
  <2>3. Affordable(b, s1)
    BY <1>20, <1>22, Zenon DEF Admits
  <2>4. Now(b, c7, s3, tx.gas, k)
    BY <1>10, <1>12, <2>2, <2>3, Zenon
  <2>5. HasSigned(b, s3)
    BY <1>21, <1>22, <2>3, Zenon DEF Admits
  <2>6. Now(b, c9, s4, tx.gas, k)
    BY <1>14, <1>16, <2>4, <2>5, Zenon
  <2>7. Checks(mode, tx) => ~(tx.packets \subseteq s4.received)
    BY <1>21, <1>22, <2>3, Zenon DEF Admits
  <2>8. Now(b, c10, Seen(s4, tx, mode), tx.gas, k)
    BY <1>18, <2>6, <2>7, Zenon
  <2>9. Seen(s4, tx, mode) = After(st, tx, mode, h)
    BY Zenon DEF After, s1, s2, s3, s4
  <2>10. QED BY <1>1, <1>2, <1>22, <2>8, <2>9, Zenon DEF b, k
<1>23. CASE ~Admits(st, tx, mode, h, min)
  <2>1. ASSUME ~Out(c10) PROVE FALSE
    <3>1. ~Out(c9) /\ ~Out(c8) /\ ~Out(c7) /\ ~Out(c6) /\ ~Out(c5) /\ ~Out(c4)
      BY <1>9, <1>11, <1>13, <1>15, <1>17, <1>19, <2>1, Zenon
    <3>2. (tx.timeout = 0 \/ h <= tx.timeout) /\ Now(b, c4, s1, tx.gas, k)
      BY <1>7, <3>1, Zenon
    <3>3. tx.gas >= 1 /\ Now(b, c5, s1, tx.gas, k)
      BY <1>8, <3>1, <3>2, Zenon
    <3>4. Affordable(b, s1) /\ Now(b, c7, s3, tx.gas, k)
      BY <1>10, <1>12, <3>1, <3>3, Zenon
    <3>5. HasSigned(b, s3) /\ Now(b, c9, s4, tx.gas, k)
      BY <1>14, <1>16, <3>1, <3>4, Zenon
    <3>6. Checks(mode, tx) => ~(tx.packets \subseteq s4.received)
      BY <1>18, <2>1, <3>5, Zenon
    <3>7. Admits(st, tx, mode, h, min)
      BY <1>20, <1>21, <3>2, <3>3, <3>4, <3>5, <3>6, Zenon DEF Admits
    <3>8. QED BY <1>23, <3>7
  <2>2. QED BY <1>1, <1>2, <1>23, <2>1, Zenon DEF b
<1>24. QED BY <1>22, <1>23, Zenon

(* The same in the terms of the runs.                                      *)
LEMMA CheckIsExact ==
  ASSUME NEW st \in States, NEW tx \in Txs, NEW mode \in Modes \ {"simulate"},
         NEW h \in Nat, NEW min \in Nat
  PROVE  LET c == CheckTx(st, tx, mode, h, min) IN
         /\ c.ok <=> Admits(st, tx, mode, h, min)
         /\ c.ok => Becomes(st, tx, mode, c.st)
<1> DEFINE b == Context(st, tx, mode, h, min)
           c == CheckTx(st, tx, mode, h, min)
           e == After(st, tx, mode, h)
<1>1. /\ Live(b)
      /\ IF Admits(st, tx, mode, h, min) THEN Now(b, c, e, tx.gas, CountIn(st, h)) ELSE Out(c)
  BY AnteIsExact, Zenon DEF CheckTx
<1> HIDE DEF b, c
<1>2. CASE Admits(st, tx, mode, h, min)
  <2>1. Like(b, c, e, tx.gas, CountIn(st, h))
    BY <1>1, <1>2, NowFields, Zenon
  <2>2. Becomes(st, tx, mode, e)
    BY <1>2, AfterFields, Zenon
  <2>3. c.ok = TRUE /\ c.st = e
    BY <2>1, Zenon DEF Like
  <2> HIDE DEF e
  <2>4. c.ok /\ Becomes(st, tx, mode, c.st)
    BY <2>2, <2>3
  <2>5. QED BY <1>2, <2>4, Zenon DEF c
<1>3. CASE ~Admits(st, tx, mode, h, min)
  <2>1. ~c.ok
    BY <1>1, <1>3 DEF Out
  <2>2. QED BY <1>3, <2>1, Zenon DEF c
<1>4. QED BY <1>2, <1>3, Zenon

(* One that passes in a block is the signer's next one and moves its       *)
(* sequence number on; it is counted for its block and has paid.           *)
Passing(c, st, tx, h) ==
  /\ tx.valid /\ tx.seq = st.seq[tx.signer]
  /\ c.st.seq = [st.seq EXCEPT ![tx.signer] = @ + 1]
  /\ c.index = CountIn(st, h)
  /\ c.st.counter = [height |-> h, n |-> CountIn(st, h) + 1]
  /\ c.st.bal = Less(st.bal, tx.payer, tx.fee)
  /\ c.st.grant = IF tx.payer = tx.signer THEN st.grant
                  ELSE Less(st.grant, <<tx.payer, tx.signer>>, tx.fee)

LEMMA Chain ==
  ASSUME NEW st \in States, NEW tx \in Txs, NEW h \in Nat, NEW min \in Nat
  PROVE  LET c == Ante(Context(st, tx, "deliver", h, min)) IN
         /\ c \in Contexts
         /\ c.ok => /\ c.tx = tx /\ c.height = h /\ c.st.log = st.log
                    /\ Passing(c, st, tx, h)
<1> DEFINE b == Context(st, tx, "deliver", h, min)
           c == Ante(b)
           e == After(st, tx, "deliver", h)
<1>1. "deliver" \in Modes \ {"simulate"}
  BY DEF Modes
<1>2. /\ Live(b) /\ b.tx = tx /\ b.height = h
      /\ IF Admits(st, tx, "deliver", h, min)
         THEN Now(b, c, e, tx.gas, CountIn(st, h)) ELSE Out(c)
  BY <1>1, AnteIsExact, Zenon
<1> HIDE DEF b, c
<1>3. CASE Admits(st, tx, "deliver", h, min)
  <2>1. Like(b, c, e, tx.gas, CountIn(st, h))
    BY <1>2, <1>3, NowFields, Zenon
  <2>2. /\ Becomes(st, tx, "deliver", e)
        /\ e.log = st.log /\ e.counter = [height |-> h, n |-> CountIn(st, h) + 1]
    BY <1>3, AfterFields, Zenon
  <2> HIDE DEF e
  <2>3. tx.valid /\ tx.seq = st.seq[tx.signer]
    BY <1>3 DEF Admits
  <2>4. /\ c \in Contexts /\ c.tx = tx /\ c.height = h /\ c.st = e
        /\ c.index = CountIn(st, h)
    BY <1>2, <2>1, Zenon DEF Like
  <2>5. Passing(c, st, tx, h)
    BY <2>2, <2>3, <2>4, Zenon DEF Passing, Becomes
  <2>6. QED BY <2>2, <2>4, <2>5, Zenon DEF b, c
<1>4. CASE ~Admits(st, tx, "deliver", h, min)
  <2>1. c \in Contexts /\ ~c.ok
    BY <1>2, <1>4 DEF Out
  <2>2. QED BY <2>1, Zenon DEF b, c
<1>5. QED BY <1>3, <1>4, Zenon

(* A transaction is refused and leaves the state as it is, or it enters    *)
(* the log.                                                                *)
Entered(st, after, tx, h) ==
  /\ tx.valid /\ tx.seq = st.seq[tx.signer]
  /\ after.seq = [st.seq EXCEPT ![tx.signer] = @ + 1]
  /\ after.counter = [height |-> h, n |-> CountIn(st, h) + 1]
  /\ after.grant = IF tx.payer = tx.signer THEN st.grant
                   ELSE Less(st.grant, <<tx.payer, tx.signer>>, tx.fee)
  /\ \E e \in Entries :
       /\ e.tx = tx /\ e.height = h /\ e.index = CountIn(st, h)
       /\ after.log = Append(st.log, e)
       /\ after.bal = IF e.done THEN Less(Less(st.bal, tx.payer, tx.fee), tx.signer, tx.spends)
                      ELSE Less(st.bal, tx.payer, tx.fee)

LEMMA Messages ==
  ASSUME NEW c \in Contexts
  PROVE  /\ RunMsgs(c) \in States
         /\ RunMsgs(c).seq = c.st.seq /\ RunMsgs(c).counter = c.st.counter
         /\ RunMsgs(c).grant = c.st.grant
         /\ \E e \in Entries :
              /\ e.tx = c.tx /\ e.height = c.height /\ e.index = c.index
              /\ RunMsgs(c).log = Append(c.st.log, e)
              /\ RunMsgs(c).bal = IF e.done THEN Less(c.st.bal, c.tx.signer, c.tx.spends)
                                  ELSE c.st.bal
<1> DEFINE done == Runs(c)
           e == [tx |-> c.tx, height |-> c.height, index |-> c.index, done |-> done]
           b == IF done THEN Less(c.st.bal, c.tx.signer, c.tx.spends) ELSE c.st.bal
           r == IF done THEN c.st.received \cup c.tx.packets ELSE c.st.received
           l == Append(c.st.log, e)
           st == [c.st EXCEPT !.bal = b, !.received = r, !.log = l]
<1>1. RunMsgs(c) = st
  BY Zenon DEF RunMsgs
<1>2. c.st \in States /\ c.tx \in Txs /\ c.height \in Nat /\ c.index \in Nat
  BY DEF Contexts
<1>3. /\ c.tx.signer \in Accounts /\ c.tx.spends \in Nat /\ c.tx.packets \subseteq Packets
      /\ c.st.bal \in [Accounts -> Nat] /\ c.st.received \subseteq Packets
      /\ c.st.log \in Seq(Entries)
  BY <1>2, TxFields, StateFields
<1>4. done \in BOOLEAN
  BY DEF Runs
<1>5. done => c.st.bal[c.tx.signer] - c.tx.spends \in Nat
  BY <1>3 DEF Runs
<1>6. b \in [Accounts -> Nat]
  BY <1>3, <1>5 DEF Less
<1>7. r \subseteq Packets
  BY <1>3
<1>8. e \in Entries /\ e.tx = c.tx /\ e.height = c.height /\ e.index = c.index
      /\ e.done = done
  BY <1>2, <1>4 DEF Entries
<1> HIDE DEF e
<1>9. l \in Seq(Entries)
  BY <1>3, <1>8
<1>10. st \in States /\ st.seq = c.st.seq /\ st.counter = c.st.counter /\ st.log = l
       /\ st.grant = c.st.grant /\ st.bal = b
  <2> HIDE DEF b, r, l
  <2>1. l \in Seq([tx : Txs, height : Nat, index : Nat, done : BOOLEAN])
    BY <1>9 DEF Entries
  <2>2. QED BY <2>1, <1>2, <1>6, <1>7 DEF States
<1> HIDE DEF st
<1>11. st.bal = IF e.done THEN Less(c.st.bal, c.tx.signer, c.tx.spends) ELSE c.st.bal
  BY <1>8, <1>10, Zenon
<1>12. QED BY <1>1, <1>8, <1>10, <1>11, Zenon

LEMMA Delivering ==
  ASSUME NEW st \in States, NEW tx \in Txs, NEW h \in Nat, NEW min \in Nat
  PROVE  LET after == DeliverTx(st, tx, h, min) IN
         /\ after \in States
         /\ after = st \/ Entered(st, after, tx, h)
<1> DEFINE c == Ante(Context(st, tx, "deliver", h, min))
<1>1. /\ c \in Contexts
      /\ c.ok => /\ c.tx = tx /\ c.height = h /\ c.st.log = st.log
                 /\ Passing(c, st, tx, h)
  BY Chain, Zenon
<1> HIDE DEF c
<1>2. CASE c.ok
  <2>1. DeliverTx(st, tx, h, min) = RunMsgs(c)
    BY <1>2, Zenon DEF DeliverTx, c
  <2> DEFINE m == RunMsgs(c)
             paid == Less(st.bal, tx.payer, tx.fee)
  <2>2. /\ m \in States
        /\ m.seq = c.st.seq /\ m.counter = c.st.counter /\ m.grant = c.st.grant
    BY <1>1, Messages, Zenon
  <2>3. PICK e \in Entries :
          /\ e.tx = c.tx /\ e.height = c.height /\ e.index = c.index
          /\ m.log = Append(c.st.log, e)
          /\ m.bal = IF e.done THEN Less(c.st.bal, c.tx.signer, c.tx.spends) ELSE c.st.bal
    BY <1>1, Messages, Zenon
  <2> HIDE DEF m
  <2>4. c.st.bal = paid /\ c.tx = tx
    BY <1>1, <1>2, Zenon DEF Passing
  <2>5. m.bal = IF e.done THEN Less(paid, tx.signer, tx.spends) ELSE paid
    BY <2>3, <2>4, Zenon
  <2>6. e.tx = tx /\ e.height = h /\ e.index = CountIn(st, h) /\ m.log = Append(st.log, e)
    BY <1>1, <1>2, <2>3, Zenon DEF Passing
  <2>7. Entered(st, m, tx, h)
    BY <1>1, <1>2, <2>2, <2>5, <2>6, Zenon DEF Passing, Entered
  <2>8. QED BY <2>1, <2>2, <2>7, Zenon DEF m
<1>3. CASE ~c.ok
  <2>1. DeliverTx(st, tx, h, min) = st
    BY <1>3, Zenon DEF DeliverTx, c
  <2>2. QED BY <2>1, Zenon
<1>4. QED BY <1>2, <1>3, Zenon
---------------------------------------------------------------------------
(* The sequence numbers and the positions of a state                       *)

SignedBy(log, a, k) == {j \in 1 .. k : log[j].tx.signer = a}
InBlock(log, h, k) == {j \in 1 .. k : log[j].height = h}

Numbered(st) ==
  /\ \A i \in DOMAIN st.log :
       /\ st.log[i].tx.valid
       /\ st.log[i].tx.seq = Genesis.seq[st.log[i].tx.signer]
            + Cardinality(SignedBy(st.log, st.log[i].tx.signer, i - 1))
  /\ \A a \in Accounts :
       st.seq[a] = Genesis.seq[a] + Cardinality(SignedBy(st.log, a, Len(st.log)))

Placed(st) ==
  /\ \A i \in DOMAIN st.log :
       /\ 1 <= st.log[i].height /\ st.log[i].height <= st.counter.height
       /\ st.log[i].index = Cardinality(InBlock(st.log, st.log[i].height, i - 1))
  /\ st.counter.height > 0 =>
       st.counter.n = Cardinality(InBlock(st.log, st.counter.height, Len(st.log)))

Good(st, h) == st \in States /\ Numbered(st) /\ Placed(st) /\ st.counter.height <= h

(* How the members of an initial segment are counted.                      *)
LEMMA Segment ==
  ASSUME NEW k \in Nat, NEW J \in SUBSET (1 .. k)
  PROVE  /\ IsFiniteSet(J) /\ Cardinality(J) \in Nat
         /\ Cardinality(J \cup {k + 1}) = Cardinality(J) + 1
<1>1. IsFiniteSet(J)
  <2>1. IsFiniteSet(1 .. k)
    BY FS_Interval
  <2>2. QED BY <2>1, FS_Subset
<1>2. k + 1 \notin J
  OBVIOUS
<1>3. QED BY <1>1, <1>2, FS_AddElement, FS_CardinalityType

(* What an entry appended to a log of length k changes of the counts.      *)
Extended(log, longer, k, e, a, h) ==
  /\ \A i \in 0 .. k : /\ SignedBy(longer, a, i) = SignedBy(log, a, i)
                       /\ InBlock(longer, h, i) = InBlock(log, h, i)
  /\ SignedBy(longer, a, k + 1) =
       IF e.tx.signer = a THEN SignedBy(log, a, k) \cup {k + 1} ELSE SignedBy(log, a, k)
  /\ InBlock(longer, h, k + 1) =
       IF e.height = h THEN InBlock(log, h, k) \cup {k + 1} ELSE InBlock(log, h, k)

LEMMA AppendedCounts ==
  ASSUME NEW log \in Seq(Entries), NEW e \in Entries,
         NEW longer, longer = Append(log, e), NEW k, k = Len(log), NEW a, NEW h
  PROVE  Extended(log, longer, k, e, a, h)
<1>1. k \in Nat /\ longer[k + 1] = e /\ \A j \in 1 .. k : longer[j] = log[j]
  OBVIOUS
<1>2. \A i \in 0 .. k : /\ SignedBy(longer, a, i) = SignedBy(log, a, i)
                        /\ InBlock(longer, h, i) = InBlock(log, h, i)
  <2> SUFFICES ASSUME NEW i \in 0 .. k
               PROVE  /\ SignedBy(longer, a, i) = SignedBy(log, a, i)
                      /\ InBlock(longer, h, i) = InBlock(log, h, i)
    OBVIOUS
  <2>1. \A j \in 1 .. i : longer[j] = log[j]
    BY <1>1
  <2>2. QED BY <2>1 DEF SignedBy, InBlock
<1>3. 1 .. k + 1 = (1 .. k) \cup {k + 1}
  BY <1>1
<1>4. SignedBy(longer, a, k + 1) =
        IF e.tx.signer = a THEN SignedBy(log, a, k) \cup {k + 1} ELSE SignedBy(log, a, k)
  BY <1>1, <1>3 DEF SignedBy
<1>5. InBlock(longer, h, k + 1) =
        IF e.height = h THEN InBlock(log, h, k) \cup {k + 1} ELSE InBlock(log, h, k)
  BY <1>1, <1>3 DEF InBlock
<1>6. QED BY <1>2, <1>4, <1>5 DEF Extended

LEMMA GenesisIsGood == Good(Genesis, 0)
<1>1. Genesis \in States /\ Genesis.log = <<>> /\ Genesis.counter.height = 0
  BY NodeAssumption, GenesisLogAssumption
<1>2. \A a : SignedBy(<<>>, a, 0) = {}
  BY DEF SignedBy
<1>3. Cardinality({}) = 0
  BY FS_EmptySet
<1>4. \A a \in Accounts : Genesis.seq[a] \in Nat
  BY <1>1, StateFields
<1>5. DOMAIN Genesis.log = {} /\ Len(Genesis.log) = 0
  BY <1>1
<1>6. Numbered(Genesis)
  <2>1. ASSUME NEW a \in Accounts
        PROVE  Genesis.seq[a] = Genesis.seq[a] + Cardinality(SignedBy(Genesis.log, a, Len(Genesis.log)))
    <3>1. Cardinality(SignedBy(Genesis.log, a, Len(Genesis.log))) = 0
      BY <1>1, <1>2, <1>3, <1>5
    <3>2. QED BY <3>1, <1>4
  <2>2. QED BY <2>1, <1>5, Zenon DEF Numbered
<1>7. Placed(Genesis)
  BY <1>1, <1>5 DEF Placed
<1>8. QED BY <1>1, <1>6, <1>7 DEF Good

LEMMA EntryFields ==
  ASSUME NEW e \in Entries
  PROVE  /\ e.tx \in Txs /\ e.height \in Nat /\ e.index \in Nat
         /\ e.tx.signer \in Accounts /\ e.tx.seq \in Nat
BY TxFields DEF Entries

LEMMA GoodDelivery ==
  ASSUME NEW st, NEW h \in Nat \ {0}, Good(st, h), NEW tx \in Txs, NEW min \in Nat
  PROVE  Good(DeliverTx(st, tx, h, min), h)
<1> DEFINE after == DeliverTx(st, tx, h, min)
           log == st.log
           k == Len(log)
<1>1. st \in States /\ Numbered(st) /\ Placed(st) /\ st.counter.height <= h
  BY DEF Good
<1>2. after \in States /\ (after = st \/ Entered(st, after, tx, h))
  BY <1>1, Delivering, Zenon
<1> HIDE DEF after
<1>3. CASE after = st
  BY <1>3, Zenon DEF after
<1>4. CASE Entered(st, after, tx, h)
  <2>1. PICK e \in Entries : /\ e.tx = tx /\ e.height = h /\ e.index = CountIn(st, h)
                             /\ after.log = Append(log, e)
    BY <1>4, Zenon DEF Entered
  <2>2. /\ tx.valid /\ tx.seq = st.seq[tx.signer]
        /\ after.seq = [st.seq EXCEPT ![tx.signer] = @ + 1]
        /\ after.counter = [height |-> h, n |-> CountIn(st, h) + 1]
    BY <1>4, Zenon DEF Entered
  <2>3. /\ log \in Seq(Entries) /\ st.seq \in [Accounts -> Nat] /\ tx.signer \in Accounts
        /\ st.counter \in [height : Nat, n : Nat]
    BY <1>1, StateFields, TxFields
  <2>4. \A a \in Accounts : Genesis.seq[a] \in Nat
    BY NodeAssumption, StateFields
  <2>5. /\ k \in Nat /\ Len(after.log) = k + 1 /\ after.log[k + 1] = e
        /\ DOMAIN after.log = 1 .. k + 1 /\ DOMAIN log = 1 .. k
        /\ \A i \in 1 .. k : after.log[i] = log[i] /\ log[i] \in Entries
    BY <2>1, <2>3
  <2> HIDE DEF log, k
  <2>18. ASSUME NEW a, NEW g
         PROVE  Extended(log, after.log, k, e, a, g)
    <3>1. after.log = Append(log, e) /\ k = Len(log) /\ log \in Seq(Entries)
      BY <2>1, <2>3 DEF k
    <3>2. QED BY <3>1, AppendedCounts
  <2>6. \A a, i : i \in 0 .. k => SignedBy(after.log, a, i) = SignedBy(log, a, i)
    BY <2>18, Zenon DEF Extended
  <2>7. \A g, i : i \in 0 .. k => InBlock(after.log, g, i) = InBlock(log, g, i)
    BY <2>18, Zenon DEF Extended
  <2>8. \A a : SignedBy(after.log, a, k + 1) =
                 IF tx.signer = a THEN SignedBy(log, a, k) \cup {k + 1} ELSE SignedBy(log, a, k)
    BY <2>18, <2>1, Zenon DEF Extended
  <2>9. InBlock(after.log, h, k + 1) = InBlock(log, h, k) \cup {k + 1}
    BY <2>18, <2>1, Zenon DEF Extended
  <2>10. \A a : /\ Cardinality(SignedBy(log, a, k)) \in Nat
                /\ Cardinality(SignedBy(log, a, k) \cup {k + 1})
                     = Cardinality(SignedBy(log, a, k)) + 1
    <3>1. \A a : SignedBy(log, a, k) \in SUBSET (1 .. k)
      BY DEF SignedBy
    <3>2. QED BY <3>1, <2>5, Segment
  <2>11. /\ Cardinality(InBlock(log, h, k)) \in Nat
         /\ Cardinality(InBlock(log, h, k) \cup {k + 1}) = Cardinality(InBlock(log, h, k)) + 1
    <3>1. InBlock(log, h, k) \in SUBSET (1 .. k)
      BY DEF InBlock
    <3>2. QED BY <3>1, <2>5, Segment
  <2>12. CountIn(st, h) = Cardinality(InBlock(log, h, k))
    <3>1. CASE st.counter.height = h
      BY <3>1, <1>1 DEF Placed, CountIn, log, k
    <3>2. CASE st.counter.height # h
      <4>1. \A i \in 1 .. k : log[i].height <= st.counter.height
        BY <1>1, <2>5 DEF Placed, log
      <4>2. \A i \in 1 .. k : log[i].height # h
        BY <4>1, <3>2, <1>1, <2>3, <2>5, EntryFields
      <4>3. InBlock(log, h, k) = {}
        BY <4>2 DEF InBlock
      <4>4. QED BY <4>3, <3>2, FS_EmptySet DEF CountIn
    <3>3. QED BY <3>1, <3>2
  <2>13. \A a \in Accounts : st.seq[a] = Genesis.seq[a] + Cardinality(SignedBy(log, a, k))
    BY <1>1, Zenon DEF Numbered, log, k
  <2>14. Numbered(after)
    <3>1. ASSUME NEW i \in 1 .. k + 1
          PROVE  /\ after.log[i].tx.valid
                 /\ after.log[i].tx.seq = Genesis.seq[after.log[i].tx.signer]
                      + Cardinality(SignedBy(after.log, after.log[i].tx.signer, i - 1))
      <4>1. CASE i = k + 1
        <5>1. SignedBy(after.log, tx.signer, i - 1) = SignedBy(log, tx.signer, k)
          BY <4>1, <2>5, <2>6
        <5>2. tx.seq = Genesis.seq[tx.signer] + Cardinality(SignedBy(log, tx.signer, k))
          BY <2>2, <2>3, <2>13
        <5>3. after.log[i].tx = tx
          BY <4>1, <2>5, <2>1
        <5>4. QED BY <5>1, <5>2, <5>3, <2>2, Zenon
      <4>2. CASE i \in 1 .. k
        <5>1. after.log[i] = log[i] /\ i - 1 \in 0 .. k
          BY <4>2, <2>5
        <5>2. /\ log[i].tx.valid
              /\ log[i].tx.seq = Genesis.seq[log[i].tx.signer]
                   + Cardinality(SignedBy(log, log[i].tx.signer, i - 1))
          BY <4>2, <1>1, <2>5, Zenon DEF Numbered, log
        <5>3. QED BY <5>1, <5>2, <2>6, Zenon
      <4>3. QED BY <4>1, <4>2, <2>5
    <3>2. ASSUME NEW a \in Accounts
          PROVE  after.seq[a] = Genesis.seq[a] + Cardinality(SignedBy(after.log, a, k + 1))
      <4>1. CASE a = tx.signer
        <5>1. after.seq[a] = st.seq[a] + 1
          BY <4>1, <2>2, <2>3
        <5>2. SignedBy(after.log, a, k + 1) = SignedBy(log, a, k) \cup {k + 1}
          BY <4>1, <2>8
        <5>3. QED BY <5>1, <5>2, <2>10, <2>13, <2>4
      <4>2. CASE a # tx.signer
        <5>1. after.seq[a] = st.seq[a]
          BY <4>2, <2>2, <2>3
        <5>2. SignedBy(after.log, a, k + 1) = SignedBy(log, a, k)
          BY <4>2, <2>8
        <5>3. QED BY <5>1, <5>2, <2>13
      <4>3. QED BY <4>1, <4>2
    <3>3. QED BY <3>1, <3>2, <2>5 DEF Numbered
  <2>15. Placed(after)
    <3>1. after.counter.height = h /\ after.counter.n = CountIn(st, h) + 1
      BY <2>2
    <3>2. ASSUME NEW i \in 1 .. k + 1
          PROVE  /\ 1 <= after.log[i].height /\ after.log[i].height <= h
                 /\ after.log[i].index =
                      Cardinality(InBlock(after.log, after.log[i].height, i - 1))
      <4>1. CASE i = k + 1
        <5>1. InBlock(after.log, h, i - 1) = InBlock(log, h, k)
          BY <4>1, <2>5, <2>7
        <5>2. after.log[i].height = h /\ after.log[i].index = CountIn(st, h)
          BY <4>1, <2>5, <2>1
        <5>3. QED BY <5>1, <5>2, <2>12
      <4>2. CASE i \in 1 .. k
        <5>1. after.log[i] = log[i] /\ i - 1 \in 0 .. k
          BY <4>2, <2>5
        <5>2. /\ 1 <= log[i].height /\ log[i].height <= st.counter.height
              /\ log[i].index = Cardinality(InBlock(log, log[i].height, i - 1))
          BY <4>2, <1>1, <2>5, Zenon DEF Placed, log
        <5>3. log[i].height <= h
          BY <5>2, <1>1, <2>3, <2>5, <4>2, EntryFields
        <5>4. QED BY <5>1, <5>2, <5>3, <2>7, Zenon
      <4>3. QED BY <4>1, <4>2, <2>5
    <3>3. after.counter.n = Cardinality(InBlock(after.log, h, k + 1))
      BY <3>1, <2>9, <2>11, <2>12
    <3>4. QED BY <3>1, <3>2, <3>3, <2>5 DEF Placed
  <2>16. after.counter.height <= h
    BY <2>2
  <2>17. QED BY <1>2, <2>14, <2>15, <2>16 DEF Good, after
<1>5. QED BY <1>2, <1>3, <1>4, Zenon
---------------------------------------------------------------------------
(* The invariant                                                           *)

LogInv ==
  /\ blocks \in Seq(Seq(Txs))
  /\ height \in [Nodes -> Nat] /\ next \in [Nodes -> Nat \ {0}]
  /\ state \in [Nodes -> States] /\ deliver \in [Nodes -> States]
  /\ \A n \in Nodes : /\ height[n] <= Len(blocks)
                      /\ Good(state[n], height[n])
                      /\ Good(deliver[n], height[n] + 1)

LEMMA Later ==
  ASSUME NEW st, NEW h \in Nat, Good(st, h)
  PROVE  Good(st, h + 1)
BY StateFields DEF Good

LEMMA LogInit == Init => LogInv
<1> SUFFICES ASSUME Init PROVE LogInv
  OBVIOUS
<1>1. Good(Genesis, 0) /\ Good(Genesis, 1) /\ Genesis \in States
  BY GenesisIsGood, Later, NodeAssumption
<1>2. QED BY <1>1 DEF Init, LogInv

(* A step that decides a block.                                            *)
LEMMA Decided ==
  ASSUME LogInv, NEW b \in Seq(Txs), blocks' = Append(blocks, b),
         UNCHANGED <<height, state, deliver, next>>
  PROVE  LogInv'
<1>1. blocks' \in Seq(Seq(Txs)) /\ Len(blocks') = Len(blocks) + 1
  BY DEF LogInv
<1>2. \A n \in Nodes : height[n] <= Len(blocks')
  BY <1>1 DEF LogInv
<1>3. QED BY <1>1, <1>2 DEF LogInv

(* Whoever proposes, a block is decided.                                   *)
LEMMA DecidedBlock ==
  ASSUME NEW n \in Nodes, Propose(n) \/ ProposeOther(n)
  PROVE  \E b \in Seq(Txs) : blocks' = Append(blocks, b)
<1>1. CASE Propose(n)
  <2>1. PICK b \in Blocks : blocks' = Append(blocks, b)
    BY <1>1, Zenon DEF Propose
  <2>2. PICK k \in 1 .. MaxBlockTxs : b \in [1 .. k -> Txs]
    BY DEF Blocks
  <2>3. k \in Nat
    BY AdmissionBounds
  <2>4. b \in Seq(Txs)
    BY <2>2, <2>3
  <2>5. QED BY <2>1, <2>4
<1>2. CASE ProposeOther(n)
  <2>1. PICK b \in OtherBlocks : blocks' = Append(blocks, b)
    BY <1>2, Zenon DEF ProposeOther
  <2>2. QED BY <2>1, BlocksAssumption
<1>3. QED BY <1>1, <1>2

LEMMA LogNext == LogInv /\ [Next]_vars => LogInv'
<1> SUFFICES ASSUME LogInv, [Next]_vars
             PROVE  LogInv'
  OBVIOUS
<1>1. CASE UNCHANGED vars
  BY <1>1 DEF vars, LogInv
<1>2. ASSUME NEW n \in Nodes, NEW t \in Txs, Submit(n, t)
      PROVE  LogInv'
  <2>1. UNCHANGED <<blocks, height, state, deliver, next>>
    BY <1>2, Zenon DEF Submit
  <2>2. QED BY <2>1 DEF LogInv
<1>3. ASSUME NEW n \in Nodes, Propose(n) \/ ProposeOther(n)
      PROVE  LogInv'
  <2>1. PICK b \in Seq(Txs) : blocks' = Append(blocks, b)
    BY <1>3, DecidedBlock
  <2>2. UNCHANGED <<height, state, deliver, next>>
    BY <1>3, Zenon DEF Propose, ProposeOther
  <2>3. QED BY <2>1, <2>2, Decided
<1>5. ASSUME NEW n \in Nodes, Deliver(n)
      PROVE  LogInv'
  <2> DEFINE tx == NextBlock(n)[next[n]]
             after == DeliverTx(deliver[n], tx, height[n] + 1, MinPrice[n])
  <2>1. /\ height[n] < Len(blocks) /\ next[n] <= Len(NextBlock(n))
        /\ deliver' = [deliver EXCEPT ![n] = after]
        /\ next' = [next EXCEPT ![n] = @ + 1]
        /\ UNCHANGED <<blocks, height, state>>
    BY <1>5, Zenon DEF Deliver
  <2>2. tx \in Txs
    <3>1. height[n] + 1 \in 1 .. Len(blocks) /\ next[n] \in Nat \ {0}
      BY <2>1 DEF LogInv
    <3>2. NextBlock(n) \in Seq(Txs)
      BY <3>1 DEF NextBlock, LogInv
    <3>3. QED BY <3>1, <3>2, <2>1
  <2> HIDE DEF tx
  <2>3. height[n] + 1 \in Nat \ {0} /\ MinPrice[n] \in Nat
    BY NodeAssumption DEF LogInv
  <2>4. Good(deliver[n], height[n] + 1)
    BY DEF LogInv
  <2>5. Good(after, height[n] + 1) /\ after \in States
    BY <2>2, <2>3, <2>4, GoodDelivery DEF Good
  <2> HIDE DEF after
  <2>6. deliver' \in [Nodes -> States] /\ next' \in [Nodes -> Nat \ {0}]
    BY <2>1, <2>5 DEF LogInv
  <2>7. \A m \in Nodes : Good(deliver'[m], height[m] + 1)
    BY <2>1, <2>5 DEF LogInv
  <2>8. QED BY <2>1, <2>6, <2>7 DEF LogInv
<1>6. ASSUME NEW n \in Nodes, Commit(n)
      PROVE  LogInv'
  <2>1. /\ height[n] < Len(blocks)
        /\ state' = [state EXCEPT ![n] = deliver[n]]
        /\ height' = [height EXCEPT ![n] = @ + 1]
        /\ next' = [next EXCEPT ![n] = 1]
        /\ UNCHANGED <<blocks, deliver>>
    BY <1>6, Zenon DEF Commit
  <2>2. /\ state' \in [Nodes -> States] /\ height' \in [Nodes -> Nat]
        /\ next' \in [Nodes -> Nat \ {0}]
    BY <2>1 DEF LogInv
  <2>3. ASSUME NEW m \in Nodes
        PROVE  /\ height'[m] <= Len(blocks)
               /\ Good(state'[m], height'[m]) /\ Good(deliver[m], height'[m] + 1)
    <3>1. CASE m = n
      <4>1. height'[m] = height[n] + 1 /\ state'[m] = deliver[n] /\ height[n] \in Nat
        BY <3>1, <2>1 DEF LogInv
      <4>2. Good(deliver[n], height[n] + 1)
        BY DEF LogInv
      <4>3. Good(deliver[n], height[n] + 1 + 1)
        BY <4>1, <4>2, Later
      <4>4. height[n] + 1 <= Len(blocks)
        BY <2>1 DEF LogInv
      <4>5. QED BY <4>1, <4>2, <4>3, <4>4, <3>1
    <3>2. CASE m # n
      BY <3>2, <2>1 DEF LogInv
    <3>3. QED BY <3>1, <3>2
  <2>4. QED BY <2>1, <2>2, <2>3 DEF LogInv
<1>7. ASSUME NEW n \in Nodes, Restart(n)
      PROVE  LogInv'
  <2>1. /\ deliver' = [deliver EXCEPT ![n] = state[n]]
        /\ next' = [next EXCEPT ![n] = 1]
        /\ UNCHANGED <<blocks, height, state>>
    BY <1>7, Zenon DEF Restart
  <2>2. deliver' \in [Nodes -> States] /\ next' \in [Nodes -> Nat \ {0}]
    BY <2>1 DEF LogInv
  <2>3. Good(state[n], height[n] + 1)
    BY Later DEF LogInv
  <2>4. \A m \in Nodes : Good(deliver'[m], height[m] + 1)
    BY <2>1, <2>3 DEF LogInv
  <2>5. QED BY <2>1, <2>2, <2>4 DEF LogInv
<1>8. QED BY <1>1, <1>2, <1>3, <1>5, <1>6, <1>7, Zenon DEF Next, Step

LEMMA LogInvariant == Spec => []LogInv
BY LogInit, LogNext, PTL DEF Spec

(* ExactlyOnce for any number of nodes, whatever proposers put into blocks *)
(* and whenever a process ends: a signer's transactions pass in the order  *)
(* of its sequence numbers, each once and signed.                          *)
THEOREM TransactionsPassOnce == Spec => []ExactlyOnce
<1>1. LogInv => ExactlyOnce
  BY Zenon DEF LogInv, Good, Numbered, SignedBy, ExactlyOnce
<1>2. QED BY <1>1, LogInvariant, PTL

(* PositionsInBlock, likewise: what CountTXDecorator tells a contract.     *)
THEOREM CountedFromZero == Spec => []PositionsInBlock
<1>1. LogInv => PositionsInBlock
  BY Zenon DEF LogInv, Good, Placed, InBlock, PositionsInBlock
<1>2. QED BY <1>1, LogInvariant, PTL
---------------------------------------------------------------------------
(* The nodes' settings do not reach the chain.                             *)

LEMMA PriceDoesNotMatter ==
  ASSUME NEW st \in States, NEW tx \in Txs, NEW h \in Nat, NEW min \in Nat
  PROVE  DeliverTx(st, tx, h, min) = DeliverTx(st, tx, h, 0)
<1> DEFINE b1 == Context(st, tx, "deliver", h, min)
           b2 == Context(st, tx, "deliver", h, 0)
           c1 == Ante(b1)
           c2 == Ante(b2)
           e == After(st, tx, "deliver", h)
           k == CountIn(st, h)
<1>1. "deliver" \in Modes \ {"simulate"} /\ 0 \in Nat
  BY DEF Modes
<1>2. Admits(st, tx, "deliver", h, min) <=> Admits(st, tx, "deliver", h, 0)
  BY Zenon DEF Admits
<1>3. /\ Live(b1) /\ b1.tx = tx /\ b1.height = h
      /\ IF Admits(st, tx, "deliver", h, min) THEN Now(b1, c1, e, tx.gas, k) ELSE Out(c1)
  BY <1>1, AnteIsExact, Zenon
<1>4. /\ Live(b2) /\ b2.tx = tx /\ b2.height = h
      /\ IF Admits(st, tx, "deliver", h, 0) THEN Now(b2, c2, e, tx.gas, k) ELSE Out(c2)
  BY <1>1, AnteIsExact, Zenon
<1>5. /\ DeliverTx(st, tx, h, min) = IF c1.ok THEN RunMsgs(c1) ELSE st
      /\ DeliverTx(st, tx, h, 0) = IF c2.ok THEN RunMsgs(c2) ELSE st
  BY Zenon DEF DeliverTx
<1> HIDE DEF b1, b2, c1, c2, e, k
<1>6. CASE Admits(st, tx, "deliver", h, min)
  <2>1. Like(b1, c1, e, tx.gas, k) /\ Like(b2, c2, e, tx.gas, k)
    BY <1>2, <1>3, <1>4, <1>6, NowFields, Zenon
  <2>2. /\ c1.st = c2.st /\ c1.tx = c2.tx /\ c1.limit = c2.limit /\ c1.index = c2.index
        /\ c1.height = c2.height
    BY <1>3, <1>4, <2>1, Zenon DEF Like
  <2>3. RunMsgs(c1) = RunMsgs(c2)
    BY <2>2, Zenon DEF RunMsgs, Runs, Affords
  <2>4. c1.ok /\ c2.ok
    BY <2>1 DEF Like
  <2>5. QED BY <1>5, <2>3, <2>4, Zenon
<1>7. CASE ~Admits(st, tx, "deliver", h, min)
  <2>1. ~c1.ok /\ ~c2.ok
    BY <1>2, <1>3, <1>4, <1>7 DEF Out
  <2>2. QED BY <1>5, <2>1, Zenon
<1>8. QED BY <1>6, <1>7, Zenon

---------------------------------------------------------------------------
(* The chain's states, as far as any node has come.  A place <<h, k>> is   *)
(* before transaction k of the block after h.                              *)

Place(B, h, k) ==
  /\ h \in Nat /\ k \in Nat /\ 1 <= k /\ h <= Len(B)
  /\ k > 1 => h < Len(B) /\ k <= Len(B[h + 1]) + 1

NotAfter(h, k, g, j) == h < g \/ (h = g /\ k <= j)

Follows(B, h, k, g, j) ==
  \/ g = h /\ j = k + 1
  \/ g = h + 1 /\ j = 1 /\ k = Len(B[h + 1]) + 1

Longer(s, t) == Len(s) <= Len(t) /\ \A i \in 1 .. Len(s) : s[i] = t[i]

(* What follows from the state before: a transaction, or a commit.         *)
Result(B, st, h, k, g) == IF g = h THEN DeliverTx(st, B[h + 1][k], h + 1, 0) ELSE st

(* R are the places reached, D[p] is the state at p.                       *)
Story(B, D, R) ==
  /\ D \in [Nat \X Nat -> States]
  /\ R \subseteq Nat \X Nat
  /\ \A h, k : <<h, k>> \in R => Place(B, h, k)
  /\ \A h, k, g, j :
       <<g, j>> \in R /\ Place(B, h, k) /\ NotAfter(h, k, g, j) => <<h, k>> \in R
  /\ \A h, k, g, j :
       <<g, j>> \in R /\ Place(B, h, k) /\ Follows(B, h, k, g, j)
         => D[<<g, j>>] = Result(B, D[<<h, k>>], h, k, g)
  /\ \A h, k, g, j :
       <<h, k>> \in R /\ <<g, j>> \in R /\ NotAfter(h, k, g, j)
         => Longer(D[<<h, k>>].log, D[<<g, j>>].log)

Told(D, R, n) ==
  /\ <<height[n], 1>> \in R /\ state[n] = D[<<height[n], 1>>]
  /\ <<height[n], next[n]>> \in R /\ deliver[n] = D[<<height[n], next[n]>>]

LEMMA LongerIsPrefix ==
  ASSUME NEW p \in Seq(Entries), NEW q \in Seq(Entries), Longer(p, q)
  PROVE  IsPrefix(p, q)
<1>1. Len(p) \in Nat /\ Len(p) <= Len(q) /\ \A i \in 1 .. Len(p) : p[i] = q[i]
  BY DEF Longer
<1>2. \A i \in 1 .. Len(p) : p[i] \in Entries /\ q[i] \in Entries
  BY <1>1
<1>3. /\ SubSeq(p, 1, Len(p)) \in Seq(Entries) /\ Len(SubSeq(p, 1, Len(p))) = Len(p)
      /\ \A i \in 1 .. Len(p) : SubSeq(p, 1, Len(p))[i] = p[i]
  BY <1>1, <1>2, SubSeqProperties
<1>4. /\ SubSeq(q, 1, Len(p)) \in Seq(Entries) /\ Len(SubSeq(q, 1, Len(p))) = Len(p)
      /\ \A i \in 1 .. Len(p) : SubSeq(q, 1, Len(p))[i] = q[i]
  BY <1>1, <1>2, SubSeqProperties
<1>5. SubSeq(p, 1, Len(p)) = SubSeq(q, 1, Len(p))
  BY <1>1, <1>3, <1>4, SeqEqual
<1>6. QED BY <1>1, <1>5, Zenon DEF IsPrefix

LEMMA DeliveryIsLonger ==
  ASSUME NEW st \in States, NEW tx \in Txs, NEW h \in Nat, NEW min \in Nat
  PROVE  /\ DeliverTx(st, tx, h, min) \in States
         /\ Longer(st.log, DeliverTx(st, tx, h, min).log)
<1> DEFINE after == DeliverTx(st, tx, h, min)
<1>1. after \in States /\ (after = st \/ Entered(st, after, tx, h))
  BY Delivering, Zenon
<1> HIDE DEF after
<1>2. st.log \in Seq(Entries)
  BY StateFields
<1>3. after = st => Longer(st.log, after.log)
  BY <1>2 DEF Longer
<1>4. Entered(st, after, tx, h) => Longer(st.log, after.log)
  <2>1. SUFFICES ASSUME Entered(st, after, tx, h) PROVE Longer(st.log, after.log)
    OBVIOUS
  <2>2. PICK e \in Entries : after.log = Append(st.log, e)
    BY <2>1, Zenon DEF Entered
  <2>3. QED BY <1>2, <2>2 DEF Longer
<1>5. QED BY <1>1, <1>3, <1>4, Zenon DEF after

LEMMA LongerStill ==
  ASSUME NEW l1 \in Seq(Entries), NEW l2 \in Seq(Entries), NEW l3 \in Seq(Entries),
         Longer(l1, l2), Longer(l2, l3)
  PROVE  Longer(l1, l3)
BY DEF Longer

(* The story goes on by one step.                                          *)
LEMMA Extend ==
  ASSUME NEW B \in Seq(Seq(Txs)), NEW D, NEW R, Story(B, D, R),
         NEW h \in Nat, NEW k \in Nat, NEW g \in Nat, NEW j \in Nat,
         <<h, k>> \in R, <<g, j>> \notin R, Place(B, g, j), Follows(B, h, k, g, j),
         NEW v \in States, v = Result(B, D[<<h, k>>], h, k, g),
         Longer(D[<<h, k>>].log, v.log)
  PROVE  Story(B, [D EXCEPT ![<<g, j>>] = v], R \cup {<<g, j>>})
<1> DEFINE D2 == [D EXCEPT ![<<g, j>>] = v]
           R2 == R \cup {<<g, j>>}
<1>1. D2 \in [Nat \X Nat -> States] /\ R2 \subseteq Nat \X Nat
  BY DEF Story
<1>2. /\ D2[<<g, j>>] = v
      /\ \A x, y : <<x, y>> \in R => /\ D2[<<x, y>>] = D[<<x, y>>]
                                     /\ <<x, y>> # <<g, j>>
                                     /\ x \in Nat /\ y \in Nat /\ Place(B, x, y)
                                     /\ D[<<x, y>>].log \in Seq(Entries)
  <2>1. \A x, y : <<x, y>> \in R => x \in Nat /\ y \in Nat /\ Place(B, x, y)
    BY DEF Story, Place
  <2>2. D2[<<g, j>>] = v /\ \A x, y : <<x, y>> \in R => D2[<<x, y>>] = D[<<x, y>>]
    BY DEF Story
  <2>3. \A x, y : <<x, y>> \in R => D[<<x, y>>].log \in Seq(Entries)
    BY <2>1, StateFields DEF Story
  <2>4. QED BY <2>1, <2>2, <2>3, Zenon
<1>3. \A x, y : <<x, y>> \in R2 => Place(B, x, y)
  BY <1>2
<1> HIDE DEF D2
<1>4. \A x, y : Place(B, x, y) =>
        /\ NotAfter(x, y, g, j) => NotAfter(x, y, h, k) \/ (x = g /\ y = j)
        /\ Follows(B, x, y, g, j) => x = h /\ y = k
  <2>1. Place(B, h, k) /\ k \in Nat \ {0} /\ Len(B) \in Nat
        /\ \A i \in 1 .. Len(B) : Len(B[i]) \in Nat
    <3>1. Place(B, h, k)
      BY <1>2, Zenon
    <3>2. k \in Nat \ {0}
      BY <3>1 DEF Place
    <3>3. Len(B) \in Nat /\ \A i \in 1 .. Len(B) : Len(B[i]) \in Nat
      OBVIOUS
    <3>4. QED BY <3>1, <3>2, <3>3, Zenon
  <2>2. SUFFICES ASSUME NEW x, NEW y, Place(B, x, y)
                 PROVE  /\ NotAfter(x, y, g, j) => NotAfter(x, y, h, k) \/ (x = g /\ y = j)
                        /\ Follows(B, x, y, g, j) => x = h /\ y = k
    BY Zenon
  <2>3. x \in Nat /\ y \in Nat
    BY <2>2 DEF Place
  <2>4. /\ NotAfter(x, y, g, j) => NotAfter(x, y, h, k) \/ (x = g /\ y = j)
        /\ Follows(B, x, y, g, j) => x = h /\ y = k
    BY <2>1, <2>2, <2>3 DEF Follows, Place, NotAfter
  <2>5. QED BY <2>4
<1>5. \A x, y, a, b : <<a, b>> \in R2 /\ Place(B, x, y) /\ NotAfter(x, y, a, b)
                        => <<x, y>> \in R2
  <2>1. SUFFICES ASSUME NEW x, NEW y, NEW a, NEW b, <<a, b>> \in R2,
                        Place(B, x, y), NotAfter(x, y, a, b)
                 PROVE  <<x, y>> \in R2
    BY Zenon
  <2>2. CASE <<a, b>> \in R
    BY <2>1, <2>2, Zenon DEF Story
  <2>3. CASE a = g /\ b = j
    <3>1. NotAfter(x, y, h, k) \/ (x = g /\ y = j)
      BY <1>4, <2>1, <2>3, Zenon
    <3>2. NotAfter(x, y, h, k) => <<x, y>> \in R
      BY <2>1, Zenon DEF Story
    <3>3. QED BY <3>1, <3>2
  <2>4. QED BY <2>1, <2>2, <2>3
<1>6. \A x, y, a, b : <<a, b>> \in R2 /\ Place(B, x, y) /\ Follows(B, x, y, a, b)
                        => D2[<<a, b>>] = Result(B, D2[<<x, y>>], x, y, a)
  <2>1. SUFFICES ASSUME NEW x, NEW y, NEW a, NEW b, <<a, b>> \in R2,
                        Place(B, x, y), Follows(B, x, y, a, b)
                 PROVE  D2[<<a, b>>] = Result(B, D2[<<x, y>>], x, y, a)
    OBVIOUS
  <2>2. CASE <<a, b>> \in R
    <3>1. D[<<a, b>>] = Result(B, D[<<x, y>>], x, y, a)
      BY <2>1, <2>2 DEF Story
    <3>2. NotAfter(x, y, a, b)
      BY <2>1, <2>2, <1>2 DEF Follows, NotAfter, Place
    <3>3. <<x, y>> \in R
      BY <2>1, <2>2, <3>2, Zenon DEF Story
    <3>4. D2[<<x, y>>] = D[<<x, y>>] /\ D2[<<a, b>>] = D[<<a, b>>]
      BY <3>3, <2>2, <1>2, Zenon
    <3>5. QED BY <3>1, <3>4
  <2>3. CASE a = g /\ b = j
    <3>1. x = h /\ y = k
      BY <1>4, <2>1, <2>3, Zenon
    <3>2. D2[<<x, y>>] = D[<<h, k>>] /\ D2[<<a, b>>] = v
      BY <1>2, <3>1, <2>3
    <3>3. QED BY <3>1, <3>2, <2>3
  <2>4. QED BY <2>1, <2>2, <2>3
<1>7. \A x, y, a, b : <<x, y>> \in R2 /\ <<a, b>> \in R2 /\ NotAfter(x, y, a, b)
                        => Longer(D2[<<x, y>>].log, D2[<<a, b>>].log)
  <2>1. SUFFICES ASSUME NEW x, NEW y, NEW a, NEW b, <<x, y>> \in R2, <<a, b>> \in R2,
                        NotAfter(x, y, a, b)
                 PROVE  Longer(D2[<<x, y>>].log, D2[<<a, b>>].log)
    BY Zenon
  <2>2. v.log \in Seq(Entries)
    BY StateFields
  <2>3. CASE <<x, y>> \in R /\ <<a, b>> \in R
    <3>1. Longer(D[<<x, y>>].log, D[<<a, b>>].log)
      BY <2>1, <2>3, Zenon DEF Story
    <3>2. QED BY <3>1, <2>3, <1>2, Zenon
  <2>4. CASE x = g /\ y = j /\ <<a, b>> \in R
    <3>1. <<g, j>> \in R
      BY <2>1, <2>4, Zenon DEF Story
    <3>2. QED BY <3>1
  <2>5. CASE <<x, y>> \in R /\ a = g /\ b = j
    <3>1. NotAfter(x, y, h, k)
      BY <1>4, <1>2, <2>1, <2>5
    <3>2. Longer(D[<<x, y>>].log, D[<<h, k>>].log)
      BY <3>1, <2>5, Zenon DEF Story
    <3>3. Longer(D[<<x, y>>].log, v.log)
      BY <3>2, <2>2, <2>5, <1>2, LongerStill
    <3>4. QED BY <3>3, <2>5, <1>2
  <2>6. CASE x = g /\ y = j /\ a = g /\ b = j
    BY <2>2, <2>6, <1>2 DEF Longer
  <2>7. QED BY <2>1, <2>3, <2>4, <2>5, <2>6
<1>8. Story(B, D2, R2)
  BY <1>1, <1>3, <1>5, <1>6, <1>7, Zenon DEF Story
<1>9. QED BY <1>8 DEF D2

(* A block more leaves the story as it is.                                 *)
LEMMA MoreBlocks ==
  ASSUME NEW B \in Seq(Seq(Txs)), NEW b \in Seq(Txs), NEW D, NEW R, Story(B, D, R)
  PROVE  Story(Append(B, b), D, R)
<1> DEFINE B2 == Append(B, b)
<1>1. /\ Len(B) \in Nat /\ Len(B2) = Len(B) + 1
      /\ \A x \in Nat : x < Len(B) => B2[x + 1] = B[x + 1]
  OBVIOUS
<1> HIDE DEF B2
<1>2. \A x, y : Place(B, x, y) => Place(B2, x, y)
  BY <1>1 DEF Place
<1>3. \A x, y, a, c : Place(B, a, c) /\ Place(B2, x, y) /\ NotAfter(x, y, a, c)
                        => Place(B, x, y)
  BY <1>1 DEF Place, NotAfter
<1>4. \A x, y, a, c : Place(B, a, c) /\ Place(B2, x, y) /\ Follows(B2, x, y, a, c)
                        => /\ x \in 0 .. Len(B) - 1 /\ B2[x + 1] = B[x + 1]
                           /\ Place(B, x, y) /\ Follows(B, x, y, a, c)
  BY <1>1 DEF Place, Follows
<1>5. \A x, y : <<x, y>> \in R => Place(B, x, y)
  BY Zenon DEF Story
<1>6. \A x, y, a, c : <<a, c>> \in R /\ Place(B2, x, y) /\ NotAfter(x, y, a, c)
                        => <<x, y>> \in R
  BY <1>3, <1>5 DEF Story
<1>7. \A x, y, a, c : <<a, c>> \in R /\ Place(B2, x, y) /\ Follows(B2, x, y, a, c)
                        => D[<<a, c>>] = Result(B2, D[<<x, y>>], x, y, a)
  <2>1. SUFFICES ASSUME NEW x, NEW y, NEW a, NEW c, <<a, c>> \in R, Place(B2, x, y),
                        Follows(B2, x, y, a, c)
                 PROVE  D[<<a, c>>] = Result(B2, D[<<x, y>>], x, y, a)
    OBVIOUS
  <2>2. B2[x + 1] = B[x + 1] /\ Place(B, x, y) /\ Follows(B, x, y, a, c)
    BY <1>4, <1>5, <2>1, Zenon
  <2>3. D[<<a, c>>] = Result(B, D[<<x, y>>], x, y, a)
    BY <2>1, <2>2 DEF Story
  <2>4. QED BY <2>2, <2>3, Zenon DEF Result
<1>8. QED BY <1>2, <1>5, <1>6, <1>7 DEF Story, B2

(* All nodes are in one story.                                             *)
AgreeInv == \E D, R : Story(blocks, D, R) /\ \A n \in Nodes : Told(D, R, n)

LEMMA AgreeInit == Init => AgreeInv
<1> SUFFICES ASSUME Init PROVE AgreeInv
  OBVIOUS
<1> DEFINE D == [p \in Nat \X Nat |-> Genesis]
           R == {<<0, 1>>}
<1>1. D \in [Nat \X Nat -> States] /\ D[<<0, 1>>] = Genesis /\ R \subseteq Nat \X Nat
  BY NodeAssumption
<1>2. blocks = <<>>
  BY DEF Init
<1>3. \A x, y : Place(blocks, x, y) => x = 0 /\ y = 1
  BY <1>2 DEF Place
<1>4. \A x, y : <<x, y>> \in R => x = 0 /\ y = 1 /\ Place(blocks, x, y)
  BY <1>2 DEF Place
<1>5. \A x, y, a, c : ~(Place(blocks, x, y) /\ <<a, c>> \in R /\ Follows(blocks, x, y, a, c))
  BY <1>3, <1>4 DEF Follows
<1>6. Longer(Genesis.log, Genesis.log)
  BY NodeAssumption, StateFields DEF Longer
<1> HIDE DEF D
<1>7. Story(blocks, D, R)
  BY <1>1, <1>3, <1>4, <1>5, <1>6 DEF Story
<1>8. \A n \in Nodes : Told(D, R, n)
  BY <1>1 DEF Init, Told
<1>9. QED BY <1>7, <1>8, Zenon DEF AgreeInv

(* The story can be told to the next place.                                *)
LEMMA GoesOn ==
  ASSUME LogInv, NEW n \in Nodes, NEW g \in Nat, NEW j \in Nat,
         NEW D, NEW R, Story(blocks, D, R), \A m \in Nodes : Told(D, R, m),
         Place(blocks, g, j), Follows(blocks, height[n], next[n], g, j)
  PROVE  \E D2, R2 :
           /\ Story(blocks, D2, R2) /\ \A m \in Nodes : Told(D2, R2, m)
           /\ <<g, j>> \in R2
           /\ D2[<<g, j>>] = Result(blocks, deliver[n], height[n], next[n], g)
<1> DEFINE h == height[n]
           k == next[n]
           v == Result(blocks, deliver[n], h, k, g)
           D2 == [D EXCEPT ![<<g, j>>] = v]
           R2 == R \cup {<<g, j>>}
<1>1. /\ blocks \in Seq(Seq(Txs)) /\ h \in Nat /\ k \in Nat /\ deliver[n] \in States
      /\ <<h, k>> \in R /\ D[<<h, k>>] = deliver[n] /\ Place(blocks, h, k)
  BY DEF LogInv, Told, Story
<1>2. v \in States /\ Longer(deliver[n].log, v.log)
  <2>1. CASE g = h
    <3>1. blocks[h + 1][k] \in Txs
      BY <1>1, <2>1 DEF Follows, Place
    <3>2. v = DeliverTx(deliver[n], blocks[h + 1][k], h + 1, 0)
      BY <2>1, Zenon DEF Result
    <3>3. /\ DeliverTx(deliver[n], blocks[h + 1][k], h + 1, 0) \in States
          /\ Longer(deliver[n].log, DeliverTx(deliver[n], blocks[h + 1][k], h + 1, 0).log)
      <4>1. h + 1 \in Nat /\ 0 \in Nat
        BY <1>1
      <4>2. QED BY <1>1, <3>1, <4>1, DeliveryIsLonger, Zenon
    <3>4. QED BY <3>2, <3>3, Zenon
  <2>2. CASE g # h
    <3>1. v = deliver[n]
      BY <2>2, Zenon DEF Result
    <3>2. QED BY <1>1, <3>1, StateFields DEF Longer
  <2>3. QED BY <2>1, <2>2
<1>3. CASE <<g, j>> \in R
  <2>1. D[<<g, j>>] = Result(blocks, D[<<h, k>>], h, k, g)
    BY <1>1, <1>3 DEF Story
  <2>2. D[<<g, j>>] = v
    BY <1>1, <2>1
  <2>3. QED BY <1>3, <2>2, Zenon
<1>4. CASE <<g, j>> \notin R
  <2>1. Story(blocks, D2, R2)
    BY <1>1, <1>2, <1>4, Extend
  <2>2. /\ D2[<<g, j>>] = v /\ <<g, j>> \in R2
        /\ \A x, y : <<x, y>> \in R => <<x, y>> \in R2 /\ D2[<<x, y>>] = D[<<x, y>>]
    BY <1>4 DEF Story
  <2> HIDE DEF D2, R2
  <2>3. \A m \in Nodes : Told(D2, R2, m)
    BY <2>2 DEF Told
  <2>4. QED BY <2>1, <2>2, <2>3, Zenon
<1>5. QED BY <1>3, <1>4

LEMMA AgreeDecided ==
  ASSUME LogInv, AgreeInv, NEW b \in Seq(Txs), blocks' = Append(blocks, b),
         UNCHANGED <<height, state, deliver, next>>
  PROVE  AgreeInv'
<1>1. PICK D, R : Story(blocks, D, R) /\ \A n \in Nodes : Told(D, R, n)
  BY DEF AgreeInv
<1>2. Story(blocks', D, R)
  BY <1>1, MoreBlocks DEF LogInv
<1>3. \A n \in Nodes : height'[n] = height[n] /\ state'[n] = state[n]
                       /\ deliver'[n] = deliver[n] /\ next'[n] = next[n]
  OBVIOUS
<1>4. ASSUME NEW n \in Nodes PROVE Told(D, R, n)'
  BY <1>1, <1>3 DEF Told
<1>5. QED BY <1>2, <1>4 DEF AgreeInv

LEMMA AgreeNext == LogInv /\ AgreeInv /\ [Next]_vars => AgreeInv'
<1> SUFFICES ASSUME LogInv, AgreeInv, [Next]_vars
             PROVE  AgreeInv'
  OBVIOUS
<1>1. PICK D, R : Story(blocks, D, R) /\ \A n \in Nodes : Told(D, R, n)
  BY DEF AgreeInv
<1>2. ASSUME UNCHANGED <<blocks, height, state, deliver, next>>
      PROVE  AgreeInv'
  BY <1>2 DEF AgreeInv, Told
<1>3. CASE UNCHANGED vars
  BY <1>2, <1>3 DEF vars
<1>4. ASSUME NEW n \in Nodes, NEW t \in Txs, Submit(n, t)
      PROVE  AgreeInv'
  <2>1. UNCHANGED <<blocks, height, state, deliver, next>>
    BY <1>4, Zenon DEF Submit
  <2>2. QED BY <2>1, <1>2
<1>5. ASSUME NEW n \in Nodes, Propose(n)
      PROVE  AgreeInv'
  <2>1. PICK b \in Blocks : blocks' = Append(blocks, b)
    BY <1>5, Zenon DEF Propose
  <2>2. b \in Seq(Txs)
    BY AdmissionBounds DEF Blocks
  <2>3. UNCHANGED <<height, state, deliver, next>>
    BY <1>5, Zenon DEF Propose
  <2>4. QED BY <2>1, <2>2, <2>3, AgreeDecided
<1>6. ASSUME NEW n \in Nodes, ProposeOther(n)
      PROVE  AgreeInv'
  <2>1. PICK b \in OtherBlocks : blocks' = Append(blocks, b)
    BY <1>6, Zenon DEF ProposeOther
  <2>2. b \in Seq(Txs)
    BY BlocksAssumption
  <2>3. UNCHANGED <<height, state, deliver, next>>
    BY <1>6, Zenon DEF ProposeOther
  <2>4. QED BY <2>1, <2>2, <2>3, AgreeDecided
<1>7. ASSUME NEW n \in Nodes, Deliver(n)
      PROVE  AgreeInv'
  <2> DEFINE h == height[n]
             k == next[n]
             tx == blocks[h + 1][k]
             v == DeliverTx(deliver[n], tx, h + 1, 0)
  <2>1. /\ h \in Nat /\ k \in Nat \ {0} /\ blocks \in Seq(Seq(Txs))
        /\ deliver[n] \in States /\ MinPrice[n] \in Nat
    BY NodeAssumption DEF LogInv
  <2>2. h < Len(blocks) /\ k <= Len(blocks[h + 1])
    BY <1>7, Zenon DEF Deliver, NextBlock
  <2>3. tx \in Txs
    BY <2>1, <2>2
  <2>4. DeliverTx(deliver[n], tx, h + 1, MinPrice[n]) = v
    <3>1. h + 1 \in Nat
      BY <2>1
    <3> HIDE DEF tx, h
    <3>2. QED BY <3>1, <2>1, <2>3, PriceDoesNotMatter, Zenon
  <2>5. v = Result(blocks, deliver[n], h, k, h)
    BY Zenon DEF Result
  <2>6. Place(blocks, h, k + 1) /\ Follows(blocks, h, k, h, k + 1)
    BY <2>1, <2>2 DEF Place, Follows
  <2>7. /\ deliver' = [deliver EXCEPT ![n] = DeliverTx(@, tx, h + 1, MinPrice[n])]
        /\ next' = [next EXCEPT ![n] = @ + 1]
        /\ UNCHANGED <<blocks, height, state>>
    BY <1>7, Zenon DEF Deliver, NextBlock
  <2>8. /\ deliver'[n] = v /\ next'[n] = k + 1
        /\ \A m \in Nodes \ {n} : deliver'[m] = deliver[m] /\ next'[m] = next[m]
    <3> HIDE DEF v
    <3>1. QED BY <2>4, <2>7 DEF LogInv
  <2> HIDE DEF v
  <2>9. PICK D2, R2 : /\ Story(blocks, D2, R2) /\ \A m \in Nodes : Told(D2, R2, m)
                      /\ <<h, k + 1>> \in R2
                      /\ D2[<<h, k + 1>>] = Result(blocks, deliver[n], h, k, h)
    <3>1. k + 1 \in Nat
      BY <2>1
    <3>2. QED BY <1>1, <2>1, <2>6, <3>1, GoesOn, Zenon
  <2>10. ASSUME NEW m \in Nodes PROVE Told(D2, R2, m)'
    BY <2>5, <2>7, <2>8, <2>9 DEF Told
  <2>11. QED BY <2>7, <2>9, <2>10 DEF AgreeInv
<1>8. ASSUME NEW n \in Nodes, Commit(n)
      PROVE  AgreeInv'
  <2> DEFINE h == height[n]
             k == next[n]
  <2>1. /\ h \in Nat /\ k \in Nat \ {0} /\ blocks \in Seq(Seq(Txs))
        /\ deliver[n] \in States
    BY DEF LogInv
  <2>2. h < Len(blocks) /\ k > Len(blocks[h + 1])
    BY <1>8, Zenon DEF Commit, NextBlock
  <2>3. deliver[n] = Result(blocks, deliver[n], h, k, h + 1)
    <3>1. h + 1 # h
      BY <2>1
    <3>2. QED BY <3>1, Zenon DEF Result
  <2>4. Place(blocks, h, k)
    BY <1>1 DEF Told, Story
  <2>5. k = Len(blocks[h + 1]) + 1
    BY <2>1, <2>2, <2>4 DEF Place
  <2>6. Place(blocks, h + 1, 1) /\ Follows(blocks, h, k, h + 1, 1)
    BY <2>1, <2>2, <2>5 DEF Place, Follows
  <2>7. /\ state' = [state EXCEPT ![n] = deliver[n]]
        /\ height' = [height EXCEPT ![n] = @ + 1]
        /\ next' = [next EXCEPT ![n] = 1]
        /\ UNCHANGED <<blocks, deliver>>
    BY <1>8, Zenon DEF Commit
  <2>8. /\ state'[n] = deliver[n] /\ next'[n] = 1 /\ height'[n] = h + 1
        /\ \A m \in Nodes \ {n} :
             state'[m] = state[m] /\ next'[m] = next[m] /\ height'[m] = height[m]
    BY <2>7 DEF LogInv
  <2>9. PICK D2, R2 : /\ Story(blocks, D2, R2) /\ \A m \in Nodes : Told(D2, R2, m)
                      /\ <<h + 1, 1>> \in R2
                      /\ D2[<<h + 1, 1>>] = Result(blocks, deliver[n], h, k, h + 1)
    <3>1. h + 1 \in Nat /\ 1 \in Nat
      BY <2>1
    <3>2. QED BY <1>1, <2>1, <2>6, <3>1, GoesOn, Zenon
  <2>10. ASSUME NEW m \in Nodes PROVE Told(D2, R2, m)'
    BY <2>3, <2>7, <2>8, <2>9 DEF Told
  <2>11. QED BY <2>7, <2>9, <2>10 DEF AgreeInv
<1>9. ASSUME NEW n \in Nodes, Restart(n)
      PROVE  AgreeInv'
  <2>1. /\ deliver' = [deliver EXCEPT ![n] = state[n]]
        /\ next' = [next EXCEPT ![n] = 1]
        /\ UNCHANGED <<blocks, height, state>>
    BY <1>9, Zenon DEF Restart
  <2>2. /\ deliver'[n] = state[n] /\ next'[n] = 1
        /\ \A m \in Nodes \ {n} : deliver'[m] = deliver[m] /\ next'[m] = next[m]
    BY <2>1 DEF LogInv
  <2>3. ASSUME NEW m \in Nodes PROVE Told(D, R, m)'
    BY <1>1, <2>1, <2>2 DEF Told
  <2>4. QED BY <1>1, <2>1, <2>3 DEF AgreeInv
<1>10. QED
  BY <1>3, <1>4, <1>5, <1>6, <1>7, <1>8, <1>9, Zenon DEF Next, Step

(* NodesAgree for any number of nodes: whatever their mempools hold, their *)
(* minimum-gas-prices ask for and whenever they are killed and started     *)
(* again, nodes at one height hold one state, and a node that is behind    *)
(* has let through a prefix of what the others have.                       *)
THEOREM OneChain == Spec => []NodesAgree
<1>1. LogInv /\ AgreeInv => NodesAgree
  <2>1. SUFFICES ASSUME LogInv, AgreeInv, NEW m \in Nodes, NEW n \in Nodes,
                        height[m] <= height[n]
                 PROVE  /\ IsPrefix(state[m].log, state[n].log)
                        /\ height[m] = height[n] => state[m] = state[n]
    BY Zenon DEF NodesAgree
  <2>2. PICK D, R : Story(blocks, D, R) /\ \A o \in Nodes : Told(D, R, o)
    BY <2>1, Zenon DEF AgreeInv
  <2>3. /\ <<height[m], 1>> \in R /\ state[m] = D[<<height[m], 1>>]
        /\ <<height[n], 1>> \in R /\ state[n] = D[<<height[n], 1>>]
    BY <2>2 DEF Told
  <2>4. NotAfter(height[m], 1, height[n], 1)
    BY <2>1 DEF NotAfter, LogInv
  <2>5. Longer(state[m].log, state[n].log)
    BY <2>2, <2>3, <2>4 DEF Story
  <2>6. state[m].log \in Seq(Entries) /\ state[n].log \in Seq(Entries)
    BY <2>1, StateFields DEF LogInv
  <2>7. QED BY <2>3, <2>5, <2>6, LongerIsPrefix
<1>2. QED BY <1>1, AgreeInit, AgreeNext, LogInvariant, PTL DEF Spec
---------------------------------------------------------------------------
(* Simulations                                                             *)

LEMMA Limited ==
  ASSUME NEW st, NEW tx, NEW h, NEW min
  PROVE  LET c == CheckTx(st, tx, "simulate", h, min)
         IN  c.ok => c.limit = SimulationGasLimit
<1> DEFINE L == SimulationGasLimit
           c0 == Context(st, tx, "simulate", h, min)
           c1 == Decorate(c0, "SetUpContext")
           c2 == Decorate(c1, "LimitSimulationGas")
           c3 == Decorate(c2, "CountTX")
           c4 == Decorate(c3, "TxTimeoutHeight")
           c5 == Decorate(c4, "ConsumeGas")
           c6 == Decorate(c5, "DeductFee")
           c7 == Decorate(c6, "SetPubKey")
           c8 == Decorate(c7, "SigVerification")
           c9 == Decorate(c8, "IncrementSequence")
           c10 == Decorate(c9, "RedundantRelay")
<1>1. CheckTx(st, tx, "simulate", h, min) = c10
  BY AnteChain, Zenon DEF CheckTx
<1>2. Bounded(c2, L)
  <2>1. /\ DOMAIN c0 = {"st", "tx", "mode", "height", "min", "limit", "index", "ok"}
        /\ c0.ok = TRUE /\ c0.mode = "simulate"
    BY DEF Context
  <2>2. c1 = [c0 EXCEPT !.limit = NoLimit]
    <3>1. Effect("SetUpContext", c0) =
            [c0 EXCEPT !.limit = IF c0.mode = "simulate" THEN NoLimit ELSE c0.tx.gas]
      BY Zenon DEF Effect
    <3>2. ~Refuses("SetUpContext", c0)
      BY Zenon DEF Refuses
    <3>3. c1 = Effect("SetUpContext", c0)
      BY <2>1, <3>2, LetsPass, Zenon
    <3> HIDE DEF c0
    <3>4. QED BY <2>1, <3>1, <3>3
  <2> HIDE DEF c0, c1
  <2>3. /\ DOMAIN c1 = DOMAIN c0 /\ c1.ok = TRUE /\ c1.mode = "simulate"
    BY <2>1, <2>2
  <2>4. c2 = [c1 EXCEPT !.limit = L]
    <3>1. Effect("LimitSimulationGas", c1) =
            [c1 EXCEPT !.limit = IF c1.mode = "simulate" THEN L ELSE @]
      BY Zenon DEF Effect
    <3>2. ~Refuses("LimitSimulationGas", c1)
      BY Zenon DEF Refuses
    <3>3. c2 = Effect("LimitSimulationGas", c1)
      BY <2>3, <3>2, LetsPass, Zenon
    <3>4. QED BY <2>3, <3>1, <3>3
  <2> HIDE DEF c2
  <2>5. QED BY <2>1, <2>3, <2>4 DEF Bounded
<1> HIDE DEF c2
<1>3. Bounded(c3, L) /\ Bounded(c4, L) /\ Bounded(c5, L)
  <2>1. Bounded(c3, L)
    BY <1>2, LimitStays
  <2> HIDE DEF c3
  <2>2. Bounded(c4, L)
    BY <2>1, LimitStays
  <2> HIDE DEF c4
  <2>3. Bounded(c5, L)
    BY <2>2, LimitStays
  <2>4. QED BY <2>1, <2>2, <2>3, Zenon
<1> HIDE DEF c5
<1>4. Bounded(c10, L)
  <2>1. Bounded(c6, L)
    BY <1>3, LimitStays
  <2> HIDE DEF c6
  <2>2. Bounded(c7, L)
    BY <2>1, LimitStays
  <2> HIDE DEF c7
  <2>3. Bounded(c8, L)
    BY <2>2, LimitStays
  <2> HIDE DEF c8
  <2>4. Bounded(c9, L)
    BY <2>3, LimitStays
  <2> HIDE DEF c9
  <2>5. QED BY <2>4, LimitStays
<1> HIDE DEF c10
<1>5. QED BY <1>1, <1>4, Zenon DEF Bounded

(* No simulation that is let through runs its messages without the node's  *)
(* own limit, whatever state, transaction, height and price.               *)
THEOREM SimulationsLimited == Spec => []SimulationsAreLimited
<1>1. SimulationsAreLimited
  BY Limited, Zenon DEF SimulationsAreLimited
<1>2. QED BY <1>1, PTL
---------------------------------------------------------------------------
(* What a recheck passes                                                   *)

Pools == [st : States, txs : Seq(Txs)]

(* One transaction of it.                                                  *)
Once(n, r, t) ==
  LET c == CheckTx(r.st, t, "recheck", height[n] + 1, MinPrice[n])
  IN IF t \notin ToSet(NextBlock(n)) /\ c.ok
     THEN [st |-> c.st, txs |-> Append(r.txs, t)] ELSE r

LEMMA OnceType ==
  ASSUME NEW n \in Nodes, height[n] \in Nat, NEW r \in Pools, NEW t \in Txs
  PROVE  Once(n, r, t) \in Pools
<1> DEFINE c == CheckTx(r.st, t, "recheck", height[n] + 1, MinPrice[n])
<1>1. /\ r.st \in States /\ r.txs \in Seq(Txs) /\ height[n] + 1 \in Nat /\ MinPrice[n] \in Nat
      /\ "recheck" \in Modes \ {"simulate"}
  BY NodeAssumption DEF Pools, Modes
<1>2. c.ok => c.st \in States
  BY <1>1, CheckIsExact, Zenon DEF Becomes
<1>3. Once(n, r, t) = IF t \notin ToSet(NextBlock(n)) /\ c.ok
                      THEN [st |-> c.st, txs |-> Append(r.txs, t)] ELSE r
  BY Zenon DEF Once
<1> HIDE DEF c
<1>4. Append(r.txs, t) \in Seq(Txs)
  BY <1>1
<1>5. QED BY <1>2, <1>3, <1>4 DEF Pools

LEMMA RecheckPasses ==
  ASSUME NEW n \in Nodes, height[n] \in Nat, NEW st \in States, NEW txs \in Seq(Txs)
  PROVE  \E r \in [0 .. Len(txs) -> Pools] :
           /\ r[0] = [st |-> st, txs |-> <<>>] /\ r[Len(txs)] = Rechecked(n, st, txs)
           /\ \A k \in 1 .. Len(txs) : r[k] = Once(n, r[k - 1], txs[k])
<1> DEFINE base == [st |-> st, txs |-> <<>>]
           Steps(g) == [v \in SUBSET DOMAIN txs |->
                          IF v = {} THEN base ELSE Once(n, g[v \ {Max(v)}], txs[Max(v)])]
           it == CHOOSE g : g = Steps(g)
           step == [p \in Pools \X Txs |-> Once(n, p[1], p[2])]
<1>1. Rechecked(n, st, txs) = it[DOMAIN txs]
  BY Zenon DEF Rechecked, FoldLeft, MapThenFoldSet, Once
<1>2. step \in [Pools \X Txs -> Pools] /\ base \in Pools
  BY OnceType DEF Pools
<1>3. \E g : g = Steps(g)
  <2>1. PICK g \in [SUBSET DOMAIN txs -> Pools] : FoldingLeft(txs, base, step, g)
    <3> HIDE DEF step, base
    <3>1. QED BY <1>2, LeftFoldExists, Zenon
  <2>2. ASSUME NEW v \in SUBSET DOMAIN txs, v # {}
        PROVE  step[<<g[v \ {Max(v)}], txs[Max(v)]>>] = Once(n, g[v \ {Max(v)}], txs[Max(v)])
    <3>1. Max(v) \in DOMAIN txs
      <4>1. Len(txs) \in Nat /\ DOMAIN txs = 1 .. Len(txs)
        OBVIOUS
      <4>2. v \in SUBSET (1 .. Len(txs))
        BY <4>1
      <4>3. Max(v) \in v
        BY <2>2, <4>1, <4>2, LastOne, Zenon
      <4>4. QED BY <4>3
    <3>2. g[v \ {Max(v)}] \in Pools /\ txs[Max(v)] \in Txs
      BY <3>1
    <3>3. QED BY <3>2
  <2> HIDE DEF step, base
  <2>3. g = Steps(g)
    BY <2>1, <2>2 DEF FoldingLeft
  <2>4. QED BY <2>3, Zenon
<1>4. it = Steps(it)
  <2> HIDE DEF Steps
  <2>1. QED BY <1>3, Zenon
<1> HIDE DEF it, base
<1>5. it[{}] = base
  BY <1>4
<1>6. ASSUME NEW k \in 1 .. Len(txs), it[1 .. k - 1] \in Pools
      PROVE  it[1 .. k] = Once(n, it[1 .. k - 1], txs[k])
             /\ it[1 .. k] = step[<<it[1 .. k - 1], txs[k]>>]
  <2>1. Len(txs) \in Nat /\ DOMAIN txs = 1 .. Len(txs) /\ txs[k] \in Txs
    BY <1>6
  <2>2. /\ 1 .. k \in SUBSET DOMAIN txs /\ 1 .. k # {}
        /\ Max(1 .. k) = k /\ (1 .. k) \ {k} = 1 .. k - 1
    BY <1>6, <2>1, Beginning
  <2>3. it[1 .. k] = Once(n, it[(1 .. k) \ {Max(1 .. k)}], txs[Max(1 .. k)])
    BY <1>4, <2>2
  <2>4. it[1 .. k] = Once(n, it[1 .. k - 1], txs[k])
    BY <2>2, <2>3
  <2>5. QED BY <1>6, <2>1, <2>4
<1>7. PICK r \in [0 .. Len(txs) -> Pools] :
        Passes(txs, base, step, r) /\ r[Len(txs)] = it[DOMAIN txs]
  <2> HIDE DEF step
  <2>1. OnTheWay(txs, Pools, base, step, it)
    BY <1>5, <1>6 DEF OnTheWay
  <2>2. Arrives(txs, Pools, base, step, it[DOMAIN txs])
    BY <1>2, <2>1, LeftFoldPasses, Zenon
  <2>3. QED BY <2>2, Zenon DEF Arrives
<1>8. ASSUME NEW k \in 1 .. Len(txs) PROVE r[k] = Once(n, r[k - 1], txs[k])
  <2>1. Len(txs) \in Nat /\ k - 1 \in 0 .. Len(txs) /\ txs[k] \in Txs
    OBVIOUS
  <2>2. r[k - 1] \in Pools
    BY <1>7, <2>1
  <2>3. r[k] = step[<<r[k - 1], txs[k]>>]
    BY <1>7 DEF Passes
  <2>4. QED BY <2>1, <2>2, <2>3
<1>9. r[0] = base
  BY <1>7, Zenon DEF Passes
<1>10. QED BY <1>1, <1>7, <1>8, <1>9, Zenon DEF base
---------------------------------------------------------------------------
(* Mempools                                                                *)

(* t would pass a check on s, which leaves e.                              *)
Waits(s, t, e, h, min) == Admits(s, t, "check", h, min) /\ Becomes(s, t, "check", e)

(* The transactions of q pass one after the other, from s to e.            *)
Line(s, q, e, h, min, tr) ==
  /\ tr[0] = s /\ tr[Len(q)] = e
  /\ \A i \in 1 .. Len(q) : Waits(tr[i - 1], q[i], tr[i], h, min)
Queue(s, q, e, h, min) ==
  \E tr \in [0 .. Len(q) -> States] : Line(s, q, e, h, min, tr)

LEMMA QueueEmpty ==
  ASSUME NEW s \in States, NEW h, NEW min
  PROVE  Queue(s, <<>>, s, h, min)
<1> DEFINE tr == [i \in 0 .. 0 |-> s]
<1>1. tr \in [0 .. Len(<<>>) -> States] /\ tr[0] = s /\ tr[Len(<<>>)] = s /\ 1 .. Len(<<>>) = {}
  OBVIOUS
<1> HIDE DEF tr
<1>2. Line(s, <<>>, s, h, min, tr)
  BY <1>1 DEF Line
<1>3. QED BY <1>1, <1>2, Zenon DEF Queue

LEMMA QueueGrows ==
  ASSUME NEW s \in States, NEW q \in Seq(Txs), NEW e, NEW h, NEW min,
         Queue(s, q, e, h, min), NEW t \in Txs, NEW e2 \in States, Waits(e, t, e2, h, min)
  PROVE  Queue(s, Append(q, t), e2, h, min)
<1>1. PICK tr \in [0 .. Len(q) -> States] : Line(s, q, e, h, min, tr)
  BY Zenon DEF Queue
<1> DEFINE k == Len(q)
           q2 == Append(q, t)
           tr2 == [i \in 0 .. k + 1 |-> IF i = k + 1 THEN e2 ELSE tr[i]]
<1>2. /\ k \in Nat /\ Len(q2) = k + 1 /\ q2[k + 1] = t
      /\ \A i \in 1 .. k : q2[i] = q[i]
  OBVIOUS
<1>3. /\ tr2 \in [0 .. k + 1 -> States] /\ tr2[k + 1] = e2 /\ tr2[0] = tr[0]
      /\ \A i \in 0 .. k : tr2[i] = tr[i]
  BY <1>2
<1> HIDE DEF q2, tr2, k
<1>4. /\ tr[0] = s /\ tr[k] = e
      /\ \A i \in 1 .. k : Waits(tr[i - 1], q[i], tr[i], h, min)
  BY <1>1, Zenon DEF Line, k
<1>5. ASSUME NEW i \in 1 .. k + 1 PROVE Waits(tr2[i - 1], q2[i], tr2[i], h, min)
  <2>1. CASE i = k + 1
    <3>1. i - 1 = k /\ k \in 0 .. k
      BY <1>2, <2>1
    <3>2. QED BY <1>2, <1>3, <1>4, <2>1, <3>1
  <2>2. CASE i # k + 1
    <3>1. i \in 1 .. k /\ i \in 0 .. k /\ i - 1 \in 0 .. k
      BY <1>2, <2>2
    <3>2. QED BY <1>2, <1>3, <1>4, <3>1
  <2>3. QED BY <2>1, <2>2
<1>6. Line(s, q2, e2, h, min, tr2)
  BY <1>2, <1>3, <1>4, <1>5 DEF Line
<1>7. QED BY <1>2, <1>3, <1>6, Zenon DEF Queue, q2

LEMMA QueueIsValid ==
  ASSUME NEW s, NEW q \in Seq(Txs), NEW e, NEW h, NEW min, Queue(s, q, e, h, min)
  PROVE  \A i \in 1 .. Len(q) : q[i].valid
<1>1. PICK tr \in [0 .. Len(q) -> States] : Line(s, q, e, h, min, tr)
  BY Zenon DEF Queue
<1>2. ASSUME NEW i \in 1 .. Len(q) PROVE q[i].valid
  <2>1. Admits(tr[i - 1], q[i], "check", h, min)
    BY <1>1 DEF Line, Waits
  <2>2. QED BY <2>1 DEF Admits
<1>3. QED BY <1>2

(* What has been checked with its signature and passes a recheck passes a  *)
(* check, and leaves the same behind.                                      *)
LEMMA RecheckIsCheck ==
  ASSUME NEW st \in States, NEW t \in Txs, t.valid, NEW h \in Nat, NEW min \in Nat
  PROVE  LET c == CheckTx(st, t, "recheck", h, min)
         IN  c.ok => c.st \in States /\ Waits(st, t, c.st, h, min)
<1> DEFINE c == CheckTx(st, t, "recheck", h, min)
<1>1. "recheck" \in Modes \ {"simulate"}
  BY DEF Modes
<1>2. c.ok => Admits(st, t, "recheck", h, min) /\ Becomes(st, t, "recheck", c.st)
  BY <1>1, CheckIsExact, Zenon
<1> HIDE DEF c
<1>3. Checks("check", t) = Checks("recheck", t)
  BY DEF Checks
<1>4. ASSUME c.ok PROVE c.st \in States /\ Waits(st, t, c.st, h, min)
  <2>1. Admits(st, t, "check", h, min)
    BY <1>2, <1>3, <1>4 DEF Admits
  <2>2. c.st \in States /\ Becomes(st, t, "check", c.st)
    BY <1>2, <1>3, <1>4, Zenon DEF Becomes
  <2>3. QED BY <2>1, <2>2, Zenon DEF Waits
<1>5. QED BY <1>4, Zenon DEF c

(* A mempool that is rechecked is in line again.                           *)
LEMMA RecheckedInLine ==
  ASSUME NEW n \in Nodes, height[n] \in Nat, NEW st \in States, NEW txs \in Seq(Txs),
         \A i \in 1 .. Len(txs) : txs[i].valid
  PROVE  LET e == Rechecked(n, st, txs) IN
         e \in Pools /\ Queue(st, e.txs, e.st, height[n] + 1, MinPrice[n])
<1> DEFINE h == height[n] + 1
           min == MinPrice[n]
<1>1. PICK r \in [0 .. Len(txs) -> Pools] :
        /\ r[0] = [st |-> st, txs |-> <<>>] /\ r[Len(txs)] = Rechecked(n, st, txs)
        /\ \A k \in 1 .. Len(txs) : r[k] = Once(n, r[k - 1], txs[k])
  BY RecheckPasses, Zenon
<1>2. h \in Nat /\ min \in Nat /\ Len(txs) \in Nat
  BY NodeAssumption
<1> DEFINE G == {k \in Nat : k <= Len(txs) => Queue(st, r[k].txs, r[k].st, h, min)}
<1>3. 0 \in G
  <2>1. r[0].txs = <<>> /\ r[0].st = st
    BY <1>1
  <2>2. Queue(st, r[0].txs, r[0].st, h, min)
    BY <2>1, QueueEmpty, Zenon
  <2>3. QED BY <2>2
<1>4. ASSUME NEW k \in Nat, k \in G PROVE k + 1 \in G
  <2> SUFFICES ASSUME k + 1 <= Len(txs)
               PROVE  Queue(st, r[k + 1].txs, r[k + 1].st, h, min)
    OBVIOUS
  <2> DEFINE t == txs[k + 1]
             a == r[k]
             c == CheckTx(a.st, t, "recheck", h, min)
  <2>1. /\ k + 1 \in 1 .. Len(txs) /\ (k + 1) - 1 = k /\ k \in 0 .. Len(txs)
        /\ t \in Txs /\ t.valid /\ Queue(st, a.txs, a.st, h, min)
    BY <1>2, <1>4
  <2>2. a \in Pools /\ r[k + 1] = Once(n, a, t)
    BY <1>1, <2>1
  <2>3. a.st \in States /\ a.txs \in Seq(Txs)
    BY <2>2 DEF Pools
  <2>4. c.ok => c.st \in States /\ Waits(a.st, t, c.st, h, min)
    <3> HIDE DEF a, t, h, min
    <3>1. QED BY <1>2, <2>1, <2>3, RecheckIsCheck, Zenon
  <2>5. r[k + 1] = IF t \notin ToSet(NextBlock(n)) /\ c.ok
                   THEN [st |-> c.st, txs |-> Append(a.txs, t)] ELSE a
    BY <2>2, Zenon DEF Once
  <2> HIDE DEF a, t, c, h, min
  <2>6. CASE t \notin ToSet(NextBlock(n)) /\ c.ok
    <3>1. Queue(st, Append(a.txs, t), c.st, h, min)
      BY <2>1, <2>3, <2>4, <2>6, QueueGrows, Zenon
    <3>2. r[k + 1].st = c.st /\ r[k + 1].txs = Append(a.txs, t)
      BY <2>5, <2>6
    <3>3. QED BY <3>1, <3>2, Zenon
  <2>7. CASE ~(t \notin ToSet(NextBlock(n)) /\ c.ok)
    <3>1. r[k + 1] = a
      BY <2>5, <2>7, Zenon
    <3>2. QED BY <2>1, <3>1, Zenon
  <2>8. QED BY <2>6, <2>7
<1>5. Len(txs) \in G
  <2> HIDE DEF G
  <2>1. Nat \subseteq G
    BY <1>3, <1>4, AllNumbers
  <2>2. QED BY <1>2, <2>1
<1>6. Queue(st, r[Len(txs)].txs, r[Len(txs)].st, h, min)
  BY <1>2, <1>5
<1>7. r[Len(txs)] \in Pools
  BY <1>2
<1>8. QED BY <1>1, <1>6, <1>7, Zenon
---------------------------------------------------------------------------
(* What waits in a mempool passes one after the other on the committed     *)
(* state, and the check state is what comes of it.                         *)

InLine(n) == Queue(state[n], pool[n], check[n], height[n], MinPrice[n])

PoolInv ==
  /\ pool \in [Nodes -> Seq(Txs)] /\ check \in [Nodes -> States]
  /\ others \in Nat /\ restarts \in Nat
  /\ \A n \in Nodes : InLine(n)

LEMMA PoolInit == Init => PoolInv
<1> SUFFICES ASSUME Init PROVE PoolInv
  OBVIOUS
<1>1. Genesis \in States /\ Queue(Genesis, <<>>, Genesis, 0, 0) /\ <<>> \in Seq(Txs)
  BY NodeAssumption, QueueEmpty
<1>2. \A n \in Nodes : InLine(n)
  <2>1. SUFFICES ASSUME NEW n \in Nodes PROVE InLine(n)
    OBVIOUS
  <2>2. state[n] = Genesis /\ pool[n] = <<>> /\ check[n] = Genesis
    BY DEF Init
  <2>3. Queue(Genesis, <<>>, Genesis, height[n], MinPrice[n])
    BY <1>1, QueueEmpty, Zenon
  <2>4. QED BY <2>2, <2>3, Zenon DEF InLine
<1>3. QED BY <1>1, <1>2 DEF Init, PoolInv

(* The queues of the nodes that a step of n leaves alone stay.             *)
LEMMA OthersWait ==
  ASSUME LogInv, PoolInv, NEW n \in Nodes,
         \A m \in Nodes \ {n} : /\ state'[m] = state[m] /\ pool'[m] = pool[m]
                                /\ check'[m] = check[m] /\ height'[m] = height[m],
         InLine(n)'
  PROVE  \A m \in Nodes : InLine(m)'
<1> SUFFICES ASSUME NEW m \in Nodes, m # n PROVE InLine(m)'
  OBVIOUS
<1>1. InLine(m)
  BY DEF PoolInv
<1>2. /\ state'[m] = state[m] /\ pool'[m] = pool[m]
      /\ check'[m] = check[m] /\ height'[m] = height[m]
  OBVIOUS
<1>3. QED BY <1>1, <1>2, Zenon DEF InLine

LEMMA PoolSubmit ==
  ASSUME LogInv, PoolInv, NEW n \in Nodes, NEW t \in Txs, Submit(n, t)
  PROVE  PoolInv'
<1> DEFINE c == CheckTx(check[n], t, "check", height[n], MinPrice[n])
<1>1. /\ c.ok
      /\ pool' = [pool EXCEPT ![n] = Append(@, t)]
      /\ check' = [check EXCEPT ![n] = c.st]
      /\ UNCHANGED <<blocks, height, state, deliver, next, others, restarts>>
  BY Zenon DEF Submit
<1>2. /\ check[n] \in States /\ pool[n] \in Seq(Txs) /\ state[n] \in States
      /\ height[n] \in Nat /\ MinPrice[n] \in Nat /\ "check" \in Modes \ {"simulate"}
  BY NodeAssumption DEF LogInv, PoolInv, Modes
<1>3. c.st \in States /\ Waits(check[n], t, c.st, height[n], MinPrice[n])
  <2>1. Admits(check[n], t, "check", height[n], MinPrice[n]) /\ Becomes(check[n], t, "check", c.st)
    BY <1>1, <1>2, CheckIsExact, Zenon
  <2>2. QED BY <2>1, Zenon DEF Waits, Becomes
<1> HIDE DEF c
<1>4. Queue(state[n], Append(pool[n], t), c.st, height[n], MinPrice[n])
  <2>1. Queue(state[n], pool[n], check[n], height[n], MinPrice[n])
    BY Zenon DEF PoolInv, InLine
  <2>2. QED BY <1>2, <1>3, <2>1, QueueGrows, Zenon
<1>5. /\ pool' \in [Nodes -> Seq(Txs)] /\ check' \in [Nodes -> States]
      /\ pool'[n] = Append(pool[n], t) /\ check'[n] = c.st
      /\ \A m \in Nodes \ {n} : pool'[m] = pool[m] /\ check'[m] = check[m]
  BY <1>1, <1>2, <1>3 DEF PoolInv
<1>6. InLine(n)'
  BY <1>1, <1>4, <1>5, Zenon DEF InLine
<1>7. \A m \in Nodes : InLine(m)'
  BY <1>1, <1>5, <1>6, OthersWait
<1>8. QED BY <1>1, <1>5, <1>7 DEF PoolInv

LEMMA PoolCommit ==
  ASSUME LogInv, PoolInv, NEW n \in Nodes, Commit(n)
  PROVE  PoolInv'
<1> DEFINE r == Rechecked(n, deliver[n], pool[n])
<1>1. /\ state' = [state EXCEPT ![n] = deliver[n]]
      /\ height' = [height EXCEPT ![n] = @ + 1]
      /\ check' = [check EXCEPT ![n] = r.st]
      /\ pool' = [pool EXCEPT ![n] = r.txs]
      /\ UNCHANGED <<others, restarts>>
  BY Zenon DEF Commit
<1>2. /\ pool[n] \in Seq(Txs) /\ deliver[n] \in States /\ height[n] \in Nat
      /\ Queue(state[n], pool[n], check[n], height[n], MinPrice[n])
  BY Zenon DEF LogInv, PoolInv, InLine
<1>3. r \in Pools /\ Queue(deliver[n], r.txs, r.st, height[n] + 1, MinPrice[n])
  <2>1. \A i \in 1 .. Len(pool[n]) : pool[n][i].valid
    BY <1>2, QueueIsValid, Zenon
  <2>2. QED BY <1>2, <2>1, RecheckedInLine, Zenon
<1> HIDE DEF r
<1>4. r.st \in States /\ r.txs \in Seq(Txs)
  BY <1>3 DEF Pools
<1>5. /\ pool' \in [Nodes -> Seq(Txs)] /\ check' \in [Nodes -> States]
      /\ pool'[n] = r.txs /\ check'[n] = r.st
      /\ \A m \in Nodes \ {n} : pool'[m] = pool[m] /\ check'[m] = check[m]
  BY <1>1, <1>4 DEF PoolInv
<1>6. /\ state'[n] = deliver[n] /\ height'[n] = height[n] + 1
      /\ \A m \in Nodes \ {n} : state'[m] = state[m] /\ height'[m] = height[m]
  BY <1>1 DEF LogInv
<1>7. InLine(n)'
  BY <1>3, <1>5, <1>6, Zenon DEF InLine
<1>8. \A m \in Nodes : InLine(m)'
  BY <1>5, <1>6, <1>7, OthersWait
<1>9. QED BY <1>1, <1>5, <1>8 DEF PoolInv

LEMMA PoolRestart ==
  ASSUME LogInv, PoolInv, NEW n \in Nodes, Restart(n)
  PROVE  PoolInv'
<1>1. /\ check' = [check EXCEPT ![n] = state[n]]
      /\ pool' = [pool EXCEPT ![n] = <<>>]
      /\ restarts' = restarts + 1
      /\ UNCHANGED <<height, state, others>>
  BY Zenon DEF Restart
<1>2. state[n] \in States /\ <<>> \in Seq(Txs)
  BY DEF LogInv
<1>3. /\ pool' \in [Nodes -> Seq(Txs)] /\ check' \in [Nodes -> States]
      /\ pool'[n] = <<>> /\ check'[n] = state[n]
      /\ \A m \in Nodes \ {n} : pool'[m] = pool[m] /\ check'[m] = check[m]
  BY <1>1, <1>2 DEF PoolInv
<1>4. InLine(n)'
  <2>1. Queue(state[n], <<>>, state[n], height[n], MinPrice[n])
    BY <1>2, QueueEmpty, Zenon
  <2>2. QED BY <1>1, <1>3, <2>1, Zenon DEF InLine
<1>5. \A m \in Nodes : InLine(m)'
  BY <1>1, <1>3, <1>4, OthersWait
<1>6. QED BY <1>1, <1>3, <1>5 DEF PoolInv

LEMMA PoolNext == LogInv /\ PoolInv /\ [Next]_vars => PoolInv'
<1> SUFFICES ASSUME LogInv, PoolInv, [Next]_vars
             PROVE  PoolInv'
  OBVIOUS
<1>1. ASSUME UNCHANGED <<height, state, check, pool, restarts>>, others' \in Nat
      PROVE  PoolInv'
  BY <1>1 DEF PoolInv, InLine
<1>2. others \in Nat
  BY DEF PoolInv
<1>3. CASE UNCHANGED vars
  BY <1>1, <1>2, <1>3 DEF vars
<1>4. ASSUME NEW n \in Nodes, Propose(n) PROVE PoolInv'
  BY <1>1, <1>2, <1>4 DEF Propose
<1>5. ASSUME NEW n \in Nodes, ProposeOther(n) PROVE PoolInv'
  BY <1>1, <1>2, <1>5 DEF ProposeOther
<1>6. ASSUME NEW n \in Nodes, Deliver(n) PROVE PoolInv'
  <2>1. UNCHANGED <<height, state, check, pool, others, restarts>>
    BY <1>6, Zenon DEF Deliver
  <2>2. QED BY <1>1, <1>2, <2>1
<1>7. QED
  BY <1>3, <1>4, <1>5, <1>6, PoolSubmit, PoolCommit, PoolRestart, Zenon DEF Next, Step

LEMMA PoolInvariant == Spec => []PoolInv
BY PoolInit, PoolNext, LogInvariant, PTL DEF Spec

(* Types: no balance and no allowance is overdrawn, on the chain or on the *)
(* check state of a node, for any number of nodes and accounts.            *)
THEOREM AdmissionTypes == Spec => []TypeOK
<1>1. LogInv /\ PoolInv => TypeOK
  BY DEF LogInv, PoolInv, TypeOK
<1>2. QED BY <1>1, LogInvariant, PoolInvariant, PTL
---------------------------------------------------------------------------
(* Who waits first                                                         *)

(* The packets that the first k transactions of q relay.                   *)
Brought(q, k) == UNION {q[j].packets : j \in {j \in 1 .. k : q[j].spends = 0}}

LEMMA BroughtOneMore ==
  ASSUME NEW q, NEW k \in Nat
  PROVE  /\ Brought(q, 0) = {}
         /\ Brought(q, k + 1) = IF q[k + 1].spends = 0
                                THEN Brought(q, k) \cup q[k + 1].packets ELSE Brought(q, k)
<1>1. 1 .. 0 = {} /\ 1 .. k + 1 = (1 .. k) \cup {k + 1}
  OBVIOUS
<1>2. QED BY <1>1 DEF Brought

(* A check state has all of them.                                          *)
LEMMA BroughtIsReceived ==
  ASSUME NEW s \in States, NEW q \in Seq(Txs), NEW e, NEW h, NEW min,
         NEW tr \in [0 .. Len(q) -> States], Line(s, q, e, h, min, tr)
  PROVE  \A i \in 0 .. Len(q) : s.received \cup Brought(q, i) \subseteq tr[i].received
<1> DEFINE G == {k \in Nat : k <= Len(q) =>
                   s.received \cup Brought(q, k) \subseteq tr[k].received}
<1>1. Len(q) \in Nat
  OBVIOUS
<1>2. 0 \in G
  <2>1. tr[0] = s
    BY DEF Line
  <2>2. Brought(q, 0) = {}
    BY BroughtOneMore
  <2>3. QED BY <2>1, <2>2
<1>3. ASSUME NEW k \in Nat, k \in G PROVE k + 1 \in G
  <2> SUFFICES ASSUME k + 1 <= Len(q)
               PROVE  s.received \cup Brought(q, k + 1) \subseteq tr[k + 1].received
    OBVIOUS
  <2> DEFINE t == q[k + 1]
             a == tr[k].received
             b == tr[k + 1].received
  <2>1. k + 1 \in 1 .. Len(q) /\ (k + 1) - 1 = k /\ s.received \cup Brought(q, k) \subseteq a
    BY <1>1, <1>3
  <2>2. Waits(tr[k], t, tr[k + 1], h, min)
    BY <2>1 DEF Line
  <2>3. b = IF Checks("check", t) THEN a \cup t.packets ELSE a
    BY <2>2, Zenon DEF Waits, Becomes
  <2>4. Brought(q, k + 1) = IF t.spends = 0 THEN Brought(q, k) \cup t.packets
                            ELSE Brought(q, k)
    BY BroughtOneMore
  <2>5. Checks("check", t) <=> t.packets # {} /\ t.spends = 0
    BY DEF Checks, Relays
  <2> HIDE DEF t, a, b
  <2>6. s.received \cup Brought(q, k + 1) \subseteq b
    BY <2>1, <2>3, <2>4, <2>5
  <2>7. QED BY <2>6 DEF b
<1>4. \A k \in Nat : k \in G
  <2> HIDE DEF G
  <2>1. Nat \subseteq G
    BY <1>2, <1>3, AllNumbers
  <2>2. QED BY <2>1
<1>5. QED BY <1>1, <1>4

(* RelayersDoNotRace for any number of nodes and transactions: no mempool  *)
(* holds a relayer's transaction whose packets the chain has or an earlier *)
(* one of the mempool brings, whatever leaves it and in whatever order the *)
(* rest is rechecked.                                                      *)
THEOREM NoRaces == Spec => []RelayersDoNotRace
<1>1. LogInv /\ PoolInv => RelayersDoNotRace
  <2>1. SUFFICES ASSUME LogInv, PoolInv, NEW n \in Nodes, NEW i \in DOMAIN pool[n],
                        pool[n][i].packets # {}, pool[n][i].spends = 0
                 PROVE  ~(pool[n][i].packets \subseteq state[n].received \cup Brought(pool[n], i - 1))
    BY Zenon DEF RelayersDoNotRace, Brought
  <2> DEFINE q == pool[n]
             t == q[i]
  <2>2. /\ q \in Seq(Txs) /\ state[n] \in States
        /\ Queue(state[n], q, check[n], height[n], MinPrice[n])
    BY <2>1, Zenon DEF LogInv, PoolInv, InLine
  <2>3. PICK tr \in [0 .. Len(q) -> States] :
          Line(state[n], q, check[n], height[n], MinPrice[n], tr)
    BY <2>2, Zenon DEF Queue
  <2>4. i \in 1 .. Len(q) /\ i - 1 \in 0 .. Len(q)
    BY <2>1, <2>2
  <2>5. state[n].received \cup Brought(q, i - 1) \subseteq tr[i - 1].received
    BY <2>2, <2>3, <2>4, BroughtIsReceived
  <2>6. Admits(tr[i - 1], t, "check", height[n], MinPrice[n])
    BY <2>3, <2>4 DEF Line, Waits
  <2>7. Checks("check", t)
    BY <2>1 DEF Checks, Relays
  <2>8. ~(t.packets \subseteq tr[i - 1].received)
    BY <2>6, <2>7, Zenon DEF Admits
  <2> HIDE DEF q
  <2>9. ~(t.packets \subseteq state[n].received \cup Brought(q, i - 1))
    BY <2>5, <2>8
  <2>10. QED BY <2>9, Zenon DEF q
<1>2. QED BY <1>1, LogInvariant, PoolInvariant, PTL

(* What a line leaves as it was for somebody who has no part in it.        *)
Apart(t, q) ==
  \A i \in 1 .. Len(q) :
    /\ q[i].signer # t.signer /\ q[i].payer # t.payer /\ q[i].packets \cap t.packets = {}
SameFor(t, s, e) ==
  /\ e.seq[t.signer] = s.seq[t.signer] /\ e.bal[t.payer] = s.bal[t.payer]
  /\ e.grant[<<t.payer, t.signer>>] = s.grant[<<t.payer, t.signer>>]
  /\ s.keyed \subseteq e.keyed
  /\ e.received \cap t.packets = s.received \cap t.packets

LEMMA OneApart ==
  ASSUME NEW s \in States, NEW u \in Txs, NEW e \in States, NEW h, NEW min,
         Waits(s, u, e, h, min), NEW t \in Txs,
         u.signer # t.signer, u.payer # t.payer, u.packets \cap t.packets = {}
  PROVE  SameFor(t, s, e)
<1>1. /\ e.seq = [s.seq EXCEPT ![u.signer] = @ + 1]
      /\ e.keyed = IF u.key THEN s.keyed \cup {u.signer} ELSE s.keyed
      /\ e.bal = Less(s.bal, u.payer, u.fee)
      /\ e.grant = IF u.payer = u.signer THEN s.grant
                   ELSE Less(s.grant, <<u.payer, u.signer>>, u.fee)
      /\ e.received = IF Checks("check", u) THEN s.received \cup u.packets ELSE s.received
  BY Zenon DEF Waits, Becomes
<1>2. /\ t.signer \in Accounts /\ t.payer \in Accounts
      /\ s.seq \in [Accounts -> Nat] /\ s.bal \in [Accounts -> Nat]
      /\ s.grant \in [Accounts \X Accounts -> Nat]
  BY TxFields, StateFields
<1>3. e.seq[t.signer] = s.seq[t.signer]
  BY <1>1, <1>2
<1>4. e.bal[t.payer] = s.bal[t.payer]
  BY <1>1, <1>2 DEF Less
<1>5. e.grant[<<t.payer, t.signer>>] = s.grant[<<t.payer, t.signer>>]
  <2>1. <<t.payer, t.signer>> # <<u.payer, u.signer>>
        /\ <<t.payer, t.signer>> \in Accounts \X Accounts
    BY <1>2
  <2>2. CASE u.payer = u.signer
    BY <1>1, <2>2
  <2>3. CASE u.payer # u.signer
    <3>1. e.grant = [s.grant EXCEPT ![<<u.payer, u.signer>>] = @ - u.fee]
      BY <1>1, <2>3 DEF Less
    <3>2. QED BY <1>2, <2>1, <3>1
  <2>4. QED BY <2>2, <2>3
<1>6. s.keyed \subseteq e.keyed
  BY <1>1
<1>7. e.received \cap t.packets = s.received \cap t.packets
  BY <1>1
<1>8. QED BY <1>3, <1>4, <1>5, <1>6, <1>7 DEF SameFor

LEMMA LineApart ==
  ASSUME NEW s \in States, NEW q \in Seq(Txs), NEW e, NEW h, NEW min,
         Queue(s, q, e, h, min), NEW t \in Txs, Apart(t, q)
  PROVE  SameFor(t, s, e)
<1>1. PICK tr \in [0 .. Len(q) -> States] : Line(s, q, e, h, min, tr)
  BY Zenon DEF Queue
<1> DEFINE G == {k \in Nat : k <= Len(q) => SameFor(t, s, tr[k])}
<1>2. Len(q) \in Nat
  OBVIOUS
<1>3. 0 \in G
  <2>1. tr[0] = s
    BY <1>1 DEF Line
  <2>2. SameFor(t, s, tr[0])
    BY <2>1 DEF SameFor
  <2>3. QED BY <2>2
<1>4. ASSUME NEW k \in Nat, k \in G PROVE k + 1 \in G
  <2> SUFFICES ASSUME k + 1 <= Len(q) PROVE SameFor(t, s, tr[k + 1])
    OBVIOUS
  <2>1. /\ k + 1 \in 1 .. Len(q) /\ (k + 1) - 1 = k /\ SameFor(t, s, tr[k])
        /\ tr[k] \in States /\ tr[k + 1] \in States /\ q[k + 1] \in Txs
    BY <1>2, <1>4
  <2>2. Waits(tr[k], q[k + 1], tr[k + 1], h, min)
    BY <1>1, <2>1 DEF Line
  <2>3. /\ q[k + 1].signer # t.signer /\ q[k + 1].payer # t.payer
        /\ q[k + 1].packets \cap t.packets = {}
    BY <2>1, Zenon DEF Apart
  <2>4. SameFor(t, tr[k], tr[k + 1])
    BY <2>1, <2>2, <2>3, OneApart, Zenon
  <2>5. QED BY <2>1, <2>4 DEF SameFor
<1>5. \A k \in Nat : k \in G
  <2> HIDE DEF G
  <2>1. Nat \subseteq G
    BY <1>3, <1>4, AllNumbers
  <2>2. QED BY <2>1
<1>6. SameFor(t, s, tr[Len(q)])
  BY <1>2, <1>5
<1>7. QED BY <1>1, <1>6, Zenon DEF Line

(* NobodyIsLockedOut for any number of nodes and transactions.             *)
THEOREM NobodyLockedOut == Spec => []NobodyIsLockedOut
<1>1. LogInv /\ PoolInv => NobodyIsLockedOut
  <2>1. SUFFICES ASSUME LogInv, PoolInv, NEW n \in Nodes, NEW t \in Txs, Right(t, n)
                 PROVE  CheckTx(check[n], t, "check", height[n], MinPrice[n]).ok
    BY Zenon DEF NobodyIsLockedOut
  <2> DEFINE q == pool[n]
             s == state[n]
             e == check[n]
  <2>2. /\ q \in Seq(Txs) /\ s \in States /\ e \in States
        /\ height[n] \in Nat /\ MinPrice[n] \in Nat /\ "check" \in Modes \ {"simulate"}
        /\ Queue(s, q, e, height[n], MinPrice[n])
    BY <2>1, NodeAssumption DEF LogInv, PoolInv, InLine, Modes
  <2>3. /\ t.valid /\ t.seq = s.seq[t.signer] /\ (t.key \/ t.signer \in s.keyed)
        /\ t.gas > 0 /\ t.fee >= MinPrice[n] /\ s.bal[t.payer] >= t.fee
        /\ t.payer # t.signer => s.grant[<<t.payer, t.signer>>] >= t.fee
        /\ t.timeout = 0 \/ t.timeout > height[n]
        /\ t.packets \cap s.received = {}
        /\ \A u \in ToSet(q) :
             u.signer # t.signer /\ u.payer # t.payer /\ u.packets \cap t.packets = {}
    BY <2>1, Zenon DEF Right
  <2>4. Apart(t, q)
    <3>1. \A i \in 1 .. Len(q) : q[i] \in ToSet(q)
      BY <2>2 DEF ToSet
    <3>2. QED BY <2>3, <3>1, Zenon DEF Apart
  <2> HIDE DEF q, s, e
  <2>5. SameFor(t, s, e)
    BY <2>2, <2>4, LineApart, Zenon
  <2>6. /\ t.timeout = 0 \/ height[n] <= t.timeout
        /\ t.gas >= 1
    <3>1. t.timeout \in Nat /\ t.gas \in Nat
      BY TxAssumption DEF Transaction
    <3>2. QED BY <2>2, <2>3, <3>1
  <2>7. t.signer \in e.keyed \/ t.key
    BY <2>3, <2>5 DEF SameFor
  <2>8. Checks("check", t) => ~(t.packets \subseteq e.received)
    BY <2>3, <2>5 DEF SameFor, Checks, Relays
  <2>9. Admits(e, t, "check", height[n], MinPrice[n])
    BY <2>3, <2>5, <2>6, <2>7, <2>8 DEF SameFor, Admits
  <2>10. CheckTx(e, t, "check", height[n], MinPrice[n]).ok
    BY <2>2, <2>9, CheckIsExact, Zenon
  <2>11. QED BY <2>10, Zenon DEF e
<1>2. QED BY <1>1, LogInvariant, PoolInvariant, PTL
---------------------------------------------------------------------------
(* What a node offers for a block                                          *)

Offers == [st : States, ok : BOOLEAN]

(* One transaction of a block that holds what the mempool holds.           *)
Offered(n, r, t) ==
  LET c == CheckTx(r.st, t, "deliver", height[n] + 1, MinPrice[n])
  IN [st |-> c.st, ok |-> r.ok /\ c.ok]

LEMMA OfferedType ==
  ASSUME NEW n \in Nodes, height[n] \in Nat, NEW r \in Offers, NEW t \in Txs
  PROVE  Offered(n, r, t) \in Offers
<1> DEFINE c == CheckTx(r.st, t, "deliver", height[n] + 1, MinPrice[n])
<1>1. r.st \in States /\ r.ok \in BOOLEAN /\ height[n] + 1 \in Nat /\ MinPrice[n] \in Nat
  BY NodeAssumption DEF Offers
<1>2. c \in Contexts
  BY <1>1, Chain, Zenon DEF CheckTx
<1>3. Offered(n, r, t) = [st |-> c.st, ok |-> r.ok /\ c.ok]
  BY Zenon DEF Offered
<1> HIDE DEF c
<1> DEFINE ok == r.ok /\ c.ok
<1>4. c.st \in States /\ ok \in BOOLEAN
  BY <1>2 DEF Contexts
<1>5. Offered(n, r, t) = [st |-> c.st, ok |-> ok]
  BY <1>3, Zenon
<1> HIDE DEF ok
<1>6. QED BY <1>4, <1>5 DEF Offers

LEMMA OffersPass ==
  ASSUME NEW n \in Nodes, height[n] \in Nat, NEW st \in States, NEW txs \in Seq(Txs)
  PROVE  LET Then(r, t) ==
               LET c == CheckTx(r.st, t, "deliver", height[n] + 1, MinPrice[n])
               IN [st |-> c.st, ok |-> r.ok /\ c.ok]
         IN  \E r \in [0 .. Len(txs) -> Offers] :
               /\ r[0] = [st |-> st, ok |-> TRUE]
               /\ r[Len(txs)] = FoldLeft(Then, [st |-> st, ok |-> TRUE], txs)
               /\ \A k \in 1 .. Len(txs) : r[k] = Offered(n, r[k - 1], txs[k])
<1> DEFINE Then(r, t) ==
             LET c == CheckTx(r.st, t, "deliver", height[n] + 1, MinPrice[n])
             IN [st |-> c.st, ok |-> r.ok /\ c.ok]
           base == [st |-> st, ok |-> TRUE]
           Steps(g) == [v \in SUBSET DOMAIN txs |->
                          IF v = {} THEN base ELSE Offered(n, g[v \ {Max(v)}], txs[Max(v)])]
           it == CHOOSE g : g = Steps(g)
           step == [p \in Offers \X Txs |-> Offered(n, p[1], p[2])]
<1>1. FoldLeft(Then, base, txs) = it[DOMAIN txs]
  BY Zenon DEF FoldLeft, MapThenFoldSet, Offered
<1>2. step \in [Offers \X Txs -> Offers] /\ base \in Offers
  BY OfferedType DEF Offers
<1>3. \E g : g = Steps(g)
  <2>1. PICK g \in [SUBSET DOMAIN txs -> Offers] : FoldingLeft(txs, base, step, g)
    <3> HIDE DEF step, base
    <3>1. QED BY <1>2, LeftFoldExists, Zenon
  <2>2. ASSUME NEW v \in SUBSET DOMAIN txs, v # {}
        PROVE  step[<<g[v \ {Max(v)}], txs[Max(v)]>>] = Offered(n, g[v \ {Max(v)}], txs[Max(v)])
    <3>1. Max(v) \in DOMAIN txs
      <4>1. Len(txs) \in Nat /\ DOMAIN txs = 1 .. Len(txs)
        OBVIOUS
      <4>2. v \in SUBSET (1 .. Len(txs))
        BY <4>1
      <4>3. Max(v) \in v
        BY <2>2, <4>1, <4>2, LastOne, Zenon
      <4>4. QED BY <4>3
    <3>2. g[v \ {Max(v)}] \in Offers /\ txs[Max(v)] \in Txs
      BY <3>1
    <3>3. QED BY <3>2
  <2> HIDE DEF step, base
  <2>3. g = Steps(g)
    BY <2>1, <2>2 DEF FoldingLeft
  <2>4. QED BY <2>3, Zenon
<1>4. it = Steps(it)
  <2> HIDE DEF Steps
  <2>1. QED BY <1>3, Zenon
<1> HIDE DEF it, base
<1>5. it[{}] = base
  BY <1>4
<1>6. ASSUME NEW k \in 1 .. Len(txs), it[1 .. k - 1] \in Offers
      PROVE  it[1 .. k] = step[<<it[1 .. k - 1], txs[k]>>]
  <2>1. Len(txs) \in Nat /\ DOMAIN txs = 1 .. Len(txs) /\ txs[k] \in Txs
    BY <1>6
  <2>2. /\ 1 .. k \in SUBSET DOMAIN txs /\ 1 .. k # {}
        /\ Max(1 .. k) = k /\ (1 .. k) \ {k} = 1 .. k - 1
    BY <1>6, <2>1, Beginning
  <2>3. it[1 .. k] = Offered(n, it[(1 .. k) \ {Max(1 .. k)}], txs[Max(1 .. k)])
    BY <1>4, <2>2
  <2>4. it[1 .. k] = Offered(n, it[1 .. k - 1], txs[k])
    BY <2>2, <2>3
  <2>5. QED BY <1>6, <2>1, <2>4
<1>7. PICK r \in [0 .. Len(txs) -> Offers] :
        Passes(txs, base, step, r) /\ r[Len(txs)] = it[DOMAIN txs]
  <2> HIDE DEF step
  <2>1. OnTheWay(txs, Offers, base, step, it)
    BY <1>5, <1>6 DEF OnTheWay
  <2>2. Arrives(txs, Offers, base, step, it[DOMAIN txs])
    BY <1>2, <2>1, LeftFoldPasses, Zenon
  <2>3. QED BY <2>2, Zenon DEF Arrives
<1>8. ASSUME NEW k \in 1 .. Len(txs) PROVE r[k] = Offered(n, r[k - 1], txs[k])
  <2>1. Len(txs) \in Nat /\ k - 1 \in 0 .. Len(txs) /\ txs[k] \in Txs
    OBVIOUS
  <2>2. r[k - 1] \in Offers
    BY <1>7, <2>1
  <2>3. r[k] = step[<<r[k - 1], txs[k]>>]
    BY <1>7 DEF Passes
  <2>4. QED BY <2>1, <2>2, <2>3
<1>9. r[0] = base
  BY <1>7, Zenon DEF Passes
<1>10. QED BY <1>1, <1>7, <1>8, <1>9, Zenon DEF base

(* Two states that are one for everything but the packets received.        *)
Alike(s, d) == d.seq = s.seq /\ d.keyed = s.keyed /\ d.bal = s.bal /\ d.grant = s.grant

(* What waits passes in a block of the next height, unless it times out.   *)
LEMMA OneReady ==
  ASSUME NEW s \in States, NEW t \in Txs, NEW e, NEW h \in Nat, NEW min \in Nat,
         Waits(s, t, e, h, min), t.timeout # h \/ t.timeout = 0,
         NEW d \in States, Alike(s, d)
  PROVE  LET c == CheckTx(d, t, "deliver", h + 1, min) IN c.ok /\ Alike(e, c.st)
<1> DEFINE c == CheckTx(d, t, "deliver", h + 1, min)
<1>1. "deliver" \in Modes \ {"simulate"} /\ h + 1 \in Nat
  BY DEF Modes
<1>2. t.timeout = 0 \/ h + 1 <= t.timeout
  <2>1. t.timeout \in Nat
    BY TxAssumption DEF Transaction
  <2>2. t.timeout = 0 \/ h <= t.timeout
    BY DEF Waits, Admits
  <2>3. QED BY <2>1, <2>2
<1>3. Admits(d, t, "deliver", h + 1, min)
  <2>1. ~Checks("deliver", t)
    BY DEF Checks
  <2>2. QED BY <1>2, <2>1 DEF Waits, Admits, Alike
<1>4. c.ok /\ Becomes(d, t, "deliver", c.st)
  BY <1>1, <1>3, CheckIsExact, Zenon
<1> HIDE DEF c
<1>5. Alike(e, c.st)
  BY <1>4, Zenon DEF Waits, Becomes, Alike
<1>6. QED BY <1>4, <1>5, Zenon DEF c

(* PoolIsReady for any number of nodes and transactions: whatever came to  *)
(* a node, was in the blocks and timed out meanwhile, a block of what the  *)
(* node offers has no transaction that is refused, in its order.           *)
THEOREM OffersAreReady == Spec => []PoolIsReady
<1>1. LogInv /\ PoolInv => PoolIsReady
  <2>1. SUFFICES ASSUME LogInv, PoolInv, NEW n \in Nodes,
                        \A t \in ToSet(pool[n]) : t.timeout # height[n] \/ t.timeout = 0
                 PROVE  LET Then(r, t) ==
                              LET c == CheckTx(r.st, t, "deliver", height[n] + 1, MinPrice[n])
                              IN [st |-> c.st, ok |-> r.ok /\ c.ok]
                        IN  FoldLeft(Then, [st |-> state[n], ok |-> TRUE], pool[n]).ok
    BY Zenon DEF PoolIsReady
  <2> DEFINE q == pool[n]
             h == height[n]
             min == MinPrice[n]
  <2>2. /\ q \in Seq(Txs) /\ state[n] \in States /\ h \in Nat /\ min \in Nat
        /\ Queue(state[n], q, check[n], h, min)
    BY <2>1, NodeAssumption, Zenon DEF LogInv, PoolInv, InLine
  <2>3. PICK tr \in [0 .. Len(q) -> States] : Line(state[n], q, check[n], h, min, tr)
    BY <2>2, Zenon DEF Queue
  <2> DEFINE Then(r, t) ==
               LET c == CheckTx(r.st, t, "deliver", h + 1, min)
               IN [st |-> c.st, ok |-> r.ok /\ c.ok]
             all == FoldLeft(Then, [st |-> state[n], ok |-> TRUE], q)
  <2>4. PICK r \in [0 .. Len(q) -> Offers] :
          /\ r[0] = [st |-> state[n], ok |-> TRUE] /\ r[Len(q)] = all
          /\ \A k \in 1 .. Len(q) : r[k] = Offered(n, r[k - 1], q[k])
    BY <2>2, OffersPass, Zenon
  <2> HIDE DEF all
  <2> DEFINE G == {k \in Nat : k <= Len(q) => r[k].ok /\ Alike(tr[k], r[k].st)}
  <2>5. Len(q) \in Nat
    BY <2>2
  <2>6. 0 \in G
    <3>1. tr[0] = state[n] /\ r[0].ok /\ r[0].st = state[n]
      BY <2>3, <2>4 DEF Line
    <3>2. Alike(tr[0], r[0].st)
      BY <3>1 DEF Alike
    <3>3. QED BY <3>1, <3>2
  <2>7. ASSUME NEW k \in Nat, k \in G PROVE k + 1 \in G
    <3> SUFFICES ASSUME k + 1 <= Len(q)
                 PROVE  r[k + 1].ok /\ Alike(tr[k + 1], r[k + 1].st)
      OBVIOUS
    <3> DEFINE t == q[k + 1]
               d == r[k].st
               c == CheckTx(d, t, "deliver", h + 1, min)
    <3>1. /\ k + 1 \in 1 .. Len(q) /\ (k + 1) - 1 = k /\ r[k].ok /\ Alike(tr[k], d)
          /\ tr[k] \in States /\ t \in Txs /\ r[k] \in Offers
      BY <2>2, <2>5, <2>7
    <3>2. Waits(tr[k], t, tr[k + 1], h, min)
      BY <2>3, <3>1 DEF Line
    <3>3. t.timeout # h \/ t.timeout = 0
      <4>1. t \in ToSet(q)
        BY <2>2, <3>1 DEF ToSet
      <4>2. QED BY <2>1, <4>1
    <3>4. d \in States
      BY <3>1 DEF Offers
    <3>5. r[k + 1] = [st |-> c.st, ok |-> r[k].ok /\ c.ok]
      BY <2>4, <3>1, Zenon DEF Offered
    <3> HIDE DEF q, h, min, t, d
    <3>6. c.ok /\ Alike(tr[k + 1], c.st)
      BY <2>2, <3>1, <3>2, <3>3, <3>4, OneReady, Zenon
    <3> HIDE DEF c
    <3>7. r[k + 1].st = c.st /\ r[k + 1].ok = (r[k].ok /\ c.ok)
      BY <3>5
    <3>8. QED BY <3>1, <3>6, <3>7, Zenon
  <2>8. Len(q) \in G
    <3> HIDE DEF G
    <3>1. Nat \subseteq G
      BY <2>6, <2>7, AllNumbers
    <3>2. QED BY <2>5, <3>1
  <2>9. r[Len(q)].ok
    BY <2>5, <2>8
  <2>10. all.ok
    BY <2>4, <2>9, Zenon
  <2>11. QED BY <2>10, Zenon DEF all
<1>2. QED BY <1>1, LogInvariant, PoolInvariant, PTL
---------------------------------------------------------------------------
(* Fees and coins                                                          *)

(* What an entry of the log has cost an account, and an allowance.         *)
Cost(a, e) ==
  (IF e.tx.payer = a THEN e.tx.fee ELSE 0)
    + (IF e.tx.signer = a /\ e.done THEN e.tx.spends ELSE 0)
Used(a, b, e) == IF e.tx.payer = a /\ e.tx.signer = b THEN e.tx.fee ELSE 0

Costs(log, a) == [i \in 1 .. Len(log) |-> Cost(a, log[i])]
Uses(log, a, b) == [i \in 1 .. Len(log) |-> Used(a, b, log[i])]
Total(w, log) == SumFunctionOnSet(w, 1 .. Len(log))

LEMMA Costly ==
  ASSUME NEW e \in Entries, NEW a, NEW b
  PROVE  /\ Cost(a, e) \in Nat /\ Used(a, b, e) \in Nat
         /\ e.tx.fee \in Nat /\ e.tx.spends \in Nat
<1>1. e.tx.fee \in Nat /\ e.tx.spends \in Nat
  BY TxFields DEF Entries
<1>2. QED BY <1>1 DEF Cost, Used

LEMMA CostsType ==
  ASSUME NEW log \in Seq(Entries), NEW a, NEW b
  PROVE  /\ Len(log) \in Nat
         /\ Costs(log, a) \in [1 .. Len(log) -> Nat]
         /\ Uses(log, a, b) \in [1 .. Len(log) -> Nat]
<1>1. Len(log) \in Nat /\ \A i \in 1 .. Len(log) : log[i] \in Entries
  OBVIOUS
<1>2. \A i \in 1 .. Len(log) : Cost(a, log[i]) \in Nat /\ Used(a, b, log[i]) \in Nat
  BY <1>1, Costly
<1>3. QED BY <1>1, <1>2 DEF Costs, Uses

(* The sums of the property.                                               *)
LEMMA CostsAreSummed ==
  ASSUME NEW log \in Seq(Entries), NEW a
  PROVE  SumOver(log, LAMBDA e :
           (IF e.tx.payer = a THEN e.tx.fee ELSE 0)
             + (IF e.tx.signer = a /\ e.done THEN e.tx.spends ELSE 0))
           = Total(Costs(log, a), log)
<1> DEFINE k == Len(log)
           w == Costs(log, a)
           Steps(g) == [v \in SUBSET DOMAIN log |->
                          IF v = {} THEN 0 ELSE g[v \ {Max(v)}] + Cost(a, log[Max(v)])]
           it == CHOOSE g : g = Steps(g)
<1>1. SumOver(log, LAMBDA e :
        (IF e.tx.payer = a THEN e.tx.fee ELSE 0)
          + (IF e.tx.signer = a /\ e.done THEN e.tx.spends ELSE 0)) = it[DOMAIN log]
  BY Zenon DEF SumOver, FoldLeft, MapThenFoldSet, Cost
<1>2. k \in Nat /\ DOMAIN log = 1 .. k /\ w \in [1 .. k -> Nat]
  <2>1. k \in Nat /\ w \in [1 .. k -> Nat]
    BY CostsType, Zenon
  <2>2. DOMAIN log = 1 .. k
    OBVIOUS
  <2>3. QED BY <2>1, <2>2
<1>3. ASSUME NEW v \in SUBSET (1 .. k), v # {}
      PROVE  w[Max(v)] = Cost(a, log[Max(v)])
  <2>1. Max(v) \in v
    BY <1>2, <1>3, LastOne, Zenon
  <2>2. QED BY <2>1 DEF Costs
<1> HIDE DEF k, w
<1>4. \E g : g = Steps(g)
  <2>1. PICK g \in [SUBSET (1 .. k) -> Nat] : AddingUp(k, w, g)
    BY <1>2, AddingUpExists, Zenon
  <2>2. g = Steps(g)
    BY <1>2, <1>3, <2>1 DEF AddingUp
  <2>3. QED BY <2>2, Zenon
<1>5. it = Steps(it)
  <2> HIDE DEF Steps
  <2>1. QED BY <1>4, Zenon
<1> HIDE DEF it
<1>6. AddingUp(k, w, it)
  BY <1>2, <1>3, <1>5 DEF AddingUp
<1>7. it[1 .. k] = SumFunctionOnSet(w, 1 .. k)
  BY <1>2, <1>6, AddingUpIsSum, Zenon
<1>8. QED BY <1>1, <1>2, <1>7, Zenon DEF Total, k, w

LEMMA UsesAreSummed ==
  ASSUME NEW log \in Seq(Entries), NEW a, NEW b
  PROVE  SumOver(log, LAMBDA e :
           IF e.tx.payer = a /\ e.tx.signer = b THEN e.tx.fee ELSE 0)
           = Total(Uses(log, a, b), log)
<1> DEFINE k == Len(log)
           w == Uses(log, a, b)
           Steps(g) == [v \in SUBSET DOMAIN log |->
                          IF v = {} THEN 0 ELSE g[v \ {Max(v)}] + Used(a, b, log[Max(v)])]
           it == CHOOSE g : g = Steps(g)
<1>1. SumOver(log, LAMBDA e :
        IF e.tx.payer = a /\ e.tx.signer = b THEN e.tx.fee ELSE 0) = it[DOMAIN log]
  BY Zenon DEF SumOver, FoldLeft, MapThenFoldSet, Used
<1>2. k \in Nat /\ DOMAIN log = 1 .. k /\ w \in [1 .. k -> Nat]
  <2>1. k \in Nat /\ w \in [1 .. k -> Nat]
    BY CostsType, Zenon
  <2>2. DOMAIN log = 1 .. k
    OBVIOUS
  <2>3. QED BY <2>1, <2>2
<1>3. ASSUME NEW v \in SUBSET (1 .. k), v # {}
      PROVE  w[Max(v)] = Used(a, b, log[Max(v)])
  <2>1. Max(v) \in v
    BY <1>2, <1>3, LastOne, Zenon
  <2>2. QED BY <2>1 DEF Uses
<1> HIDE DEF k, w
<1>4. \E g : g = Steps(g)
  <2>1. PICK g \in [SUBSET (1 .. k) -> Nat] : AddingUp(k, w, g)
    BY <1>2, AddingUpExists, Zenon
  <2>2. g = Steps(g)
    BY <1>2, <1>3, <2>1 DEF AddingUp
  <2>3. QED BY <2>2, Zenon
<1>5. it = Steps(it)
  <2> HIDE DEF Steps
  <2>1. QED BY <1>4, Zenon
<1> HIDE DEF it
<1>6. AddingUp(k, w, it)
  BY <1>2, <1>3, <1>5 DEF AddingUp
<1>7. it[1 .. k] = SumFunctionOnSet(w, 1 .. k)
  BY <1>2, <1>6, AddingUpIsSum, Zenon
<1>8. QED BY <1>1, <1>2, <1>7, Zenon DEF Total, k, w

(* One more entry.                                                         *)
LEMMA CostsGrow ==
  ASSUME NEW log \in Seq(Entries), NEW e \in Entries, NEW a, NEW b,
         NEW longer, longer = Append(log, e)
  PROVE  /\ Total(Costs(longer, a), longer) = Total(Costs(log, a), log) + Cost(a, e)
         /\ Total(Uses(longer, a, b), longer) = Total(Uses(log, a, b), log) + Used(a, b, e)
         /\ Total(Costs(log, a), log) \in Nat /\ Total(Uses(log, a, b), log) \in Nat
<1> DEFINE k == Len(log)
<1>1. /\ longer \in Seq(Entries) /\ Len(longer) = k + 1 /\ longer[k + 1] = e
      /\ \A i \in 1 .. k : longer[i] = log[i]
  OBVIOUS
<1>2. /\ k \in Nat /\ Costs(log, a) \in [1 .. k -> Nat] /\ Uses(log, a, b) \in [1 .. k -> Nat]
      /\ Costs(longer, a) \in [1 .. k + 1 -> Nat] /\ Uses(longer, a, b) \in [1 .. k + 1 -> Nat]
  BY <1>1, CostsType
<1>3. /\ k + 1 \in 1 .. k + 1
      /\ \A i \in 1 .. k : i \in 1 .. k + 1
  BY <1>2
<1>4. /\ Costs(longer, a)[k + 1] = Cost(a, e)
      /\ \A i \in 1 .. k : Costs(longer, a)[i] = Costs(log, a)[i]
  BY <1>1, <1>3 DEF Costs
<1>5. /\ Uses(longer, a, b)[k + 1] = Used(a, b, e)
      /\ \A i \in 1 .. k : Uses(longer, a, b)[i] = Uses(log, a, b)[i]
  BY <1>1, <1>3 DEF Uses
<1>6. /\ SumFunctionOnSet(Costs(longer, a), 1 .. k + 1)
           = SumFunctionOnSet(Costs(log, a), 1 .. k) + Costs(longer, a)[k + 1]
      /\ SumFunctionOnSet(Costs(log, a), 1 .. k) \in Nat
  BY <1>2, <1>4, SumAppended
<1>7. /\ SumFunctionOnSet(Uses(longer, a, b), 1 .. k + 1)
           = SumFunctionOnSet(Uses(log, a, b), 1 .. k) + Uses(longer, a, b)[k + 1]
      /\ SumFunctionOnSet(Uses(log, a, b), 1 .. k) \in Nat
  BY <1>2, <1>5, SumAppended
<1>8. QED BY <1>1, <1>4, <1>5, <1>6, <1>7, Zenon DEF Total

(* The books of a state.                                                   *)
Settled(st) ==
  \A a \in Accounts :
    /\ Genesis.bal[a] = st.bal[a] + Total(Costs(st.log, a), st.log)
    /\ \A b \in Accounts \ {a} :
         Genesis.grant[<<a, b>>] = st.grant[<<a, b>>] + Total(Uses(st.log, a, b), st.log)

LEMMA GenesisIsSettled == Settled(Genesis)
<1>1. Genesis \in States /\ Genesis.log = <<>> /\ Len(<<>>) = 0 /\ 1 .. 0 = {}
  BY NodeAssumption, GenesisLogAssumption
<1>2. \A w : Total(w, Genesis.log) = 0
  BY <1>1, SumEmpty DEF Total
<1>3. /\ \A a \in Accounts : Genesis.bal[a] \in Nat
      /\ \A a, b \in Accounts : Genesis.grant[<<a, b>>] \in Nat
  BY <1>1, StateFields
<1>4. QED BY <1>2, <1>3 DEF Settled

LEMMA StillSettled ==
  ASSUME NEW st \in States, Settled(st), NEW tx \in Txs, NEW h \in Nat, NEW min \in Nat
  PROVE  Settled(DeliverTx(st, tx, h, min))
<1> DEFINE after == DeliverTx(st, tx, h, min)
<1>1. after \in States /\ (after = st \/ Entered(st, after, tx, h))
  BY Delivering, Zenon
<1> HIDE DEF after
<1>2. CASE after = st
  BY <1>2, Zenon DEF after
<1>3. CASE Entered(st, after, tx, h)
  <2>1. PICK e \in Entries :
          /\ e.tx = tx /\ after.log = Append(st.log, e)
          /\ after.bal = IF e.done THEN Less(Less(st.bal, tx.payer, tx.fee), tx.signer, tx.spends)
                         ELSE Less(st.bal, tx.payer, tx.fee)
    BY <1>3, Zenon DEF Entered
  <2>2. after.grant = IF tx.payer = tx.signer THEN st.grant
                      ELSE Less(st.grant, <<tx.payer, tx.signer>>, tx.fee)
    BY <1>3, Zenon DEF Entered
  <2>3. /\ st.log \in Seq(Entries) /\ st.bal \in [Accounts -> Nat]
        /\ st.grant \in [Accounts \X Accounts -> Nat]
        /\ tx.payer \in Accounts /\ tx.signer \in Accounts
        /\ tx.fee \in Nat /\ tx.spends \in Nat
    BY StateFields, TxFields
  <2>4. ASSUME NEW a \in Accounts
        PROVE  Genesis.bal[a] = after.bal[a] + Total(Costs(after.log, a), after.log)
    <3> DEFINE p == IF tx.payer = a THEN tx.fee ELSE 0
               q == IF tx.signer = a /\ e.done THEN tx.spends ELSE 0
               paid == Less(st.bal, tx.payer, tx.fee)
               x == st.bal[a]
               y == Total(Costs(st.log, a), st.log)
    <3>1. /\ Total(Costs(after.log, a), after.log) = y + Cost(a, e) /\ y \in Nat
      BY <2>1, <2>3, CostsGrow, Zenon
    <3>2. Cost(a, e) = p + q /\ p \in Nat /\ q \in Nat
      BY <2>1, <2>3 DEF Cost
    <3>3. paid[a] = x - p /\ paid \in [Accounts -> Int] /\ x \in Nat
      BY <2>3 DEF Less
    <3> HIDE DEF paid, p
    <3>4. after.bal[a] = paid[a] - q
      <4>1. CASE e.done
        <5>1. after.bal = Less(paid, tx.signer, tx.spends)
          BY <2>1, <4>1, Zenon DEF paid
        <5>2. QED BY <2>3, <3>3, <4>1, <5>1 DEF Less
      <4>2. CASE ~e.done
        <5>1. after.bal = paid
          BY <2>1, <4>2, Zenon DEF paid
        <5>2. q = 0
          BY <4>2
        <5>3. paid[a] \in Int
          BY <3>3
        <5> HIDE DEF q
        <5>4. QED BY <5>1, <5>2, <5>3
      <4>3. QED BY <4>1, <4>2
    <3>5. Genesis.bal[a] = x + y
      BY DEF Settled
    <3> HIDE DEF q, x, y
    <3>6. after.bal[a] = (x - p) - q
      BY <3>3, <3>4
    <3>7. after.bal[a] + (y + (p + q)) = x + y
      BY <3>1, <3>2, <3>3, <3>6
    <3>8. QED BY <3>1, <3>2, <3>5, <3>7
  <2>5. ASSUME NEW a \in Accounts, NEW b \in Accounts \ {a}
        PROVE  Genesis.grant[<<a, b>>]
                 = after.grant[<<a, b>>] + Total(Uses(after.log, a, b), after.log)
    <3> DEFINE u == Used(a, b, e)
               x == st.grant[<<a, b>>]
               y == Total(Uses(st.log, a, b), st.log)
    <3>1. Total(Uses(after.log, a, b), after.log) = y + u /\ y \in Nat
      <4>1. after.log = Append(st.log, e) /\ st.log \in Seq(Entries)
        BY <2>1, <2>3
      <4>2. QED BY <4>1, CostsGrow, ZenonT(30)
    <3>2. u = (IF tx.payer = a /\ tx.signer = b THEN tx.fee ELSE 0) /\ u \in Nat
      BY <2>1, <2>3 DEF Used
    <3> HIDE DEF u
    <3>3. <<a, b>> \in Accounts \X Accounts /\ x \in Nat
      BY <2>3
    <3>4. after.grant[<<a, b>>] = x - u
      <4>1. CASE tx.payer = tx.signer
        <5>1. after.grant = st.grant
          BY <2>2, <4>1, Zenon
        <5>2. u = 0
          BY <2>5, <3>2, <4>1
        <5>3. QED BY <3>3, <5>1, <5>2
      <4>2. CASE tx.payer # tx.signer
        <5>1. after.grant = [st.grant EXCEPT ![<<tx.payer, tx.signer>>] = @ - tx.fee]
          BY <2>2, <4>2, Zenon DEF Less
        <5>2. CASE <<a, b>> = <<tx.payer, tx.signer>>
          BY <2>3, <3>2, <3>3, <5>1, <5>2
        <5>3. CASE <<a, b>> # <<tx.payer, tx.signer>>
          <6>1. u = 0
            BY <3>2, <5>3
          <6>2. after.grant[<<a, b>>] = x
            BY <2>3, <3>3, <5>1, <5>3
          <6> HIDE DEF x
          <6>3. QED BY <3>3, <6>1, <6>2
        <5>4. QED BY <5>2, <5>3
      <4>3. QED BY <4>1, <4>2
    <3>5. Genesis.grant[<<a, b>>] = x + y
      BY DEF Settled
    <3> HIDE DEF x, y
    <3>6. after.grant[<<a, b>>] + (y + u) = x + y
      BY <3>1, <3>2, <3>3, <3>4
    <3>7. QED BY <3>1, <3>5, <3>6
  <2>6. QED BY <2>4, <2>5, Zenon DEF Settled, after
<1>4. QED BY <1>1, <1>2, <1>3

SettledInv == \A n \in Nodes : Settled(state[n]) /\ Settled(deliver[n])

LEMMA SettledInit == Init => SettledInv
BY GenesisIsSettled DEF Init, SettledInv

LEMMA SettledNext == LogInv /\ SettledInv /\ [Next]_vars => SettledInv'
<1> SUFFICES ASSUME LogInv, SettledInv, [Next]_vars
             PROVE  SettledInv'
  OBVIOUS
<1>1. ASSUME UNCHANGED <<state, deliver>> PROVE SettledInv'
  BY <1>1 DEF SettledInv
<1>2. CASE UNCHANGED vars
  BY <1>1, <1>2 DEF vars
<1>3. ASSUME NEW n \in Nodes, NEW t \in Txs, Submit(n, t) PROVE SettledInv'
  <2>1. UNCHANGED <<state, deliver>>
    BY <1>3, Zenon DEF Submit
  <2>2. QED BY <1>1, <2>1
<1>4. ASSUME NEW n \in Nodes, Propose(n) PROVE SettledInv'
  BY <1>1, <1>4 DEF Propose
<1>5. ASSUME NEW n \in Nodes, ProposeOther(n) PROVE SettledInv'
  BY <1>1, <1>5 DEF ProposeOther
<1>6. ASSUME NEW n \in Nodes, Deliver(n) PROVE SettledInv'
  <2> DEFINE tx == NextBlock(n)[next[n]]
             after == DeliverTx(deliver[n], tx, height[n] + 1, MinPrice[n])
  <2>1. /\ height[n] < Len(blocks) /\ next[n] <= Len(NextBlock(n))
        /\ deliver' = [deliver EXCEPT ![n] = after]
        /\ UNCHANGED state
    BY <1>6, Zenon DEF Deliver
  <2>2. tx \in Txs
    <3>1. height[n] + 1 \in 1 .. Len(blocks) /\ next[n] \in Nat \ {0}
      BY <2>1 DEF LogInv
    <3>2. NextBlock(n) \in Seq(Txs)
      BY <3>1 DEF NextBlock, LogInv
    <3>3. QED BY <3>1, <3>2, <2>1
  <2> HIDE DEF tx
  <2>3. height[n] + 1 \in Nat /\ MinPrice[n] \in Nat /\ deliver[n] \in States
        /\ Settled(deliver[n])
    BY NodeAssumption DEF LogInv, SettledInv
  <2>4. Settled(after)
    BY <2>2, <2>3, StillSettled, Zenon
  <2> HIDE DEF after
  <2>5. QED BY <2>1, <2>4 DEF LogInv, SettledInv
<1>7. ASSUME NEW n \in Nodes, Commit(n) PROVE SettledInv'
  <2>1. state' = [state EXCEPT ![n] = deliver[n]] /\ UNCHANGED deliver
    BY <1>7, Zenon DEF Commit
  <2>2. QED BY <2>1 DEF LogInv, SettledInv
<1>8. ASSUME NEW n \in Nodes, Restart(n) PROVE SettledInv'
  <2>1. deliver' = [deliver EXCEPT ![n] = state[n]] /\ UNCHANGED state
    BY <1>8, Zenon DEF Restart
  <2>2. QED BY <2>1 DEF LogInv, SettledInv
<1>9. QED
  BY <1>2, <1>3, <1>4, <1>5, <1>6, <1>7, <1>8, Zenon DEF Next, Step

LEMMA SettledInvariant == Spec => []SettledInv
BY SettledInit, SettledNext, LogInvariant, PTL DEF Spec

(* OnlyExecutedArePaid for any number of accounts, allowances and blocks:  *)
(* what an account and an allowance have lost is, to the coin, what the    *)
(* transactions that passed have cost.                                     *)
THEOREM NobodyPaysForNothing == Spec => []OnlyExecutedArePaid
<1>1. LogInv /\ SettledInv => OnlyExecutedArePaid
  <2> SUFFICES ASSUME LogInv, SettledInv PROVE OnlyExecutedArePaid
    OBVIOUS
  <2>1. ASSUME NEW n \in Nodes, NEW a \in Accounts
        PROVE  Genesis.bal[a] - deliver[n].bal[a] =
                 SumOver(deliver[n].log, LAMBDA e :
                   (IF e.tx.payer = a THEN e.tx.fee ELSE 0)
                     + (IF e.tx.signer = a /\ e.done THEN e.tx.spends ELSE 0))
    <3> DEFINE st == deliver[n]
               x == st.bal[a]
               y == Total(Costs(st.log, a), st.log)
    <3>1. st.log \in Seq(Entries) /\ x \in Nat
      BY StateFields DEF LogInv
    <3>2. Genesis.bal[a] = x + y /\ y \in Nat
      <4>1. Genesis.bal[a] = x + y
        BY DEF SettledInv, Settled
      <4>2. y \in Nat
        <5>1. Costs(st.log, a) \in [1 .. Len(st.log) -> Nat] /\ Len(st.log) \in Nat
          BY <3>1, CostsType
        <5>2. QED BY <5>1, SumsAreNumbers DEF Total
      <4>3. QED BY <4>1, <4>2
    <3>3. SumOver(st.log, LAMBDA e :
            (IF e.tx.payer = a THEN e.tx.fee ELSE 0)
              + (IF e.tx.signer = a /\ e.done THEN e.tx.spends ELSE 0)) = y
      BY <3>1, CostsAreSummed, Zenon
    <3> HIDE DEF x, y
    <3>4. Genesis.bal[a] - x = y
      BY <3>1, <3>2
    <3>5. QED BY <3>3, <3>4, Zenon DEF x
  <2>2. ASSUME NEW n \in Nodes, NEW a \in Accounts, NEW b \in Accounts \ {a}
        PROVE  Genesis.grant[<<a, b>>] - deliver[n].grant[<<a, b>>] =
                 SumOver(deliver[n].log, LAMBDA e :
                   IF e.tx.payer = a /\ e.tx.signer = b THEN e.tx.fee ELSE 0)
    <3> DEFINE st == deliver[n]
               x == st.grant[<<a, b>>]
               y == Total(Uses(st.log, a, b), st.log)
    <3>1. st.log \in Seq(Entries) /\ x \in Nat
      BY StateFields DEF LogInv
    <3>2. Genesis.grant[<<a, b>>] = x + y /\ y \in Nat
      <4>1. Genesis.grant[<<a, b>>] = x + y
        BY DEF SettledInv, Settled
      <4>2. y \in Nat
        <5>1. Uses(st.log, a, b) \in [1 .. Len(st.log) -> Nat] /\ Len(st.log) \in Nat
          BY <3>1, CostsType
        <5>2. QED BY <5>1, SumsAreNumbers DEF Total
      <4>3. QED BY <4>1, <4>2
    <3>3. SumOver(st.log, LAMBDA e :
            IF e.tx.payer = a /\ e.tx.signer = b THEN e.tx.fee ELSE 0) = y
      BY <3>1, UsesAreSummed, Zenon
    <3> HIDE DEF x, y
    <3>4. Genesis.grant[<<a, b>>] - x = y
      BY <3>1, <3>2
    <3>5. QED BY <3>3, <3>4, Zenon DEF x
  <2>3. QED BY <2>1, <2>2, Zenon DEF OnlyExecutedArePaid
<1>2. QED BY <1>1, LogInvariant, SettledInvariant, PTL
---------------------------------------------------------------------------
(* Blocks as steps of AbstractLedger.                                      *)

(* The ledgers on the way through a block, one transaction after another.  *)
LEMMA StepByStep ==
  ASSUME NEW S, NEW l, NEW b \in Seq(S)
  PROVE  /\ Ledger!Through(l, b)[0] = l
         /\ \A k \in 1 .. Len(b) :
              Ledger!Through(l, b)[k] = Ledger!Transact(Ledger!Through(l, b)[k - 1], b[k])
<1> DEFINE Step2(g, k) == IF k = 0 THEN l ELSE Ledger!Transact(g[k - 1], b[k])
           N == {n \in Nat : \E g : g = [k \in 0 .. n |-> Step2(g, k)]}
<1>1. 0 \in N
  <2> DEFINE g == [k \in 0 .. 0 |-> l]
  <2>1. g = [k \in 0 .. 0 |-> Step2(g, k)]
    OBVIOUS
  <2>2. QED BY <2>1
<1>2. ASSUME NEW n \in Nat, n \in N PROVE n + 1 \in N
  <2>1. PICK g : g = [k \in 0 .. n |-> Step2(g, k)]
    BY <1>2
  <2> DEFINE h == [k \in 0 .. n + 1 |-> Step2(g, k)]
  <2>2. \A k \in 0 .. n : k \in 0 .. n + 1 /\ h[k] = g[k]
    BY <2>1
  <2>3. h = [k \in 0 .. n + 1 |-> Step2(g, k)]
    OBVIOUS
  <2> HIDE DEF h
  <2>4. \A k \in 0 .. n + 1 : k = 0 \/ h[k - 1] = g[k - 1]
    BY <2>2
  <2>5. \A k \in 0 .. n + 1 : Step2(h, k) = Step2(g, k)
    BY <2>4
  <2> HIDE DEF Step2
  <2>6. h = [k \in 0 .. n + 1 |-> Step2(h, k)]
    BY <2>3, <2>5
  <2>7. QED BY <2>6
<1>3. Len(b) \in N
  <2> HIDE DEF N
  <2>1. Nat \subseteq N
    BY <1>1, <1>2, AllNumbers
  <2>2. QED BY <2>1
<1>4. \E g : g = [k \in 0 .. Len(b) |-> Step2(g, k)]
  BY <1>3
<1> DEFINE t == Ledger!Through(l, b)
<1>5. t = [k \in 0 .. Len(b) |-> IF k = 0 THEN l ELSE Ledger!Transact(t[k - 1], b[k])]
  BY <1>4 DEF Ledger!Through
<1> HIDE DEF t
<1>6. QED BY <1>5 DEF t

(* A ledger's fields, and what the abstract rules do to them.              *)
Fields(h, s, k, b, g, r, l) ==
  [height |-> h, seq |-> s, keyed |-> k, bal |-> b, grant |-> g, received |-> r, log |-> l]

LEMMA LoggedFields ==
  ASSUME NEW h, NEW s, NEW k, NEW b, NEW g, NEW r, NEW l, NEW e, NEW x,
         x = Fields(h, s, k, b, g, r, l)
  PROVE  [x EXCEPT !.log = Append(@, e)] = Fields(h, s, k, b, g, r, Append(l, e))
<1> DEFINE d == Append(l, e)
<1>1. x.log = l
  BY DEF Fields
<1> HIDE DEF d
<1>2. [x EXCEPT !.log = d] = Fields(h, s, k, b, g, r, d)
  BY DEF Fields
<1>3. [x EXCEPT !.log = Append(@, e)] = [x EXCEPT !.log = d]
  BY <1>1, Zenon DEF d
<1>4. QED BY <1>2, <1>3, Zenon DEF d

LEMMA ChargedFields ==
  ASSUME NEW h, NEW s, NEW k, NEW b, NEW g, NEW r, NEW l, NEW t, NEW q, NEW m, NEW c, NEW d,
         q = [s EXCEPT ![t.signer] = @ + 1], m = k \cup {t.signer},
         c = Less(b, t.payer, t.fee),
         d = IF t.payer = t.signer THEN g ELSE Less(g, <<t.payer, t.signer>>, t.fee)
  PROVE  Ledger!Charged(Fields(h, s, k, b, g, r, l), t) = Fields(h, q, m, c, d, r, l)
<1> DEFINE f == Fields(h, s, k, b, g, r, l)
<1>1. f.seq = s /\ f.keyed = k /\ f.bal = b /\ f.grant = g
  BY DEF Fields
<1>2. Ledger!Charged(f, t) = [f EXCEPT !.seq = q, !.keyed = m, !.bal = c, !.grant = d]
  <2> HIDE DEF f
  <2>1. QED BY <1>1 DEF Ledger!Charged, Ledger!Less, Less
<1>3. /\ [f EXCEPT !.seq = q] = Fields(h, q, k, b, g, r, l)
      /\ [Fields(h, q, k, b, g, r, l) EXCEPT !.keyed = m] = Fields(h, q, m, b, g, r, l)
      /\ [Fields(h, q, m, b, g, r, l) EXCEPT !.bal = c] = Fields(h, q, m, c, g, r, l)
      /\ [Fields(h, q, m, c, g, r, l) EXCEPT !.grant = d] = Fields(h, q, m, c, d, r, l)
  BY DEF f, Fields
<1> DEFINE f1 == Fields(h, q, k, b, g, r, l)
           f2 == Fields(h, q, m, b, g, r, l)
           f3 == Fields(h, q, m, c, g, r, l)
<1> HIDE DEF f, f1, f2, f3
<1>4. /\ [f EXCEPT !.seq = q] = f1 /\ [f1 EXCEPT !.keyed = m] = f2
      /\ [f2 EXCEPT !.bal = c] = f3 /\ [f3 EXCEPT !.grant = d] = Fields(h, q, m, c, d, r, l)
  BY <1>3, Zenon DEF f1, f2, f3
<1>5. Ledger!Charged(f, t) = Fields(h, q, m, c, d, r, l)
  BY <1>2, <1>4
<1>6. QED BY <1>5, Zenon DEF f

LEMMA LedgerFields ==
  ASSUME NEW st, NEW h
  PROVE  /\ LedgerOf(st, h) =
              Fields(h, st.seq, st.keyed, st.bal, st.grant, st.received, st.log)
         /\ LedgerOf(st, h).height = h /\ LedgerOf(st, h).seq = st.seq
         /\ LedgerOf(st, h).keyed = st.keyed /\ LedgerOf(st, h).bal = st.bal
         /\ LedgerOf(st, h).grant = st.grant /\ LedgerOf(st, h).received = st.received
         /\ LedgerOf(st, h).log = st.log
BY DEF LedgerOf, Fields

(* The same transactions pass.                                             *)
LEMMA PassesIsAdmits ==
  ASSUME NEW st \in States, NEW tx \in Txs, NEW h \in Nat, NEW min
  PROVE  Ledger!Passes(LedgerOf(st, h), tx) <=> Admits(st, tx, "deliver", h + 1, min)
<1> DEFINE l == LedgerOf(st, h)
<1>1. /\ l.seq = st.seq /\ l.keyed = st.keyed /\ l.bal = st.bal /\ l.grant = st.grant
      /\ l.height = h
  BY LedgerFields
<1> HIDE DEF l
<1>2. tx.timeout \in Nat /\ tx.gas \in Nat
  BY TxAssumption DEF Transaction
<1>3. (tx.timeout = 0 \/ tx.timeout > h) <=> (tx.timeout = 0 \/ h + 1 <= tx.timeout)
  BY <1>2
<1>4. tx.gas > 0 <=> tx.gas >= 1
  BY <1>2
<1>5. ~Checks("deliver", tx)
  BY DEF Checks
<1>6. Ledger!Passes(l, tx) <=> Admits(st, tx, "deliver", h + 1, min)
  BY <1>1, <1>3, <1>4, <1>5 DEF Ledger!Passes, Ledger!Signed, Ledger!Funded, Admits
<1>7. QED BY <1>6 DEF l

(* A state's counter counts the transactions that have passed at h.        *)
LEMMA CounterCounts ==
  ASSUME NEW st, NEW h \in Nat \ {0}, Good(st, h)
  PROVE  CountIn(st, h) = Cardinality({i \in DOMAIN st.log : st.log[i].height = h})
<1>1. /\ st \in States /\ Placed(st) /\ st.counter.height <= h
      /\ st.counter.height \in Nat /\ st.log \in Seq(Entries)
      /\ DOMAIN st.log = 1 .. Len(st.log) /\ \A i \in DOMAIN st.log : st.log[i] \in Entries
  BY StateFields DEF Good
<1>2. CASE st.counter.height = h
  BY <1>1, <1>2 DEF Placed, CountIn, InBlock
<1>3. CASE st.counter.height # h
  <2>1. \A i \in DOMAIN st.log : st.log[i].height <= st.counter.height
    BY <1>1 DEF Placed
  <2>2. \A i \in DOMAIN st.log : st.log[i].height # h
    BY <1>1, <1>3, <2>1, EntryFields
  <2>3. {i \in DOMAIN st.log : st.log[i].height = h} = {}
    BY <2>2
  <2>4. QED BY <1>3, <2>3, FS_EmptySet DEF CountIn
<1>4. QED BY <1>2, <1>3

(* What a transaction that passes makes of the state, to the last field.   *)
LEMMA DeliveredFields ==
  ASSUME NEW st \in States, NEW tx \in Txs, NEW h \in Nat, NEW min \in Nat
  PROVE  LET m == DeliverTx(st, tx, h, min)
             paid == Less(st.bal, tx.payer, tx.fee)
             done == 1 + tx.work <= tx.gas /\ paid[tx.signer] >= tx.spends
         IN IF Admits(st, tx, "deliver", h, min)
            THEN /\ m.seq = [st.seq EXCEPT ![tx.signer] = @ + 1]
                 /\ m.keyed = IF tx.key THEN st.keyed \cup {tx.signer} ELSE st.keyed
                 /\ m.bal = IF done THEN Less(paid, tx.signer, tx.spends) ELSE paid
                 /\ m.grant = IF tx.payer = tx.signer THEN st.grant
                              ELSE Less(st.grant, <<tx.payer, tx.signer>>, tx.fee)
                 /\ m.received = IF done THEN st.received \cup tx.packets ELSE st.received
                 /\ m.log = Append(st.log, [tx |-> tx, height |-> h, index |-> CountIn(st, h),
                                            done |-> done])
            ELSE m = st
<1> DEFINE b == Context(st, tx, "deliver", h, min)
           c == Ante(b)
           e == After(st, tx, "deliver", h)
           k == CountIn(st, h)
           paid == Less(st.bal, tx.payer, tx.fee)
           done == 1 + tx.work <= tx.gas /\ paid[tx.signer] >= tx.spends
           m == DeliverTx(st, tx, h, min)
<1>1. "deliver" \in Modes \ {"simulate"}
  BY DEF Modes
<1>2. /\ Live(b) /\ b.tx = tx /\ b.height = h
      /\ IF Admits(st, tx, "deliver", h, min) THEN Now(b, c, e, tx.gas, k) ELSE Out(c)
  BY <1>1, AnteIsExact, Zenon
<1>3. m = IF c.ok THEN RunMsgs(c) ELSE st
  BY Zenon DEF DeliverTx
<1> HIDE DEF b, c, m, k
<1>4. CASE Admits(st, tx, "deliver", h, min)
  <2>1. Like(b, c, e, tx.gas, k)
    BY <1>2, <1>4, NowFields, Zenon
  <2>2. Becomes(st, tx, "deliver", e) /\ e.log = st.log
    BY <1>4, AfterFields, Zenon
  <2> HIDE DEF e
  <2>3. /\ c.ok /\ c.st = e /\ c.tx = tx /\ c.height = h /\ c.index = k /\ c.limit = tx.gas
    BY <1>2, <2>1, Zenon DEF Like
  <2>4. /\ e.bal = paid /\ e.seq = [st.seq EXCEPT ![tx.signer] = @ + 1]
        /\ e.keyed = IF tx.key THEN st.keyed \cup {tx.signer} ELSE st.keyed
        /\ e.grant = IF tx.payer = tx.signer THEN st.grant
                     ELSE Less(st.grant, <<tx.payer, tx.signer>>, tx.fee)
        /\ e.received = st.received /\ e \in States
    BY <2>2 DEF Becomes, Checks
  <2> HIDE DEF paid
  <2>5. Runs(c) <=> done
    <3>1. tx.gas \in Nat /\ tx.gas # NoLimit
      BY TxFields DEF NoLimit
    <3>2. QED BY <2>3, <2>4, <3>1 DEF Runs, Affords
  <2> DEFINE y == [tx |-> tx, height |-> h, index |-> k, done |-> done]
             bal == IF done THEN Less(paid, tx.signer, tx.spends) ELSE paid
             rec == IF done THEN st.received \cup tx.packets ELSE st.received
             log == Append(st.log, y)
  <2>6. Runs(c) = done
    BY <2>5 DEF Runs
  <2> HIDE DEF done
  <2>7. m = [e EXCEPT !.bal = bal, !.received = rec, !.log = log]
    BY <1>3, <2>2, <2>3, <2>4, <2>6, Zenon DEF RunMsgs
  <2> HIDE DEF bal, rec, log, y
  <2>8. /\ m.seq = e.seq /\ m.keyed = e.keyed /\ m.bal = bal /\ m.grant = e.grant
        /\ m.received = rec /\ m.log = log
    BY <2>4, <2>7 DEF States
  <2>9. QED BY <1>4, <2>4, <2>8, Zenon DEF bal, rec, log, y, done, paid, m, k
<1>5. CASE ~Admits(st, tx, "deliver", h, min)
  <2>1. ~c.ok
    BY <1>2, <1>5 DEF Out
  <2>2. m = st
    BY <1>3, <2>1
  <2>3. QED BY <1>5, <2>2, Zenon DEF m
<1>6. QED BY <1>4, <1>5, Zenon

(* A transaction is delivered by the abstract rules.                       *)
LEMMA DeliverIsTransact ==
  ASSUME NEW h \in Nat, NEW st, Good(st, h + 1), NEW tx \in Txs, NEW min \in Nat
  PROVE  LedgerOf(DeliverTx(st, tx, h + 1, min), h) = Ledger!Transact(LedgerOf(st, h), tx)
<1> DEFINE l == LedgerOf(st, h)
           m == DeliverTx(st, tx, h + 1, min)
           k == CountIn(st, h + 1)
           q == [st.seq EXCEPT ![tx.signer] = @ + 1]
           paid == Less(st.bal, tx.payer, tx.fee)
           g == IF tx.payer = tx.signer THEN st.grant
                ELSE Less(st.grant, <<tx.payer, tx.signer>>, tx.fee)
           done == 1 + tx.work <= tx.gas /\ paid[tx.signer] >= tx.spends
           e == [tx |-> tx, height |-> h + 1, index |-> k, done |-> done]
           keyed == st.keyed \cup {tx.signer}
<1>1. st \in States /\ h + 1 \in Nat \ {0} /\ tx.gas \in Nat /\ tx.work \in Nat
  BY TxAssumption DEF Good, Transaction
<1>2. l = Fields(h, st.seq, st.keyed, st.bal, st.grant, st.received, st.log)
      /\ l.height = h /\ l.log = st.log
  BY LedgerFields
<1>3. Ledger!Passes(l, tx) <=> Admits(st, tx, "deliver", h + 1, min)
  BY <1>1, PassesIsAdmits
<1> HIDE DEF l
<1>4. CASE Admits(st, tx, "deliver", h + 1, min)
  <2>1. /\ m.seq = q /\ m.grant = g /\ m.log = Append(st.log, e)
        /\ m.keyed = IF tx.key THEN st.keyed \cup {tx.signer} ELSE st.keyed
        /\ m.bal = IF done THEN Less(paid, tx.signer, tx.spends) ELSE paid
        /\ m.received = IF done THEN st.received \cup tx.packets ELSE st.received
    BY <1>1, <1>4, DeliveredFields, Zenon
  <2>2. m.keyed = keyed
    BY <1>4, <2>1 DEF Admits
  <2> DEFINE c == Ledger!Charged(l, tx)
  <2>3. c = Fields(h, q, keyed, paid, g, st.received, st.log)
    <3>1. /\ q = [st.seq EXCEPT ![tx.signer] = @ + 1] /\ keyed = st.keyed \cup {tx.signer}
          /\ paid = Less(st.bal, tx.payer, tx.fee)
          /\ g = IF tx.payer = tx.signer THEN st.grant
                 ELSE Less(st.grant, <<tx.payer, tx.signer>>, tx.fee)
      BY Zenon
    <3> HIDE DEF q, keyed, paid, g
    <3>2. Ledger!Charged(Fields(h, st.seq, st.keyed, st.bal, st.grant, st.received, st.log), tx)
            = Fields(h, q, keyed, paid, g, st.received, st.log)
      BY <3>1, ChargedFields
    <3>3. QED BY <1>2, <3>2, Zenon
  <2>4. Ledger!Executes(c, tx) <=> done
    <3>1. c.bal = paid
      BY <2>3 DEF Fields
    <3> HIDE DEF c, paid
    <3>2. QED BY <1>1, <3>1 DEF Ledger!Executes
  <2>5. Ledger!Receipt(l, tx, Ledger!Executes(c, tx)) = e
    <3>1. k = Cardinality({i \in DOMAIN st.log : st.log[i].height = h + 1})
      BY <1>1, CounterCounts
    <3>2. Ledger!Executes(c, tx) = done
      BY <2>4 DEF Ledger!Executes
    <3>3. \A S : Ledger!Cardinality(S) = Cardinality(S)
      BY Zenon DEF Ledger!Cardinality, Cardinality
    <3> HIDE DEF c, k, done
    <3>4. QED BY <1>2, <3>1, <3>2, <3>3, Zenon DEF Ledger!Receipt
  <2> DEFINE x == IF done THEN Ledger!Executed(c, tx) ELSE c
             bal == IF done THEN Less(paid, tx.signer, tx.spends) ELSE paid
             rec == IF done THEN st.received \cup tx.packets ELSE st.received
  <2>6. Ledger!Transact(l, tx) = [x EXCEPT !.log = Append(@, e)]
    <3>1. Ledger!Transacted(l, tx) = [x EXCEPT !.log = Append(@, e)]
      <4> HIDE DEF e, done
      <4>1. QED BY <2>4, <2>5, Zenon DEF Ledger!Transacted
    <3>2. QED BY <1>3, <1>4, <3>1, Zenon DEF Ledger!Transact
  <2>7. x = Fields(h, q, keyed, bal, g, rec, st.log)
    <3> HIDE DEF q, keyed, paid, g, c, done
    <3> DEFINE y == Less(paid, tx.signer, tx.spends)
               z == st.received \cup tx.packets
    <3>1. Ledger!Executed(c, tx) = Fields(h, q, keyed, y, g, z, st.log)
      <4>1. c.bal = paid /\ c.received = st.received
        BY <2>3 DEF Fields
      <4>2. Ledger!Executed(c, tx) = [c EXCEPT !.bal = y, !.received = z]
        BY <4>1 DEF Ledger!Executed, Ledger!Less, Less
      <4> HIDE DEF y, z
      <4> DEFINE f == Fields(h, q, keyed, y, g, st.received, st.log)
      <4>3. [c EXCEPT !.bal = y] = f
        BY <2>3 DEF Fields
      <4>4. [f EXCEPT !.received = z] = Fields(h, q, keyed, y, g, z, st.log)
        BY DEF Fields
      <4> HIDE DEF f
      <4>5. QED BY <4>2, <4>3, <4>4
    <3>2. CASE done
      BY <2>3, <3>1, <3>2, Zenon
    <3>3. CASE ~done
      BY <2>3, <3>3, Zenon
    <3>4. QED BY <3>2, <3>3
  <2> HIDE DEF x, bal, rec, e, q, g, keyed, c, done, paid
  <2>8. [x EXCEPT !.log = Append(@, e)] = Fields(h, q, keyed, bal, g, rec, Append(st.log, e))
    BY <2>7, LoggedFields
  <2>9. LedgerOf(m, h) = Fields(h, m.seq, m.keyed, m.bal, m.grant, m.received, m.log)
    BY LedgerFields
  <2>10. m.bal = bal /\ m.received = rec
    BY <2>1, Zenon DEF bal, rec
  <2> HIDE DEF m
  <2>11. LedgerOf(m, h) = Ledger!Transact(l, tx)
    BY <2>1, <2>2, <2>6, <2>8, <2>9, <2>10, Zenon
  <2>12. QED BY <2>11 DEF m, l
<1>5. CASE ~Admits(st, tx, "deliver", h + 1, min)
  <2>1. m = st
    BY <1>1, <1>5, DeliveredFields, Zenon
  <2>2. Ledger!Transact(l, tx) = l
    BY <1>3, <1>5 DEF Ledger!Transact
  <2> HIDE DEF m
  <2>3. QED BY <2>1, <2>2, Zenon DEF l, m
<1>6. QED BY <1>4, <1>5

(* The invariant: inside a block, the open state is the ledger on its way  *)
(* through the block.                                                      *)
OnItsWay(n) ==
  /\ next[n] = 1 => deliver[n] = state[n]
  /\ next[n] # 1 =>
       /\ height[n] < Len(blocks) /\ next[n] <= Len(NextBlock(n)) + 1
       /\ LedgerOf(deliver[n], height[n]) =
            Ledger!Through(LedgerOf(state[n], height[n]), NextBlock(n))[next[n] - 1]
BlockInv == \A n \in Nodes : OnItsWay(n)

(* Where it stands when the node has a next block.                         *)
LEMMA WayThrough ==
  ASSUME LogInv, NEW n \in Nodes, OnItsWay(n), height[n] < Len(blocks)
  PROVE  LET b == NextBlock(n) IN
         /\ b \in Seq(Txs) /\ b = blocks[height[n] + 1]
         /\ next[n] \in Nat \ {0} /\ next[n] <= Len(b) + 1
         /\ LedgerOf(deliver[n], height[n]) =
              Ledger!Through(LedgerOf(state[n], height[n]), b)[next[n] - 1]
<1> DEFINE b == NextBlock(n)
<1>1. b = blocks[height[n] + 1] /\ b \in Seq(Txs) /\ next[n] \in Nat \ {0}
  BY DEF NextBlock, LogInv
<1> HIDE DEF b
<1>2. CASE next[n] = 1
  <2>1. Ledger!Through(LedgerOf(state[n], height[n]), b)[0] = LedgerOf(state[n], height[n])
    BY <1>1, StepByStep
  <2>2. QED BY <1>1, <1>2, <2>1 DEF OnItsWay, b
<1>3. CASE next[n] # 1
  BY <1>1, <1>3 DEF OnItsWay, b
<1>4. QED BY <1>2, <1>3

(* Another node's steps, and new blocks, do not disturb it.                *)
LEMMA WayStays ==
  ASSUME LogInv, NEW m \in Nodes, OnItsWay(m),
         height'[m] = height[m], state'[m] = state[m], deliver'[m] = deliver[m],
         next'[m] = next[m],
         blocks' = blocks \/ \E b \in Seq(Txs) : blocks' = Append(blocks, b)
  PROVE  OnItsWay(m)'
<1>1. height[m] \in Nat /\ blocks \in Seq(Seq(Txs))
  BY DEF LogInv
<1>2. height[m] < Len(blocks) =>
        height[m] < Len(blocks') /\ blocks'[height[m] + 1] = blocks[height[m] + 1]
  <2>1. CASE blocks' = blocks
    BY <2>1
  <2>2. ASSUME NEW b \in Seq(Txs), blocks' = Append(blocks, b), height[m] < Len(blocks)
        PROVE  height[m] < Len(blocks') /\ blocks'[height[m] + 1] = blocks[height[m] + 1]
    <3>1. height[m] + 1 \in 1 .. Len(blocks) /\ Len(blocks) \in Nat
      BY <1>1, <2>2
    <3>2. Len(Append(blocks, b)) = Len(blocks) + 1
          /\ Append(blocks, b)[height[m] + 1] = blocks[height[m] + 1]
      BY <1>1, <3>1
    <3>3. QED BY <1>1, <2>2, <3>1, <3>2
  <2>3. QED BY <2>1, <2>2
<1>3. CASE next[m] = 1
  BY <1>3 DEF OnItsWay
<1>4. CASE next[m] # 1
  <2>1. height[m] < Len(blocks)
    BY <1>4 DEF OnItsWay
  <2>2. NextBlock(m)' = NextBlock(m)
    BY <1>2, <2>1 DEF NextBlock
  <2>3. /\ next[m] <= Len(NextBlock(m)) + 1
        /\ LedgerOf(deliver[m], height[m]) =
             Ledger!Through(LedgerOf(state[m], height[m]), NextBlock(m))[next[m] - 1]
    BY <1>4 DEF OnItsWay
  <2>4. /\ height'[m] < Len(blocks') /\ next'[m] <= Len(NextBlock(m)') + 1
        /\ LedgerOf(deliver'[m], height'[m]) =
             Ledger!Through(LedgerOf(state'[m], height'[m]), NextBlock(m)')[next'[m] - 1]
    BY <1>2, <2>1, <2>2, <2>3, Zenon
  <2>5. QED BY <1>4, <2>4, Zenon DEF OnItsWay
<1>5. QED BY <1>3, <1>4

(* A transaction takes the open state one ledger further.                  *)
LEMMA WayFurther ==
  ASSUME LogInv, NEW n \in Nodes, OnItsWay(n), Deliver(n)
  PROVE  OnItsWay(n)'
<1> DEFINE b == NextBlock(n)
           l == LedgerOf(state[n], height[n])
           tx == b[next[n]]
           after == DeliverTx(deliver[n], tx, height[n] + 1, MinPrice[n])
<1>1. /\ height[n] < Len(blocks) /\ next[n] <= Len(b)
      /\ deliver' = [deliver EXCEPT ![n] = after]
      /\ next' = [next EXCEPT ![n] = @ + 1]
      /\ UNCHANGED <<blocks, height, state>>
  BY Zenon DEF Deliver
<1>2. /\ b \in Seq(Txs) /\ next[n] \in Nat \ {0}
      /\ LedgerOf(deliver[n], height[n]) = Ledger!Through(l, b)[next[n] - 1]
  BY <1>1, WayThrough
<1>3. /\ height[n] \in Nat /\ Good(deliver[n], height[n] + 1) /\ MinPrice[n] \in Nat
      /\ deliver'[n] = after /\ next'[n] = next[n] + 1
  BY <1>1, NodeAssumption DEF LogInv
<1> HIDE DEF b, l
<1>4. next[n] \in 1 .. Len(b) /\ tx \in Txs
  BY <1>1, <1>2
<1>5. LedgerOf(after, height[n]) = Ledger!Transact(LedgerOf(deliver[n], height[n]), tx)
  <2> HIDE DEF tx
  <2>1. QED BY <1>3, <1>4, DeliverIsTransact
<1>6. Ledger!Through(l, b)[next[n]] = Ledger!Transact(Ledger!Through(l, b)[next[n] - 1], tx)
  BY <1>2, <1>4, StepByStep
<1> HIDE DEF after, tx
<1>7. LedgerOf(deliver'[n], height[n]) = Ledger!Through(l, b)[next[n]]
  BY <1>2, <1>3, <1>5, <1>6, Zenon
<1>8. next'[n] # 1 /\ next'[n] - 1 = next[n] /\ next'[n] <= Len(b) + 1
  BY <1>3, <1>4
<1>9. NextBlock(n)' = b /\ height'[n] = height[n] /\ state'[n] = state[n]
      /\ height'[n] < Len(blocks')
  BY <1>1 DEF NextBlock, b
<1>10. LedgerOf(deliver'[n], height'[n]) =
         Ledger!Through(LedgerOf(state'[n], height'[n]), NextBlock(n)')[next'[n] - 1]
  BY <1>7, <1>8, <1>9, Zenon DEF l
<1>11. QED BY <1>8, <1>9, <1>10, Zenon DEF OnItsWay

LEMMA BlockInit == Init => BlockInv
BY Zenon DEF Init, BlockInv, OnItsWay

LEMMA BlockNext == LogInv /\ BlockInv /\ [Next]_vars => BlockInv'
<1> SUFFICES ASSUME LogInv, BlockInv, [Next]_vars, NEW m \in Nodes
             PROVE  OnItsWay(m)'
  BY DEF BlockInv
<1>1. OnItsWay(m)
  BY DEF BlockInv
<1>2. CASE UNCHANGED vars
  BY <1>1, <1>2, WayStays DEF vars
<1>3. ASSUME NEW n \in Nodes, NEW t \in Txs, Submit(n, t)
      PROVE  OnItsWay(m)'
  <2>1. UNCHANGED <<blocks, height, state, deliver, next>>
    BY <1>3, Zenon DEF Submit
  <2>2. QED BY <1>1, <2>1, WayStays
<1>4. ASSUME NEW n \in Nodes, Propose(n) \/ ProposeOther(n)
      PROVE  OnItsWay(m)'
  <2>1. PICK b \in Seq(Txs) : blocks' = Append(blocks, b)
    BY <1>4, DecidedBlock
  <2>2. UNCHANGED <<height, state, deliver, next>>
    BY <1>4, Zenon DEF Propose, ProposeOther
  <2>3. QED BY <1>1, <2>1, <2>2, WayStays
<1>5. ASSUME NEW n \in Nodes, Deliver(n)
      PROVE  OnItsWay(m)'
  <2>1. CASE m = n
    BY <1>1, <1>5, <2>1, WayFurther
  <2>2. CASE m # n
    <3>1. /\ UNCHANGED <<blocks, height, state>>
          /\ deliver'[m] = deliver[m] /\ next'[m] = next[m]
      BY <1>5, <2>2 DEF Deliver, LogInv
    <3>2. QED BY <1>1, <3>1, WayStays
  <2>3. QED BY <2>1, <2>2
<1>6. ASSUME NEW n \in Nodes, Commit(n)
      PROVE  OnItsWay(m)'
  <2>1. /\ state' = [state EXCEPT ![n] = deliver[n]]
        /\ height' = [height EXCEPT ![n] = @ + 1]
        /\ next' = [next EXCEPT ![n] = 1]
        /\ UNCHANGED <<blocks, deliver>>
    BY <1>6, Zenon DEF Commit
  <2>2. CASE m = n
    <3>1. next'[m] = 1 /\ deliver'[m] = state'[m]
      BY <2>1, <2>2 DEF LogInv
    <3>2. QED BY <3>1 DEF OnItsWay
  <2>3. CASE m # n
    <3>1. state'[m] = state[m] /\ height'[m] = height[m] /\ next'[m] = next[m]
      BY <2>1, <2>3 DEF LogInv
    <3>2. QED BY <1>1, <2>1, <3>1, WayStays
  <2>4. QED BY <2>2, <2>3
<1>7. ASSUME NEW n \in Nodes, Restart(n)
      PROVE  OnItsWay(m)'
  <2>1. /\ deliver' = [deliver EXCEPT ![n] = state[n]]
        /\ next' = [next EXCEPT ![n] = 1]
        /\ UNCHANGED <<blocks, height, state>>
    BY <1>7, Zenon DEF Restart
  <2>2. CASE m = n
    <3>1. next'[m] = 1 /\ deliver'[m] = state'[m]
      BY <2>1, <2>2 DEF LogInv
    <3>2. QED BY <3>1 DEF OnItsWay
  <2>3. CASE m # n
    <3>1. deliver'[m] = deliver[m] /\ next'[m] = next[m]
      BY <2>1, <2>3 DEF LogInv
    <3>2. QED BY <1>1, <2>1, <3>1, WayStays
  <2>4. QED BY <2>2, <2>3
<1>8. QED BY <1>2, <1>3, <1>4, <1>5, <1>6, <1>7, Zenon DEF Next, Step

LEMMA BlockInvariant == Spec => []BlockInv
BY BlockInit, BlockNext, LogInvariant, PTL DEF Spec

(* A commit is the abstract execution of the block.                        *)
LEMMA CommitExecutes ==
  ASSUME LogInv, BlockInv, NEW n \in Nodes, Commit(n)
  PROVE  Ledger!Execute(n)
<1> DEFINE b == NextBlock(n)
           l == LedgerOf(state[n], height[n])
           d == deliver[n]
           h == height[n]
<1>1. /\ h < Len(blocks) /\ next[n] > Len(b)
      /\ state' = [state EXCEPT ![n] = d]
      /\ height' = [height EXCEPT ![n] = @ + 1]
      /\ UNCHANGED blocks
  BY Zenon DEF Commit
<1>2. /\ b \in Seq(Txs) /\ b = blocks[h + 1]
      /\ next[n] \in Nat \ {0} /\ next[n] <= Len(b) + 1
      /\ LedgerOf(d, h) = Ledger!Through(l, b)[next[n] - 1]
  BY <1>1, WayThrough DEF BlockInv
<1>3. h \in Nat /\ blocks \in Seq(Seq(Txs)) /\ n \in DOMAIN state /\ n \in DOMAIN height
      /\ DOMAIN state = Nodes /\ DOMAIN height = Nodes
  BY DEF LogInv
<1>4. next[n] - 1 = Len(b)
  BY <1>1, <1>2
<1>5. Ledger!After(l, b) = LedgerOf(d, h + 1)
  <2>1. Ledger!After(l, b) = [LedgerOf(d, h) EXCEPT !.height = @ + 1]
    BY <1>2, <1>4, Zenon DEF Ledger!After
  <2>2. LedgerOf(d, h).height = h
    BY LedgerFields
  <2> HIDE DEF d, h, l, b
  <2>3. [LedgerOf(d, h) EXCEPT !.height = h + 1] = LedgerOf(d, h + 1)
    BY DEF LedgerOf
  <2>4. QED BY <2>1, <2>2, <2>3
<1>6. LedgerBar[n] = l /\ LedgerBar[n].height = h
  BY LedgerFields DEF LedgerBar
<1>7. LedgerBar' = [LedgerBar EXCEPT ![n] = Ledger!After(l, b)]
  <2> DEFINE new == LedgerOf(d, h + 1)
  <2>1. \A m \in Nodes : LedgerOf(state'[m], height'[m]) =
                           IF m = n THEN new ELSE LedgerOf(state[m], height[m])
    <3> HIDE DEF d
    <3>1. QED BY <1>1, <1>3
  <2>2. LedgerBar' = [m \in Nodes |-> LedgerOf(state'[m], height'[m])]
    BY DEF LedgerBar
  <2> HIDE DEF new
  <2>3. [LedgerBar EXCEPT ![n] = new] =
          [m \in Nodes |-> IF m = n THEN new ELSE LedgerOf(state[m], height[m])]
    BY DEF LedgerBar
  <2>4. LedgerBar' = [LedgerBar EXCEPT ![n] = new]
    BY <2>1, <2>2, <2>3
  <2>5. QED BY <1>5, <2>4, Zenon DEF new
<1> HIDE DEF b, l, h
<1>8. h + 1 <= Len(blocks)
  BY <1>1, <1>3
<1>9. QED BY <1>1, <1>2, <1>6, <1>7, <1>8, Zenon DEF Ledger!Execute

(* A new block is the abstract decision.                                   *)
LEMMA ProposalDecides ==
  ASSUME LogInv, NEW b \in Seq(Txs), blocks' = Append(blocks, b),
         UNCHANGED <<height, state>>
  PROVE  Ledger!Decide
<1>1. blocks \in Seq(Seq(Txs))
  BY DEF LogInv
<1>2. /\ blocks' \in Seq(Seq(Txs)) /\ Len(blocks') = Len(blocks) + 1
      /\ SubSeq(blocks', 1, Len(blocks)) = blocks
  BY <1>1
<1>3. LedgerBar' = LedgerBar
  BY Zenon DEF LedgerBar
<1>4. QED BY <1>2, <1>3, Zenon DEF Ledger!Decide

(* Every step is a step of AbstractLedger or a stutter.                    *)
LEMMA LedgerStep ==
  LogInv /\ BlockInv /\ [Next]_vars => [Ledger!Next]_Ledger!vars
<1> SUFFICES ASSUME LogInv, BlockInv, [Next]_vars
             PROVE  Ledger!Next \/ UNCHANGED <<blocks, LedgerBar>>
  BY Zenon DEF Ledger!vars
<1>1. ASSUME UNCHANGED <<blocks, height, state>>
      PROVE  UNCHANGED <<blocks, LedgerBar>>
  BY <1>1, Zenon DEF LedgerBar
<1>2. CASE UNCHANGED vars
  BY <1>1, <1>2, Zenon DEF vars
<1>3. ASSUME NEW n \in Nodes, NEW t \in Txs, Submit(n, t)
      PROVE  UNCHANGED <<blocks, LedgerBar>>
  BY <1>1, <1>3, Zenon DEF Submit
<1>4. ASSUME NEW n \in Nodes, Propose(n) \/ ProposeOther(n)
      PROVE  Ledger!Next
  <2>1. PICK b \in Seq(Txs) : blocks' = Append(blocks, b)
    BY <1>4, DecidedBlock
  <2>2. UNCHANGED <<height, state>>
    BY <1>4, Zenon DEF Propose, ProposeOther
  <2>3. QED BY <2>1, <2>2, ProposalDecides, Zenon DEF Ledger!Next
<1>5. ASSUME NEW n \in Nodes, Deliver(n)
      PROVE  UNCHANGED <<blocks, LedgerBar>>
  BY <1>1, <1>5, Zenon DEF Deliver
<1>6. ASSUME NEW n \in Nodes, Commit(n)
      PROVE  Ledger!Next
  BY <1>6, CommitExecutes, Zenon DEF Ledger!Next
<1>7. ASSUME NEW n \in Nodes, Restart(n)
      PROVE  UNCHANGED <<blocks, LedgerBar>>
  BY <1>1, <1>7, Zenon DEF Restart
<1>8. QED BY <1>2, <1>3, <1>4, <1>5, <1>6, <1>7, Zenon DEF Next, Step

(* ImplementsLedger for any number of nodes, whatever they charge, accept  *)
(* and restart: each executes the decided blocks, one step a block, by the *)
(* rules of AbstractLedger.                                                *)
THEOREM LedgerRefinement == Spec => ImplementsLedger
<1>1. Init => Ledger!Init
  <2> SUFFICES ASSUME Init PROVE Ledger!Init
    OBVIOUS
  <2>1. LedgerBar = [n \in Nodes |-> LedgerOf(Genesis, 0)]
    BY DEF Init, LedgerBar
  <2>2. QED BY <2>1, Zenon DEF Init, Ledger!Init
<1>2. QED BY <1>1, LedgerStep, LogInvariant, BlockInvariant, PTL
          DEF Spec, ImplementsLedger, Ledger!Spec
===========================================================================
