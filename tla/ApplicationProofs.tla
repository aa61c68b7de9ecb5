------------------------ MODULE ApplicationProofs ------------------------
(***************************************************************************)
(* The construction of the application succeeds in every process, and the  *)
(* processes together run BlockFlow's chain, for every set of genesis      *)
(* files and every bound on coins and transactions.                        *)
(*                                                                         *)
(* What a statement of New can rely on is what stands before it, so the    *)
(* argument is about places: those of the statements in their order        *)
(* (StatementPlaces), and what each pointer, copy, closed object and call  *)
(* demands of them (PointersBefore, ClosedLater, LinksBuilt).  WiringInv   *)
(* then says that a process has executed the beginning of its statements.  *)
(***************************************************************************)
EXTENDS Application, BlockFlowProofs, FiniteSetTheorems

---------------------------------------------------------------------------
(* The order of the statements                                             *)

(* The place of each statement.                                            *)
Place ==
  [AddressPrefixes |-> 1, Denoms |-> 2, Encoding |-> 3, ConfigSeal |-> 4,
   Flags |-> 5, ClientConfig |-> 6, ClientContext |-> 7, ServerConfig |-> 8,
   AppOptions |-> 9, Codec |-> 10, BaseApp |-> 11, Params |-> 12,
   ConsensusParams |-> 13, Capability |-> 14, ScopedWasm |-> 15,
   ScopedIBC |-> 16, ScopedTransfer |-> 17, CapabilitySeal |-> 18,
   Account |-> 19, Authz |-> 20, Bank |-> 21, Staking |-> 22, Mint |-> 23,
   Distr |-> 24, Slashing |-> 25, Crisis |-> 26, FeeGrant |-> 27,
   Upgrade |-> 28, StakingHooks |-> 29, IBC |-> 30, Wasm |-> 31,
   GovRouter |-> 32, Gov |-> 33, Evidence |-> 34, IBCFee |-> 35,
   Transfer |-> 36, TransferStack |-> 37, WasmStack |-> 38, IBCRouter |-> 39,
   ModuleManager |-> 40, Orders |-> 41, Invariants |-> 42,
   Configurator |-> 43, Services |-> 44, StoreLoader |-> 45,
   UpgradeHandlers |-> 46, Mounts |-> 47, Blockers |-> 48, Ante |-> 49,
   Snapshotter |-> 50, PostHandler |-> 51, Load |-> 52, PinnedCodes |-> 53,
   LoadHeight |-> 52]

Names == DOMAIN Place

(* The last statements, of which each command has its own.                 *)
Loads == {"Load", "PinnedCodes", "LoadHeight"}

(* s holds the statements from place k + 1 to place k + n.                 *)
Segment(s, k, n) ==
  /\ s \in Seq(Names) /\ Len(s) = n
  /\ \A i \in 1 .. n : Place[s[i]] = k + i
  /\ \A p \in Names \ Loads :
       k < Place[p] /\ Place[p] <= k + n => s[Place[p] - k] = p

LEMMA Segments ==
  /\ Segment(Process, 0, 9) /\ Segment(Base, 9, 4) /\ Segment(Capabilities, 13, 5)
  /\ Segment(SDKKeepers, 18, 11) /\ Segment(IBCKeepers, 29, 10) /\ Segment(Finish, 39, 12)
  /\ Segment(<<"LoadHeight">>, 51, 1) /\ Segment(<<"Load", "PinnedCodes">>, 51, 2)
<1>1. Segment(Process, 0, 9)
  <2>1. Process \in Seq(Names)
    BY DEF Process, Place, Names
  <2>2. Len(Process) = 9 /\ \A i \in 1 .. 9 : Place[Process[i]] = 0 + i
    BY DEF Process, Place, Names
  <2>3. \A p \in Names \ Loads :
          0 < Place[p] /\ Place[p] <= 0 + 9 => Process[Place[p] - 0] = p
    BY DEF Process, Place, Names
  <2>4. QED BY <2>1, <2>2, <2>3 DEF Segment
<1>2. Segment(Base, 9, 4)
  <2>1. Base \in Seq(Names)
    BY DEF Base, Place, Names
  <2>2. Len(Base) = 4 /\ \A i \in 1 .. 4 : Place[Base[i]] = 9 + i
    BY DEF Base, Place, Names
  <2>3. \A p \in Names \ Loads :
          9 < Place[p] /\ Place[p] <= 9 + 4 => Base[Place[p] - 9] = p
    BY DEF Base, Place, Names
  <2>4. QED BY <2>1, <2>2, <2>3 DEF Segment
<1>3. Segment(Capabilities, 13, 5)
  <2>1. Capabilities \in Seq(Names)
    BY DEF Capabilities, Place, Names
  <2>2. Len(Capabilities) = 5 /\ \A i \in 1 .. 5 : Place[Capabilities[i]] = 13 + i
    BY DEF Capabilities, Place, Names
  <2>3. \A p \in Names \ Loads :
          13 < Place[p] /\ Place[p] <= 13 + 5 => Capabilities[Place[p] - 13] = p
    BY DEF Capabilities, Place, Names
  <2>4. QED BY <2>1, <2>2, <2>3 DEF Segment
<1>4. Segment(SDKKeepers, 18, 11)
  <2>1. SDKKeepers \in Seq(Names)
    BY DEF SDKKeepers, Place, Names
  <2>2. Len(SDKKeepers) = 11 /\ \A i \in 1 .. 11 : Place[SDKKeepers[i]] = 18 + i
    BY DEF SDKKeepers, Place, Names
  <2>3. \A p \in Names \ Loads :
          18 < Place[p] /\ Place[p] <= 18 + 11 => SDKKeepers[Place[p] - 18] = p
    BY DEF SDKKeepers, Place, Names
  <2>4. QED BY <2>1, <2>2, <2>3 DEF Segment
<1>5. Segment(IBCKeepers, 29, 10)
  <2>1. IBCKeepers \in Seq(Names)
    BY DEF IBCKeepers, Place, Names
  <2>2. Len(IBCKeepers) = 10 /\ \A i \in 1 .. 10 : Place[IBCKeepers[i]] = 29 + i
    BY DEF IBCKeepers, Place, Names
  <2>3. \A p \in Names \ Loads :
          29 < Place[p] /\ Place[p] <= 29 + 10 => IBCKeepers[Place[p] - 29] = p
    BY DEF IBCKeepers, Place, Names
  <2>4. QED BY <2>1, <2>2, <2>3 DEF Segment
<1>6. Segment(Finish, 39, 12)
  <2>1. Finish \in Seq(Names)
    BY DEF Finish, Place, Names
  <2>2. Len(Finish) = 12 /\ \A i \in 1 .. 12 : Place[Finish[i]] = 39 + i
    BY DEF Finish, Place, Names
  <2>3. \A p \in Names \ Loads :
          39 < Place[p] /\ Place[p] <= 39 + 12 => Finish[Place[p] - 39] = p
    BY DEF Finish, Place, Names
  <2>4. QED BY <2>1, <2>2, <2>3 DEF Segment
<1>7. Segment(<<"LoadHeight">>, 51, 1)
  <2>1. <<"LoadHeight">> \in Seq(Names)
    BY DEF Place, Names
  <2>2. \A i \in 1 .. 1 : Place[<<"LoadHeight">>[i]] = 51 + i
    BY DEF Place, Names
  <2>3. \A p \in Names \ Loads : ~ (51 < Place[p])
    BY DEF Place, Names, Loads
  <2>4. QED BY <2>1, <2>2, <2>3 DEF Segment
<1>8. Segment(<<"Load", "PinnedCodes">>, 51, 2)
  <2>1. <<"Load", "PinnedCodes">> \in Seq(Names)
    BY DEF Place, Names
  <2>2. \A i \in 1 .. 2 : Place[<<"Load", "PinnedCodes">>[i]] = 51 + i
    BY DEF Place, Names
  <2>3. \A p \in Names \ Loads : ~ (51 < Place[p])
    BY DEF Place, Names, Loads
  <2>4. QED BY <2>1, <2>2, <2>3 DEF Segment
<1>9. QED BY <1>1, <1>2, <1>3, <1>4, <1>5, <1>6, <1>7, <1>8

(* Two segments make one.                                                  *)
LEMMA Joined ==
  ASSUME NEW s, NEW t, NEW m \in Nat, NEW n \in Nat, Segment(s, 0, m), Segment(t, m, n)
  PROVE  Segment(s \o t, 0, m + n)
<1>0. /\ s \in Seq(Names) /\ Len(s) = m
      /\ t \in Seq(Names) /\ Len(t) = n
  BY DEF Segment
<1>1. s \o t \in Seq(Names) /\ Len(s \o t) = m + n
  BY <1>0
<1>2. ASSUME NEW i \in 1 .. m + n PROVE Place[(s \o t)[i]] = i
  <2>1. CASE i <= m
    <3>1. (s \o t)[i] = s[i] /\ i \in 1 .. m
      BY <1>0, <2>1
    <3>2. QED BY <3>1 DEF Segment
  <2>2. CASE ~ (i <= m)
    <3>1. (s \o t)[i] = t[i - m] /\ i - m \in 1 .. n
      BY <1>0, <2>2
    <3>2. Place[t[i - m]] = m + (i - m)
      BY <3>1 DEF Segment
    <3>3. QED BY <3>1, <3>2
  <2>3. QED BY <2>1, <2>2
<1>3. ASSUME NEW p \in Names \ Loads, 0 < Place[p], Place[p] <= m + n
      PROVE  (s \o t)[Place[p]] = p
  <2>1. Place[p] \in Nat
    BY DEF Place, Names
  <2>2. CASE Place[p] <= m
    <3>1. (s \o t)[Place[p]] = s[Place[p]] /\ s[Place[p] - 0] = p
      BY <1>3, <2>1, <2>2 DEF Segment
    <3>2. QED BY <2>1, <3>1
  <2>3. CASE ~ (Place[p] <= m)
    <3>1. (s \o t)[Place[p]] = t[Place[p] - m]
      BY <1>0, <1>3, <2>1, <2>3
    <3>2. t[Place[p] - m] = p
      BY <1>3, <2>1, <2>3 DEF Segment
    <3>3. QED BY <3>1, <3>2
  <2>4. QED BY <2>2, <2>3
<1>4. \A p \in Names : Place[p] \in Nat
  BY DEF Place, Names
<1>5. /\ \A i \in 1 .. m + n : Place[(s \o t)[i]] = 0 + i
      /\ \A p \in Names \ Loads :
           0 < Place[p] /\ Place[p] <= 0 + (m + n) => (s \o t)[Place[p] - 0] = p
  <2>1. \A p \in Names : Place[p] - 0 = Place[p]
    BY <1>4
  <2>2. 0 + (m + n) = m + n /\ \A i \in 1 .. m + n : 0 + i = i
    OBVIOUS
  <2>3. QED BY <1>2, <1>3, <2>1, <2>2
<1>6. QED BY <1>1, <1>5, Zenon DEF Segment

LEMMA OrderPlaces == Segment(Order, 0, 51)
<1>1. Segment(Process \o Base, 0, 13)
  BY Segments, Joined
<1>2. Segment(Process \o Base \o Capabilities, 0, 18)
  BY <1>1, Segments, Joined
<1>3. Segment(Process \o Base \o Capabilities \o SDKKeepers, 0, 29)
  BY <1>2, Segments, Joined
<1>4. Segment(Process \o Base \o Capabilities \o SDKKeepers \o IBCKeepers, 0, 39)
  BY <1>3, Segments, Joined
<1>5. Segment(Process \o Base \o Capabilities \o SDKKeepers \o IBCKeepers \o Finish, 0, 51)
  BY <1>4, Segments, Joined
<1>6. QED BY <1>5 DEF Order

(* A list that begins like that, and ends with what its places say.        *)
Ends(s, n, N) ==
  /\ N \subseteq Names /\ Names \ N \subseteq Loads
  /\ \A p \in N : Place[p] \in 1 .. n
  /\ \A p \in Loads \cap N : s[Place[p]] = p
  /\ \A p \in Loads \ N : Place[p] \in 1 .. n => s[Place[p]] # p
Lists(s, n, N) ==
  /\ s \in Seq(N) /\ Len(s) = n
  /\ \A i \in 1 .. n : Place[s[i]] = i
  /\ \A p \in N : Place[p] \in 1 .. n /\ s[Place[p]] = p

LEMMA Finished ==
  ASSUME NEW s, NEW n \in Nat, NEW N, Segment(s, 0, n), Ends(s, n, N)
  PROVE  Lists(s, n, N)
<1>1. s \in Seq(Names) /\ Len(s) = n
  BY DEF Segment
<1>2. \A i \in 1 .. n : Place[s[i]] = i
  <2>1. \A i \in 1 .. n : Place[s[i]] = 0 + i
    BY DEF Segment
  <2>2. QED BY <2>1
<1>3. ASSUME NEW p \in N PROVE s[Place[p]] = p
  <2>1. CASE p \in Loads
    BY <2>1 DEF Ends
  <2>2. CASE p \notin Loads
    <3>1. /\ p \in Names
          /\ 0 < Place[p] /\ Place[p] <= 0 + n /\ Place[p] - 0 = Place[p]
      BY DEF Ends
    <3>2. s[Place[p] - 0] = p
      BY <2>2, <3>1 DEF Segment
    <3>3. QED BY <3>1, <3>2
  <2>3. QED BY <2>1, <2>2
<1>4. \A i \in 1 .. n : s[i] \in N
  BY <1>1, <1>2 DEF Ends
<1>5. s \in Seq(N)
  BY <1>1, <1>4
<1>6. QED BY <1>1, <1>2, <1>3, <1>5 DEF Lists, Ends

(* What is appended to a list stands behind it.                            *)
LEMMA Appended ==
  ASSUME NEW T, NEW s \in Seq(T), NEW t \in Seq(T), NEW i \in 1 .. Len(t),
         NEW k, k = Len(s) + i
  PROVE  (s \o t)[k] = t[i]
OBVIOUS

(* How many statements a command has, and which.                           *)
Count(c) == IF c = "exportAt" THEN 52 ELSE 53
Needed(c) == Names \ (IF c = "exportAt" THEN {"Load", "PinnedCodes"} ELSE {"LoadHeight"})

LEMMA StatementPlaces == \A c : Lists(Statements(c), Count(c), Needed(c))
<1> TAKE c
<1> DEFINE S == Statements(c)
<1>1. \A p \in Names : Place[p] \in Nat \ {0} /\ (p \notin Loads => Place[p] <= 51)
  BY DEF Place, Names, Loads
<1>2. /\ Place["LoadHeight"] = 52 /\ Place["Load"] = 52 /\ Place["PinnedCodes"] = 53
      /\ Loads \subseteq Names
  BY DEF Place, Names, Loads
<1>3. Order \in Seq(Names)
  BY OrderPlaces DEF Segment
<1>7. Len(Order) = 51
  BY OrderPlaces DEF Segment
<1>4. CASE c = "exportAt"
  <2>1. S = Order \o <<"LoadHeight">> /\ Count(c) = 52
    BY <1>4 DEF Statements, Count
  <2>2. Segment(S, 0, 52)
    BY <2>1, OrderPlaces, Segments, Joined
  <2>3. S[52] = "LoadHeight"
    <3> DEFINE t == <<"LoadHeight">>
    <3>1. t \in Seq(Names) /\ t[1] = "LoadHeight"
      BY Segments DEF Segment
    <3>2. 1 \in 1 .. Len(t) /\ 52 = Len(Order) + 1
      BY <1>7
    <3> HIDE DEF t
    <3>3. (Order \o t)[52] = t[1]
      BY <1>3, <3>1, <3>2, Appended
    <3>4. QED BY <2>1, <3>1, <3>3, Zenon DEF t
  <2> DEFINE N == Names \ {"Load", "PinnedCodes"}
  <2>4. Names \ N \subseteq Loads /\ \A p \in Loads \cap N : p = "LoadHeight"
    BY DEF Loads
  <2>5. /\ \A p \in N : Place[p] \in 1 .. 52
        /\ \A p \in Loads \cap N : S[Place[p]] = p
    BY <1>1, <1>2, <2>3, <2>4
  <2>6. \A p \in Loads \ N : Place[p] \in 1 .. 52 => S[Place[p]] # p
    BY <1>2, <2>3 DEF Loads
  <2>7. Needed(c) = N /\ N \subseteq Names
    BY <1>4 DEF Needed
  <2>8. Ends(S, 52, N)
    BY <2>4, <2>5, <2>6, <2>7, Zenon DEF Ends
  <2> HIDE DEF N, S
  <2>9. Lists(S, 52, N)
    BY <2>2, <2>8, Finished
  <2>10. QED BY <2>1, <2>7, <2>9, Zenon DEF S
<1>5. CASE c # "exportAt"
  <2>1. S = Order \o <<"Load", "PinnedCodes">> /\ Count(c) = 53
    BY <1>5 DEF Statements, Count
  <2>2. Segment(S, 0, 53)
    BY <2>1, OrderPlaces, Segments, Joined
  <2>3. S[52] = "Load" /\ S[53] = "PinnedCodes"
    <3> DEFINE t == <<"Load", "PinnedCodes">>
    <3>1. t \in Seq(Names) /\ t[1] = "Load" /\ t[2] = "PinnedCodes"
      BY Segments DEF Segment
    <3>2. 1 \in 1 .. Len(t) /\ 52 = Len(Order) + 1
      BY <1>7
    <3>3. 2 \in 1 .. Len(t) /\ 53 = Len(Order) + 2
      BY <1>7
    <3> HIDE DEF t
    <3>4. (Order \o t)[52] = t[1]
      BY <1>3, <3>1, <3>2, Appended
    <3>5. (Order \o t)[53] = t[2]
      BY <1>3, <3>1, <3>3, Appended
    <3>6. QED BY <2>1, <3>1, <3>4, <3>5, Zenon DEF t
  <2> DEFINE N == Names \ {"LoadHeight"}
  <2>4. Names \ N \subseteq Loads /\ \A p \in Loads \cap N : p \in {"Load", "PinnedCodes"}
    BY DEF Loads
  <2>5. /\ \A p \in N : Place[p] \in 1 .. 53
        /\ \A p \in Loads \cap N : S[Place[p]] = p
    BY <1>1, <1>2, <2>3, <2>4
  <2>6. \A p \in Loads \ N : Place[p] \in 1 .. 53 => S[Place[p]] # p
    BY <1>2, <2>3 DEF Loads
  <2>7. Needed(c) = N /\ N \subseteq Names
    BY <1>5 DEF Needed
  <2>8. Ends(S, 53, N)
    BY <2>4, <2>5, <2>6, <2>7, Zenon DEF Ends
  <2> HIDE DEF N, S
  <2>9. Lists(S, 53, N)
    BY <2>2, <2>8, Finished
  <2>10. QED BY <2>1, <2>7, <2>9, Zenon DEF S
<1>6. QED BY <1>4, <1>5

---------------------------------------------------------------------------
(* What the order is good for                                              *)

LEMMA PartsPlaced == Parts = Names
<1>1. Segment(Order, 0, 51) /\ Order \in Seq(Names)
  BY OrderPlaces DEF Segment
<1>2. Len(Order) = 51 /\ Loads \subseteq Names
  BY OrderPlaces DEF Loads, Names, Place, Segment
<1>3. DOMAIN Order = 1 .. Len(Order) /\ \A i \in DOMAIN Order : Order[i] \in Names
  BY <1>1
<1>4. ASSUME NEW p \in Names \ Loads PROVE p \in ToSet(Order)
  <2>1. 0 < Place[p] /\ Place[p] <= 0 + 51 /\ Place[p] - 0 \in 1 .. 51
    BY DEF Place, Names, Loads
  <2>2. Order[Place[p] - 0] = p
    BY <1>1, <2>1 DEF Segment
  <2>3. Place[p] - 0 \in DOMAIN Order
    BY <1>2, <1>3, <2>1
  <2>4. QED BY <2>2, <2>3 DEF ToSet
<1>5. ToSet(Order) \subseteq Names
  BY <1>3 DEF ToSet
<1>6. Parts = ToSet(Order) \cup Loads
  BY DEF Parts, Loads
<1>7. QED BY <1>2, <1>4, <1>5, <1>6

(* Nothing takes a field of what comes later, and nothing closes early.    *)
LEMMA PointersBefore ==
  ASSUME NEW p \in Names, NEW q \in Pointers[p]
  PROVE  q \in Names \ Loads /\ Place[q] < Place[p]
<1>1. q \in Names \ Loads
  BY PartsPlaced DEF Pointers, Names, Loads, Place
<1>2. Place[q] < Place[p]
  BY PartsPlaced DEF Pointers, Names, Place
<1>3. QED BY <1>1, <1>2

LEMMA ClosedLater ==
  ASSUME NEW p \in Names, NEW q \in ClosedBy[p]
  PROVE  Place[p] < Place[q]
BY PartsPlaced DEF ClosedBy, Names, Place

(* What is copied is a part.                                               *)
LEMMA CopiesPlaced == ASSUME NEW p \in Names PROVE Copies[p] \subseteq Names
BY PartsPlaced DEF Copies, Names, Place, Addressed

(* Every link of a call, contracts' in IBC apart, was built before the one *)
(* that holds a copy of it.                                                *)
LEMMA LinksBuilt ==
  ASSUME NEW c \in CallNames \ ContractIBC, NEW link \in Calls[c]
  PROVE  /\ link[1] \in Names \ Loads /\ link[2] \in Names \ Loads
         /\ link[2] \in Copies[link[1]] => Place[link[2]] < Place[link[1]]
<1>1. link[1] \in Names \ Loads /\ link[2] \in Names \ Loads
  BY DEF CallNames, ContractIBC, Calls, Names, Loads, Place, Addressed
<1>2. link[2] \in Copies[link[1]] => Place[link[2]] < Place[link[1]]
  BY <1>1, PartsPlaced DEF CallNames, ContractIBC, Calls, Names, Loads, Place, Addressed, Copies
<1>3. QED BY <1>1, <1>2

---------------------------------------------------------------------------
(* The invariant                                                           *)

(* What has been executed is the beginning of the statements, and each has *)
(* copied in vain what does not stand before it.                           *)
Reached(c, k) == {p \in Needed(c) : Place[p] <= k}
InVain(c, p) == {q \in Copies[p] : q \in Needed(c) => Place[p] <= Place[q]}
WiringInv ==
  /\ command \in Commands /\ status \in {"building", "running", "exited"}
  /\ \E k \in 0 .. Count(command) :
       /\ IsFiniteSet(done) /\ Cardinality(done) = k /\ done = Reached(command, k)
       /\ status = "running" => k = Count(command)
  /\ zero \in [Parts -> SUBSET Parts]
  /\ \A p \in Parts : zero[p] = IF p \in done THEN InVain(command, p) ELSE {}

(* A process begins with nothing built.                                    *)
LEMMA WiringInit ==
  ASSUME NEW c \in Commands, command' = c, done' = {}, zero' = [p \in Parts |-> {}],
         status' = "building"
  PROVE  WiringInv'
<1>1. \A p \in Needed(c) : Place[p] \in 1 .. Count(c)
  BY StatementPlaces DEF Lists
<1>2. Reached(c, 0) = {}
  BY <1>1 DEF Reached
<1>3. IsFiniteSet({}) /\ Cardinality({}) = 0 /\ 0 \in 0 .. Count(c) /\ 0 # Count(c)
  BY FS_EmptySet DEF Count
<1>4. QED BY <1>2, <1>3 DEF WiringInv

(* The next statement finds its place free and its pointers set.           *)
LEMMA CurrentIsLegal ==
  ASSUME WiringInv, status = "building", ~Complete
  PROVE  LET k == Cardinality(done) IN
         /\ k \in Nat /\ k + 1 \in 1 .. Count(command)
         /\ done = Reached(command, k) /\ IsFiniteSet(done)
         /\ Current \in Needed(command) /\ Place[Current] = k + 1
         /\ ~Illegal(Current)
<1> DEFINE k == Cardinality(done)
<1>1. k \in 0 .. Count(command) /\ done = Reached(command, k) /\ IsFiniteSet(done)
  BY DEF WiringInv
<1>2. Lists(Statements(command), Count(command), Needed(command))
  BY StatementPlaces
<1>3. k # Count(command) /\ Count(command) \in Nat
  BY <1>2 DEF Complete, Lists, Count
<1>4. k \in Nat /\ k + 1 \in 1 .. Count(command)
  BY <1>1, <1>3
<1>5. Current \in Needed(command) /\ Place[Current] = k + 1
  BY <1>2, <1>4 DEF Lists, Current
<1>6. Needed(command) \subseteq Names /\ Names \ Loads \subseteq Needed(command)
  BY DEF Needed, Loads
<1>7. \A p \in Names : Place[p] \in Nat
  BY DEF Names, Place
<1> HIDE DEF k
<1>8. ASSUME NEW q \in Pointers[Current] PROVE q \in done
  <2>1. q \in Names \ Loads /\ Place[q] < Place[Current]
    BY <1>5, <1>6, PointersBefore
  <2>2. QED BY <1>1, <1>4, <1>5, <1>6, <1>7, <2>1 DEF Reached
<1>9. ASSUME NEW q \in ClosedBy[Current] PROVE q \notin done
  <2>1. Place[Current] < Place[q]
    BY <1>5, <1>6, ClosedLater
  <2>2. QED BY <1>1, <1>4, <1>5, <1>6, <1>7, <2>1 DEF Reached
<1>10. ~Illegal(Current)
  BY <1>8, <1>9 DEF Illegal
<1>11. QED BY <1>1, <1>4, <1>5, <1>10 DEF k

LEMMA WiringExecute == WiringInv /\ Execute => WiringInv'
<1> SUFFICES ASSUME WiringInv, Execute PROVE WiringInv'
  OBVIOUS
<1> DEFINE k == Cardinality(done)
           p == Current
<1>1. /\ k \in Nat /\ k + 1 \in 1 .. Count(command)
      /\ done = Reached(command, k) /\ IsFiniteSet(done)
      /\ p \in Needed(command) /\ Place[p] = k + 1 /\ ~Illegal(p)
  BY CurrentIsLegal DEF Execute
<1>2. /\ status = "building" /\ status' = "building" /\ command' = command
      /\ done' = done \cup {p} /\ zero' = [zero EXCEPT ![p] = Copies[p] \ done]
  BY <1>1 DEF Execute
<1>3. Needed(command) \subseteq Names /\ \A q \in Names : Place[q] \in Nat
  BY DEF Needed, Names, Place
<1>4. \A q \in Needed(command) : Place[q] = k + 1 => q = p
  BY <1>1, StatementPlaces DEF Lists
<1> HIDE DEF p, k
<1>5. done' = Reached(command, k + 1)
  BY <1>1, <1>2, <1>3, <1>4 DEF Reached
<1>6. p \notin done
  BY <1>1 DEF Reached
<1>7. IsFiniteSet(done') /\ Cardinality(done') = k + 1
  BY <1>1, <1>2, <1>6, FS_AddElement DEF k
<1>8. p \in Parts /\ Copies[p] \subseteq Parts /\ zero \in [Parts -> SUBSET Parts]
  BY <1>1, <1>3, PartsPlaced, CopiesPlaced DEF WiringInv
<1>9. zero' \in [Parts -> SUBSET Parts]
  BY <1>2, <1>8
<1>10. ASSUME NEW r \in Parts
       PROVE  zero'[r] = IF r \in done' THEN InVain(command, r) ELSE {}
  <2>1. CASE r = p
    <3>1. zero'[r] = Copies[p] \ done /\ r \in done'
      BY <1>2, <1>8, <2>1
    <3>2. ASSUME NEW q PROVE q \in done <=> q \in Needed(command) /\ ~ (Place[p] <= Place[q])
      BY <1>1, <1>3 DEF Reached
    <3>3. Copies[p] \ done = InVain(command, p)
      BY <3>2 DEF InVain
    <3>4. QED BY <2>1, <3>1, <3>3
  <2>2. CASE r # p
    <3>1. zero'[r] = zero[r] /\ (r \in done' <=> r \in done)
      BY <1>2, <1>8, <2>2
    <3>2. QED BY <3>1 DEF WiringInv
  <2>3. QED BY <2>1, <2>2
<1>11. \E n \in 0 .. Count(command') :
         /\ IsFiniteSet(done') /\ Cardinality(done') = n /\ done' = Reached(command', n)
         /\ status' = "running" => n = Count(command')
  <2>1. k + 1 \in 0 .. Count(command') /\ Reached(command', k + 1) = Reached(command, k + 1)
    BY <1>1, <1>2 DEF Reached
  <2>2. QED BY <1>2, <1>5, <1>7, <2>1
<1>12. QED BY <1>2, <1>9, <1>10, <1>11 DEF WiringInv

LEMMA WiringStep ==
  ASSUME WiringInv, Next \/ Relaunch \/ UNCHANGED vars
  PROVE  WiringInv'
<1>1. CASE UNCHANGED vars
  BY <1>1 DEF WiringInv, vars, Reached
<1>2. CASE Relaunch
  BY <1>2, WiringInit DEF Relaunch
<1>3. CASE Execute
  BY <1>3, WiringExecute
<1>4. CASE Fail
  <2>1. UNCHANGED <<command, done, zero>> /\ status' = "exited"
    BY <1>4 DEF Fail
  <2>2. QED BY <2>1 DEF WiringInv, Reached
<1>5. CASE Return
  <2>1. UNCHANGED <<command, done, zero>> /\ status' = "running" /\ Complete
    BY <1>5 DEF Return
  <2>2. Cardinality(done) = Count(command)
    BY <2>1, StatementPlaces DEF Complete, Lists
  <2>3. QED BY <2>1, <2>2 DEF WiringInv, Reached
<1>6. QED BY <1>1, <1>2, <1>3, <1>4, <1>5 DEF Next

---------------------------------------------------------------------------
(* The theorems                                                            *)

LEMMA WiringInvariant == AppSpec => []WiringInv
<1>1. AppInit => WiringInv
  <2> SUFFICES ASSUME AppInit PROVE WiringInv
    OBVIOUS
  <2>1. \A p \in Needed(command) : Place[p] \in 1 .. Count(command)
    BY StatementPlaces DEF Lists
  <2>2. Reached(command, 0) = {}
    BY <2>1 DEF Reached
  <2>3. IsFiniteSet({}) /\ Cardinality({}) = 0 /\ 0 \in 0 .. Count(command)
    BY FS_EmptySet DEF Count
  <2>4. QED BY <2>2, <2>3 DEF WiringInv, AppInit, Init
<1>2. WiringInv /\ [AppNext]_<<vars, chainVars>> => WiringInv'
  <2> SUFFICES ASSUME WiringInv, [AppNext]_<<vars, chainVars>> PROVE WiringInv'
    OBVIOUS
  <2>1. Next \/ Relaunch \/ UNCHANGED vars
    BY Zenon DEF AppNext, Build, Start, ExportCommand, NewProcess
  <2>2. QED BY <2>1, WiringStep
<1>3. QED BY <1>1, <1>2, PTL DEF AppSpec

(* TypeOK of AppWiring: whatever the command, an application that New has  *)
(* returned has loaded a state.                                            *)
THEOREM ApplicationsAreLoaded == AppSpec => []TypeOK
<1>1. WiringInv => TypeOK
  <2> SUFFICES ASSUME WiringInv PROVE TypeOK
    OBVIOUS
  <2>1. done \subseteq Parts
    BY PartsPlaced DEF WiringInv, Reached, Needed
  <2>2. ASSUME status = "running"
        PROVE  IF command = "exportAt" THEN "LoadHeight" \in done
               ELSE {"Load", "PinnedCodes"} \subseteq done
    <3>1. done = Needed(command)
      BY <2>2, StatementPlaces DEF WiringInv, Reached, Lists
    <3>2. QED BY <3>1 DEF Needed, Names, Place
  <2>3. QED BY <2>1, <2>2 DEF WiringInv, TypeOK
<1>2. QED BY <1>1, WiringInvariant, PTL

(* NewNeverPanics, in every process that any chain of processes reaches.   *)
THEOREM ConstructionNeverPanics == AppSpec => []NewNeverPanics
<1>1. WiringInv => NewNeverPanics
  BY DEF WiringInv, NewNeverPanics
<1>2. QED BY <1>1, WiringInvariant, PTL

(* CallsFindTheirKeepers, likewise.                                        *)
THEOREM CallsAreWired == AppSpec => []CallsFindTheirKeepers
<1>1. WiringInv => CallsFindTheirKeepers
  <2> SUFFICES ASSUME WiringInv, status = "running", NEW c \in CallNames \ ContractIBC,
                      NEW link \in Calls[c]
               PROVE  Reaches(link)
    BY DEF CallsFindTheirKeepers, Works
  <2>1. done = Needed(command)
    BY StatementPlaces DEF WiringInv, Reached, Lists
  <2>2. /\ link[1] \in Names \ Loads /\ link[2] \in Names \ Loads
        /\ link[2] \in Copies[link[1]] => Place[link[2]] < Place[link[1]]
    BY LinksBuilt
  <2>3. link[1] \in done /\ link[2] \in done
    BY <2>1, <2>2 DEF Needed, Loads
  <2>4. \A q \in Names : Place[q] \in Nat
    BY DEF Names, Place
  <2>5. link[2] \notin InVain(command, link[1])
    BY <2>1, <2>2, <2>3, <2>4 DEF InVain
  <2>6. QED BY <2>2, <2>3, <2>5, PartsPlaced DEF Reaches, WiringInv
<1>2. QED BY <1>1, WiringInvariant, PTL

(* The other side of it: what contracts call in IBC fails in every         *)
(* application, the keepers that x/wasm was given are zero values for good.*)
THEOREM ContractsNeverReachIBC ==
  AppSpec => [](status = "running" => \A c \in ContractIBC : ~Works(c))
<1>1. WiringInv => (status = "running" => \A c \in ContractIBC : ~Works(c))
  <2> SUFFICES ASSUME WiringInv, status = "running", NEW c \in ContractIBC
               PROVE  ~Works(c)
    OBVIOUS
  <2>1. "Wasm" \in Names /\ Place["Wasm"] < Place["IBCFee"] /\ Place["Wasm"] < Place["Transfer"]
    BY DEF Names, Place
  <2>2. {"IBCFee", "Transfer"} \subseteq Copies["Wasm"]
    BY <2>1, PartsPlaced DEF Copies
  <2>3. {"IBCFee", "Transfer"} \subseteq InVain(command, "Wasm")
    BY <2>1, <2>2 DEF InVain, Names, Place
  <2>4. "Wasm" \in done => {"IBCFee", "Transfer"} \subseteq zero["Wasm"]
    BY <2>1, <2>3, PartsPlaced DEF WiringInv
  <2>5. ~Reaches(<<"Wasm", "IBCFee">>) /\ ~Reaches(<<"Wasm", "Transfer">>)
    BY <2>4 DEF Reaches
  <2>6. \E x \in {"IBCFee", "Transfer"} : <<"Wasm", x>> \in Calls[c]
    BY DEF ContractIBC, Calls
  <2>7. QED BY <2>5, <2>6 DEF Works
<1>2. QED BY <1>1, WiringInvariant, PTL

(* Seen from the chain, the processes are only blocks, restarts and        *)
(* exports.  That is how AppNext composes them, whatever New has built.    *)
LEMMA ApplicationRunsTheChain == AppSpec => ChainSpec
<1>1. AppInit => ChainInit
  BY DEF AppInit
<1>2. [AppNext]_<<vars, chainVars>> => [ChainNext]_chainVars
  BY Zenon DEF AppNext, Build, Start, ExportCommand, NewProcess, ChainNext
<1>3. QED BY <1>1, <1>2, PTL DEF AppSpec, ChainSpec

(* So every process, however many there were before it and whatever ended  *)
(* them, works on sound books, with the permissions and the capabilities   *)
(* it needs, and slashes when the fees are distributed.                    *)
THEOREM ApplicationKeepsTheChain ==
  AppSpec => /\ [](ChainTypeOK /\ NothingIsMissing /\ BooksBalance /\ PermissionsSuffice)
             /\ NothingLeftOver
BY ApplicationRunsTheChain, FlowTypes, GenesisCompletes, BooksAlwaysBalance,
   NoPermissionMissing, FeesBeforeSlashing, PTL
==========================================================================
