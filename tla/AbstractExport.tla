-------------------------- MODULE AbstractExport --------------------------
(***************************************************************************)
(* What `Neutaro export` amounts to.  The state a new chain starts from is *)
(* the old one after a single step: for height 0 everybody is paid what is *)
(* his in whole coins, the community pool has all the rest but for the     *)
(* commissions that the bank would not pay out, nobody gains or loses a    *)
(* seat, and whoever an allow list bars is jailed.                         *)
(*                                                                         *)
(* There are no loops, periods, reference counts and outstanding rewards   *)
(* here: ZeroHeightExport has them and implements this.                    *)
(***************************************************************************)
EXTENDS Naturals

CONSTANTS
  Validators,
  Strangers,  \* entries of an allow list that name no validator ...
  Malformed   \* ... or are no address at all

VARIABLES
  phase,    \* "asked", "done", "panicked" or "exited"
  zero,     \* forZeroHeight
  allowed,  \* jailAllowedAddrs
  closes,   \* the store's iterator closes without an error
  coins,    \* what x/distribution holds; after an export, the community pool
  payable,  \* how much of it can be paid out
  refused,  \* how much of it are commissions that cannot
  paid,     \* how much of it was paid out
  seats,    \* the bonded validators
  jailed    \* the jailed ones

request == <<zero, allowed, closes>>
money == <<coins, payable, paid>>
vars == <<phase, request, money, refused, seats, jailed>>

Init ==
  /\ phase = "asked"
  /\ {zero, closes} \subseteq BOOLEAN /\ allowed \subseteq Validators \cup Strangers
  /\ coins \in Nat /\ payable \in 0 .. coins /\ refused \in 0 .. coins - payable
  /\ paid = 0
  /\ jailed \subseteq Validators /\ seats \subseteq Validators \ jailed

Barred == IF zero /\ allowed # {} THEN Validators \ allowed ELSE {}
Readable == zero => allowed \cap Malformed = {}

(* What the bank refuses of the commissions is nobody's afterwards.        *)
PayOut == coins' = coins - payable - refused /\ payable' = 0 /\ paid' = payable

(* Nobody is barred who has a seat, unless the election did not take place.*)
Export ==
  /\ phase = "asked" /\ phase' = "done"
  /\ Readable
  /\ closes => Barred \cap seats = {}
  /\ jailed' = jailed \cup Barred
  /\ IF zero THEN PayOut ELSE UNCHANGED money
  /\ UNCHANGED <<request, refused, seats>>

(* There is no genesis when somebody is barred who was not jailed.         *)
Panic ==
  /\ phase = "asked" /\ phase' = "panicked"
  /\ Readable /\ closes /\ ~ (Barred \subseteq jailed)
  /\ UNCHANGED <<request, money, refused, seats, jailed>>

(* Nor when the list holds what is no address.                             *)
Exit ==
  /\ phase = "asked" /\ phase' = "exited"
  /\ ~Readable
  /\ UNCHANGED <<request, money, refused, seats, jailed>>

Next == Export \/ Panic \/ Exit

Spec == Init /\ [][Next]_vars
===========================================================================
