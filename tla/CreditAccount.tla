---------------------------- MODULE CreditAccount ----------------------------
(***************************************************************************)
(* The credit account of one organization, one action per operation of     *)
(* apps/api/src/services/credits.ts, each operation being one committed    *)
(* transaction.  It is the promise the rest of the system relies on: the   *)
(* statement-level model CreditTx implements it, and Inference uses its    *)
(* operations.                                                             *)
(*                                                                         *)
(* Rows have numbers instead of UUIDs, so that a table is a function on an *)
(* interval and a column can be summed.  The account row exists from the   *)
(* start: registerUser inserts it with the organization.                   *)
(*                                                                         *)
(* Left out: users, timestamps, audit rows and the reservation deadline;   *)
(* any reserved row may expire here (module Inference keeps the deadline). *)
(***************************************************************************)
EXTENDS Pricing, Totals, Sequences

CONSTANTS
  MaxReservations,   \* rows of credit_reservations the model may insert
  MaxPurchases,      \* rows of purchases the model may insert
  Tokens,            \* token counts a request may ask for or a model report
  PurchaseSizes,     \* credits a purchase may be for
  Events             \* provider_event_ids the billing provider may send

ASSUME BoundsAssumption == MaxReservations \in Nat /\ MaxPurchases \in Nat
ASSUME TokensAssumption == Tokens \subseteq Nat
ASSUME PurchaseSizesAssumption == PurchaseSizes \subseteq Nat \ {0}

VARIABLES
  account,        \* the row of org_credit_accounts
  reservations,   \* credit_reservations
  purchases,      \* purchases
  events,         \* webhook_events
  ledger          \* credit_ledger in the order of commit

vars == <<account, reservations, purchases, events, ledger>>

ReservationIds == 1..MaxReservations
PurchaseIds == 1..MaxPurchases

Terminal == {"settled", "released", "expired"}
MovementKinds == {"purchase", "reservation", "settlement", "release", "expiry"}

Account == [available : Nat, reserved : Nat]
Reservation == [status : {"none", "reserved"} \cup Terminal,
                reserved_credits : Nat,
                settled_credits : Nat]
Purchase == [status : {"none", "pending", "completed"}, credits : Nat]
Movement == [kind : MovementKinds, row : Nat, delta_available : Int, delta_reserved : Int]

TypeOK ==
  /\ account \in Account
  /\ reservations \in [ReservationIds -> Reservation]
  /\ purchases \in [PurchaseIds -> Purchase]
  /\ events \in [Events -> {"unseen", "recorded", "processed"}]
  /\ ledger \in Seq(Movement)

NoReservation == [status |-> "none", reserved_credits |-> 0, settled_credits |-> 0]
NoPurchase == [status |-> "none", credits |-> 0]

Init ==
  /\ account = [available |-> 0, reserved |-> 0]
  /\ reservations = [r \in ReservationIds |-> NoReservation]
  /\ purchases = [p \in PurchaseIds |-> NoPurchase]
  /\ events = [e \in Events |-> "unseen"]
  /\ ledger = <<>>

-----------------------------------------------------------------------------
(* One row of the ledger goes with every change of the account. *)
Entry(kind, row, available, reserved) ==
  [kind |-> kind, row |-> row,
   delta_available |-> available, delta_reserved |-> reserved]

\* A plausible bug: an account changed without its ledger row.
MoveUnrecorded(entry) ==
  /\ account' = [available |-> account.available + entry.delta_available,
                 reserved  |-> account.reserved + entry.delta_reserved]
  /\ UNCHANGED ledger

Move(entry) ==
  /\ account' = [available |-> account.available + entry.delta_available,
                 reserved  |-> account.reserved + entry.delta_reserved]
  /\ ledger' = Append(ledger, entry)

(* reserve: the guarded UPDATE of the account, a new reservation row and   *)
(* its ledger row.  Too small a balance changes nothing (the caller        *)
(* answers 402).                                                           *)
\* A plausible bug: the UPDATE has lost its WHERE available >= $1.
ReserveUnchecked(r, maxTotalTokens) ==
  LET credits == calculateCreditsFromTokens(maxTotalTokens) IN
  /\ reservations[r].status = "none"
  /\ Move(Entry("reservation", r, -credits, credits))
  /\ reservations' = [reservations EXCEPT ![r] =
       [status |-> "reserved", reserved_credits |-> credits, settled_credits |-> 0]]
  /\ UNCHANGED <<purchases, events>>

Reserve(r, maxTotalTokens) ==
  LET credits == calculateCreditsFromTokens(maxTotalTokens) IN
  /\ reservations[r].status = "none"
  /\ account.available >= credits
  /\ Move(Entry("reservation", r, -credits, credits))
  /\ reservations' = [reservations EXCEPT ![r] =
       [status |-> "reserved", reserved_credits |-> credits, settled_credits |-> 0]]
  /\ UNCHANGED <<purchases, events>>

SettledCredits(r, actualTotalTokens) ==
  Lesser(reservations[r].reserved_credits, calculateCreditsFromTokens(actualTotalTokens))

(* settle: charge what was used, at most what was held, refund the rest.   *)
(* The account UPDATE is guarded by reserved >= held; without that the     *)
(* operation throws and nothing is committed.                              *)
\* Two plausible bugs: a reservation that is over is settled, and the refund is forgotten.
SettleAnyway(r, actualTotalTokens) ==
  LET held == reservations[r].reserved_credits
      settled == SettledCredits(r, actualTotalTokens)
  IN
  /\ reservations[r].status # "none"
  /\ account.reserved >= held
  /\ Move(Entry("settlement", r, held - settled, -held))
  /\ reservations' = [reservations EXCEPT ![r].status = "settled",
                                          ![r].settled_credits = settled]
  /\ UNCHANGED <<purchases, events>>

SettleWithoutRefund(r, actualTotalTokens) ==
  LET held == reservations[r].reserved_credits IN
  /\ reservations[r].status = "reserved"
  /\ account.reserved >= held
  /\ Move(Entry("settlement", r, 0, -held))
  /\ reservations' = [reservations EXCEPT ![r].status = "settled",
                         ![r].settled_credits = SettledCredits(r, actualTotalTokens)]
  /\ UNCHANGED <<purchases, events>>

Settle(r, actualTotalTokens) ==
  LET held == reservations[r].reserved_credits
      settled == SettledCredits(r, actualTotalTokens)
  IN
  /\ reservations[r].status = "reserved"
  /\ account.reserved >= held
  /\ Move(Entry("settlement", r, held - settled, -held))
  /\ reservations' = [reservations EXCEPT ![r].status = "settled",
                                          ![r].settled_credits = settled]
  /\ UNCHANGED <<purchases, events>>

(* release and expire: give everything back; they differ in the names they *)
(* leave behind.                                                           *)
\* A plausible bug: the UPDATE has lost its WHERE status = 'reserved'.
GiveBackAgain(r, status, kind) ==
  LET held == reservations[r].reserved_credits IN
  /\ reservations[r].status # "none"
  /\ account.reserved >= held
  /\ Move(Entry(kind, r, held, -held))
  /\ reservations' = [reservations EXCEPT ![r].status = status]
  /\ UNCHANGED <<purchases, events>>

GiveBack(r, status, kind) ==
  LET held == reservations[r].reserved_credits IN
  /\ reservations[r].status = "reserved"
  /\ account.reserved >= held
  /\ Move(Entry(kind, r, held, -held))
  /\ reservations' = [reservations EXCEPT ![r].status = status]
  /\ UNCHANGED <<purchases, events>>

Release(r) == GiveBack(r, "released", "release")
Expire(r) == GiveBack(r, "expired", "expiry")

CreatePurchase(p, credits) ==
  /\ purchases[p].status = "none"
  /\ purchases' = [purchases EXCEPT ![p] = [status |-> "pending", credits |-> credits]]
  /\ UNCHANGED <<account, reservations, events, ledger>>

(* applyPurchase for a new event and a pending purchase.  An event seen    *)
(* before changes nothing; a purchase that is no longer pending makes the  *)
(* operation throw, and the event is rolled back with it.                  *)
\* A plausible bug: only the event id, and not the purchase's status, is looked at.
ApplyPurchaseAgain(p, e) ==
  /\ events[e] = "unseen"
  /\ purchases[p].status # "none"
  /\ purchases' = [purchases EXCEPT ![p].status = "completed"]
  /\ Move(Entry("purchase", p, purchases[p].credits, 0))
  /\ events' = [events EXCEPT ![e] = "processed"]
  /\ UNCHANGED reservations

ApplyPurchase(p, e) ==
  /\ events[e] = "unseen"
  /\ purchases[p].status = "pending"
  /\ purchases' = [purchases EXCEPT ![p].status = "completed"]
  /\ Move(Entry("purchase", p, purchases[p].credits, 0))
  /\ events' = [events EXCEPT ![e] = "processed"]
  /\ UNCHANGED reservations

(* applyPurchase for a new event that names no known purchase: the event   *)
(* is kept, so that a later delivery of it is a duplicate.                 *)
RecordEvent(e) ==
  /\ events[e] = "unseen"
  /\ events' = [events EXCEPT ![e] = "recorded"]
  /\ UNCHANGED <<account, reservations, purchases, ledger>>

Next ==
  \/ \E r \in ReservationIds, t \in Tokens \ {0} : Reserve(r, t)
  \/ \E r \in ReservationIds, t \in Tokens : Settle(r, t)
  \/ \E r \in ReservationIds : Release(r)
  \/ \E r \in ReservationIds : Expire(r)
  \/ \E p \in PurchaseIds, c \in PurchaseSizes : CreatePurchase(p, c)
  \/ \E p \in PurchaseIds, e \in Events : ApplyPurchase(p, e)
  \/ \E e \in Events : RecordEvent(e)

Spec == Init /\ [][Next]_vars

-----------------------------------------------------------------------------
(* Sums over the tables. *)
Held(table) ==
  [r \in ReservationIds |->
     IF table[r].status = "reserved" THEN table[r].reserved_credits ELSE 0]
Charged(table) == [r \in ReservationIds |-> table[r].settled_credits]
Bought(table) ==
  [p \in PurchaseIds |-> IF table[p].status = "completed" THEN table[p].credits ELSE 0]
DeltaAvailable(rows) == [i \in 1..Len(rows) |-> rows[i].delta_available]
DeltaReserved(rows) == [i \in 1..Len(rows) |-> rows[i].delta_reserved]

(* SUM(ledger.delta) = account.balance, the identity known-traps.md 7 and  *)
(* the load harness ask for.                                               *)
LedgerReconciles ==
  /\ account.available = Total(DeltaAvailable(ledger), Len(ledger))
  /\ account.reserved = Total(DeltaReserved(ledger), Len(ledger))

(* The reserved balance is what the live reservations hold. *)
ReservedIsHeld ==
  account.reserved = Total(Held(reservations), MaxReservations)

(* The guard reserved >= held of settle and release never refuses a live   *)
(* reservation: "release failed: insufficient reserved credits" cannot be  *)
(* thrown, so no hold is stuck for ever.                                   *)
RefundCovered ==
  \A r \in ReservationIds :
    reservations[r].status = "reserved"
      => account.reserved >= reservations[r].reserved_credits

(* No credit appears or vanishes: what was bought is available, held or    *)
(* charged for.                                                            *)
CreditsConserved ==
  account.available + account.reserved + Total(Charged(reservations), MaxReservations)
    = Total(Bought(purchases), MaxPurchases)

EndMovement(status) ==
  CASE status = "settled" -> "settlement"
    [] status = "released" -> "release"
    [] status = "expired" -> "expiry"

EndsIn(i, r) ==
  ledger[i].row = r /\ ledger[i].kind \in {"settlement", "release", "expiry"}

(* A reservation has one closing row in the ledger when it is over, of the *)
(* kind its status names, and none before: no refund is paid twice and no  *)
(* charged reservation is refunded.                                        *)
ClosedOnce ==
  /\ \A i, j \in 1..Len(ledger), r \in ReservationIds :
       EndsIn(i, r) /\ EndsIn(j, r) => i = j
  /\ \A i \in 1..Len(ledger), r \in ReservationIds :
       EndsIn(i, r) => /\ reservations[r].status \in Terminal
                       /\ ledger[i].kind = EndMovement(reservations[r].status)
  /\ \A r \in ReservationIds :
       reservations[r].status \in Terminal => \E i \in 1..Len(ledger) : EndsIn(i, r)

(* A purchase is credited once, and only when it is completed. *)
CreditedOnce ==
  /\ \A i, j \in 1..Len(ledger) :
       /\ ledger[i].kind = "purchase"
       /\ ledger[j].kind = "purchase"
       /\ ledger[i].row = ledger[j].row
       => i = j
  /\ \A i \in 1..Len(ledger), p \in PurchaseIds :
       ledger[i].kind = "purchase" /\ ledger[i].row = p => purchases[p].status = "completed"

(* What is over stays over: neither the sweeper nor a late handler changes *)
(* a reservation that another one ended.                                   *)
TerminalIsFinal ==
  [][\A r \in ReservationIds :
       reservations[r].status \in Terminal => reservations'[r] = reservations[r]]_vars
=============================================================================
