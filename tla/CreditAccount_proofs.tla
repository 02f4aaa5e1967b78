------------------------- MODULE CreditAccount_proofs -------------------------
(***************************************************************************)
(* The invariants of CreditAccount for every number of rows, every set of  *)
(* token counts and purchase sizes, and ledgers of every length.           *)
(***************************************************************************)
EXTENDS CreditAccount, Totals_proofs, SequenceTheorems

(* A row that was not settled has not been charged for. *)
UnsettledIsFree ==
  \A r \in ReservationIds :
    reservations[r].status # "settled" => reservations[r].settled_credits = 0

(* The inductive invariant.  The balances are only known to suffice because *)
(* they are sums, and a settled row only adds its charge to a sum in which  *)
(* it counted for nothing.                                                  *)
Balanced ==
  /\ TypeOK
  /\ UnsettledIsFree
  /\ LedgerReconciles
  /\ ReservedIsHeld
  /\ CreditsConserved

-----------------------------------------------------------------------------
LEMMA CreditsType ==
  ASSUME NEW t \in Nat
  PROVE  calculateCreditsFromTokens(t) \in Nat \ {0}
BY DEF calculateCreditsFromTokens, StartedThousands, TokensPerCredit

(* The price of a number of tokens is the least number of credits, and at  *)
(* least one, that pays for them at a thousand tokens each: more tokens    *)
(* never cost less (pricing.ts).                                           *)
THEOREM PriceIsLeast ==
  \A t \in Nat :
    LET price == calculateCreditsFromTokens(t) IN
    /\ price >= 1 /\ TokensPerCredit * price >= t
    /\ \A n \in Nat : n >= 1 /\ TokensPerCredit * n >= t => n >= price
    /\ \A more \in Nat : more >= t => calculateCreditsFromTokens(more) >= price
<1> SUFFICES ASSUME NEW t \in Nat
             PROVE  /\ calculateCreditsFromTokens(t) >= 1
                    /\ 1000 * calculateCreditsFromTokens(t) >= t
                    /\ \A n \in Nat : n >= 1 /\ 1000 * n >= t => n >= calculateCreditsFromTokens(t)
                    /\ \A more \in Nat : more >= t
                         => calculateCreditsFromTokens(more) >= calculateCreditsFromTokens(t)
  BY DEF TokensPerCredit
<1> USE DEF calculateCreditsFromTokens, StartedThousands, TokensPerCredit
<1>1. \A u \in Nat : /\ StartedThousands(u) \in Nat /\ 1000 * StartedThousands(u) >= u
                      /\ 1000 * StartedThousands(u) < u + 1000
  OBVIOUS
<1> HIDE DEF StartedThousands
<1>2. ASSUME NEW n \in Nat, n >= 1, 1000 * n >= t PROVE n >= calculateCreditsFromTokens(t)
  <2>1. 1000 * StartedThousands(t) < 1000 * n + 1000
    BY <1>1, <1>2
  <2>2. StartedThousands(t) \in Nat /\ StartedThousands(t) < n + 1
    BY <1>1, <2>1
  <2> QED
    BY <1>2, <2>2
<1>3. ASSUME NEW more \in Nat, more >= t
      PROVE  calculateCreditsFromTokens(more) >= calculateCreditsFromTokens(t)
  <2>1. 1000 * StartedThousands(more) >= t /\ StartedThousands(more) \in Nat
    BY <1>1, <1>3
  <2>2. 1000 * StartedThousands(t) < 1000 * StartedThousands(more) + 1000
    BY <1>1, <2>1
  <2>3. StartedThousands(t) \in Nat /\ StartedThousands(t) < StartedThousands(more) + 1
    BY <1>1, <2>1, <2>2
  <2> QED
    BY <2>1, <2>3
<1>4. calculateCreditsFromTokens(t) >= 1 /\ 1000 * calculateCreditsFromTokens(t) >= t
  <2>1. StartedThousands(t) \in Nat /\ 1000 * StartedThousands(t) >= t
    BY <1>1
  <2>2. CASE StartedThousands(t) > 1
    BY <2>1, <2>2
  <2>3. CASE ~ (StartedThousands(t) > 1)
    <3>1. calculateCreditsFromTokens(t) = 1
      BY <2>3
    <3> QED
      BY <2>1, <2>3, <3>1
  <2> QED
    BY <2>2, <2>3
<1> HIDE DEF calculateCreditsFromTokens
<1> QED
  BY <1>2, <1>3, <1>4

LEMMA LesserType ==
  ASSUME NEW a \in Nat, NEW b \in Nat
  PROVE  Lesser(a, b) \in Nat /\ Lesser(a, b) <= a
BY DEF Lesser

(* Appending an entry adds its deltas to the column sums. *)
LEMMA EntryAdds ==
  ASSUME NEW rows \in Seq(Movement), NEW entry \in Movement
  PROVE  LET longer == Append(rows, entry) IN
         /\ longer \in Seq(Movement)
         /\ Total(DeltaAvailable(longer), Len(longer))
              = Total(DeltaAvailable(rows), Len(rows)) + entry.delta_available
         /\ Total(DeltaReserved(longer), Len(longer))
              = Total(DeltaReserved(rows), Len(rows)) + entry.delta_reserved
<1> DEFINE longer == Append(rows, entry)
           n == Len(rows)
<1>1. /\ longer \in Seq(Movement)
      /\ Len(longer) = n + 1
      /\ n \in Nat
      /\ \A i \in 1..n : longer[i] = rows[i]
      /\ longer[n + 1] = entry
  BY AppendProperties
<1>2. /\ \A i \in 1..n : rows[i] \in Movement
      /\ \A i \in 1..n + 1 : longer[i] \in Movement
  BY <1>1, ElementOfSeq
<1> HIDE DEF longer, n
<1>3. Total(DeltaAvailable(longer), n + 1)
        = Total(DeltaAvailable(rows), n) + entry.delta_available
  <2>1. DeltaAvailable(rows) \in [1..n -> Int] /\ DeltaAvailable(longer) \in [1..n + 1 -> Int]
    BY <1>1, <1>2 DEF DeltaAvailable, Movement, n
  <2>2. \A i \in 1..n : DeltaAvailable(longer)[i] = DeltaAvailable(rows)[i]
    BY <1>1 DEF DeltaAvailable, n
  <2>3. DeltaAvailable(longer)[n + 1] = entry.delta_available
    BY <1>1 DEF DeltaAvailable
  <2> QED
    BY <1>1, <2>1, <2>2, <2>3, TotalOfInsert
<1>4. Total(DeltaReserved(longer), n + 1)
        = Total(DeltaReserved(rows), n) + entry.delta_reserved
  <2>1. DeltaReserved(rows) \in [1..n -> Int] /\ DeltaReserved(longer) \in [1..n + 1 -> Int]
    BY <1>1, <1>2 DEF DeltaReserved, Movement, n
  <2>2. \A i \in 1..n : DeltaReserved(longer)[i] = DeltaReserved(rows)[i]
    BY <1>1 DEF DeltaReserved, n
  <2>3. DeltaReserved(longer)[n + 1] = entry.delta_reserved
    BY <1>1 DEF DeltaReserved
  <2> QED
    BY <1>1, <2>1, <2>2, <2>3, TotalOfInsert
<1> QED
  BY <1>1, <1>3, <1>4 DEF longer, n

(* A move keeps the balances equal to the ledger's sums. *)
LEMMA MoveReconciles ==
  ASSUME TypeOK, LedgerReconciles, NEW entry \in Movement, Move(entry)
  PROVE  /\ LedgerReconciles'
         /\ ledger' \in Seq(Movement)
         /\ account'.available = account.available + entry.delta_available
         /\ account'.reserved = account.reserved + entry.delta_reserved
<1>1. ledger' = Append(ledger, entry)
  BY DEF Move
<1>2. /\ account'.available = account.available + entry.delta_available
      /\ account'.reserved = account.reserved + entry.delta_reserved
  BY DEF Move
<1>3. ledger \in Seq(Movement)
  BY DEF TypeOK
<1>4. /\ ledger' \in Seq(Movement)
      /\ Total(DeltaAvailable(ledger'), Len(ledger'))
           = Total(DeltaAvailable(ledger), Len(ledger)) + entry.delta_available
      /\ Total(DeltaReserved(ledger'), Len(ledger'))
           = Total(DeltaReserved(ledger), Len(ledger)) + entry.delta_reserved
  BY <1>1, <1>3, EntryAdds
<1> QED
  BY <1>2, <1>4 DEF LedgerReconciles, DeltaAvailable, DeltaReserved

(* The columns summed below are tables of naturals. *)
LEMMA ColumnTypes ==
  ASSUME TypeOK
  PROVE  /\ Held(reservations) \in [1..MaxReservations -> Nat]
         /\ Charged(reservations) \in [1..MaxReservations -> Nat]
         /\ Bought(purchases) \in [1..MaxPurchases -> Nat]
BY DEF TypeOK, Held, Charged, Bought, Reservation, Purchase, ReservationIds, PurchaseIds

(* Replacing one reservation moves the two column sums by that row. *)
LEMMA ReservationUpdate ==
  ASSUME TypeOK, NEW r \in ReservationIds, NEW row \in Reservation,
         reservations' = [reservations EXCEPT ![r] = row]
  PROVE  /\ reservations' \in [ReservationIds -> Reservation]
         /\ Total(Held(reservations'), MaxReservations)
              = Total(Held(reservations), MaxReservations)
                  + (IF row.status = "reserved" THEN row.reserved_credits ELSE 0)
                  - (IF reservations[r].status = "reserved"
                       THEN reservations[r].reserved_credits ELSE 0)
         /\ Total(Charged(reservations'), MaxReservations)
              = Total(Charged(reservations), MaxReservations)
                  + row.settled_credits - reservations[r].settled_credits
<1>1. reservations' \in [ReservationIds -> Reservation]
  BY DEF TypeOK
<1>2. /\ Held(reservations) \in [1..MaxReservations -> Int]
      /\ Held(reservations') \in [1..MaxReservations -> Int]
      /\ Charged(reservations) \in [1..MaxReservations -> Int]
      /\ Charged(reservations') \in [1..MaxReservations -> Int]
  BY <1>1 DEF TypeOK, Held, Charged, Reservation, ReservationIds
<1>3. /\ \A i \in 1..MaxReservations : i # r => Held(reservations')[i] = Held(reservations)[i]
      /\ \A i \in 1..MaxReservations :
           i # r => Charged(reservations')[i] = Charged(reservations)[i]
  BY DEF TypeOK, Held, Charged, ReservationIds
<1>4. /\ Held(reservations')[r] = IF row.status = "reserved" THEN row.reserved_credits ELSE 0
      /\ Held(reservations)[r] = IF reservations[r].status = "reserved"
                                   THEN reservations[r].reserved_credits ELSE 0
      /\ Charged(reservations')[r] = row.settled_credits
      /\ Charged(reservations)[r] = reservations[r].settled_credits
  BY DEF TypeOK, Held, Charged
<1>5. MaxReservations \in Nat /\ r \in 1..MaxReservations
  BY BoundsAssumption DEF ReservationIds
<1>6. Total(Held(reservations'), MaxReservations)
        = Total(Held(reservations), MaxReservations)
            + Held(reservations')[r] - Held(reservations)[r]
  BY <1>2, <1>3, <1>5, TotalOfUpdate
<1>7. Total(Charged(reservations'), MaxReservations)
        = Total(Charged(reservations), MaxReservations)
            + Charged(reservations')[r] - Charged(reservations)[r]
  BY <1>2, <1>3, <1>5, TotalOfUpdate
<1> QED
  BY <1>1, <1>4, <1>6, <1>7

-----------------------------------------------------------------------------
(* Each step preserves Balanced. *)
LEMMA ReserveBalanced ==
  ASSUME Balanced, NEW r \in ReservationIds, NEW t \in Tokens, Reserve(r, t)
  PROVE  Balanced'
<1> DEFINE credits == calculateCreditsFromTokens(t)
           entry == Entry("reservation", r, -credits, credits)
           row == [status |-> "reserved", reserved_credits |-> credits, settled_credits |-> 0]
<1>1. credits \in Nat
  BY TokensAssumption, CreditsType
<1> HIDE DEF credits
<1>2. /\ reservations[r].status = "none"
      /\ account.available >= credits
      /\ Move(entry)
      /\ reservations' = [reservations EXCEPT ![r] = row]
      /\ UNCHANGED <<purchases, events>>
  BY DEF Reserve, credits
<1>3. entry \in Movement /\ entry.delta_available = -credits /\ entry.delta_reserved = credits
  BY <1>1 DEF Entry, Movement, MovementKinds, ReservationIds
<1>4. /\ row \in Reservation
      /\ row.status = "reserved" /\ row.reserved_credits = credits /\ row.settled_credits = 0
  BY <1>1 DEF Reservation
<1> HIDE DEF entry, row
<1>5. /\ LedgerReconciles'
      /\ ledger' \in Seq(Movement)
      /\ account'.available = account.available - credits
      /\ account'.reserved = account.reserved + credits
  <2>1. account.available \in Nat
    BY DEF Balanced, TypeOK, Account
  <2> QED
    BY <1>1, <1>2, <1>3, <2>1, MoveReconciles DEF Balanced
<1>6. /\ reservations' \in [ReservationIds -> Reservation]
      /\ Total(Held(reservations'), MaxReservations)
           = Total(Held(reservations), MaxReservations) + credits
      /\ Total(Charged(reservations'), MaxReservations)
           = Total(Charged(reservations), MaxReservations)
  <2>1. reservations[r].settled_credits = 0
    BY <1>2 DEF Balanced, UnsettledIsFree
  <2>2. Total(Held(reservations), MaxReservations) \in Int
        /\ Total(Charged(reservations), MaxReservations) \in Int
    BY ColumnTypes, TotalType, BoundsAssumption DEF Balanced
  <2>3. /\ reservations' \in [ReservationIds -> Reservation]
        /\ Total(Held(reservations'), MaxReservations)
             = Total(Held(reservations), MaxReservations) + credits - 0
        /\ Total(Charged(reservations'), MaxReservations)
             = Total(Charged(reservations), MaxReservations) + 0 - 0
    BY <1>2, <1>4, <2>1, ReservationUpdate DEF Balanced
  <2> QED
    BY <1>1, <2>2, <2>3
<1>7. TypeOK'
  <2>1. account' \in Account
    BY <1>1, <1>2, <1>5 DEF Balanced, TypeOK, Account, Move
  <2> QED
    BY <1>2, <1>5, <1>6, <2>1 DEF Balanced, TypeOK
<1>8. UnsettledIsFree'
  BY <1>2, <1>4 DEF Balanced, TypeOK, UnsettledIsFree
<1>9. ReservedIsHeld'
  BY <1>5, <1>6 DEF Balanced, ReservedIsHeld
<1>10. CreditsConserved'
  <2>1. account.available \in Nat /\ account.reserved \in Nat
    BY DEF Balanced, TypeOK, Account
  <2>2. Total(Charged(reservations), MaxReservations) \in Int
    BY ColumnTypes, TotalType, BoundsAssumption DEF Balanced
  <2> QED
    BY <1>1, <1>2, <1>5, <1>6, <2>1, <2>2 DEF Balanced, CreditsConserved
<1> QED
  BY <1>5, <1>7, <1>8, <1>9, <1>10 DEF Balanced

LEMMA SettledRow ==
  ASSUME NEW x \in Reservation, NEW c
  PROVE  [x EXCEPT !.status = "settled", !.settled_credits = c]
           = [status |-> "settled", reserved_credits |-> x.reserved_credits,
              settled_credits |-> c]
<1> DEFINE y == [x EXCEPT !.status = "settled"]
<1>1. y = [status |-> "settled", reserved_credits |-> x.reserved_credits,
           settled_credits |-> x.settled_credits]
  BY DEF Reservation
<1>2. [x EXCEPT !.status = "settled", !.settled_credits = c] = [y EXCEPT !.settled_credits = c]
  BY DEF Reservation
<1> HIDE DEF y
<1>3. [y EXCEPT !.settled_credits = c]
        = [status |-> "settled", reserved_credits |-> x.reserved_credits,
           settled_credits |-> c]
  BY <1>1
<1> QED
  BY <1>2, <1>3

(* Settling, releasing and expiring all close a reservation: what it held  *)
(* leaves the reserved balance, a part is charged and the rest returned.   *)
LEMMA CloseBalanced ==
  ASSUME Balanced, NEW r \in ReservationIds, NEW status \in Terminal,
         NEW kind \in MovementKinds, NEW charge \in Nat,
         reservations[r].status = "reserved",
         charge <= reservations[r].reserved_credits,
         status # "settled" => charge = 0,
         account.reserved >= reservations[r].reserved_credits,
         Move(Entry(kind, r, reservations[r].reserved_credits - charge,
                    -reservations[r].reserved_credits)),
         reservations' = [reservations EXCEPT ![r] =
           [status |-> status, reserved_credits |-> reservations[r].reserved_credits,
            settled_credits |-> charge]],
         UNCHANGED <<purchases, events>>
  PROVE  Balanced'
<1> DEFINE held == reservations[r].reserved_credits
           entry == Entry(kind, r, held - charge, -held)
           row == [status |-> status, reserved_credits |-> held, settled_credits |-> charge]
<1>1. held \in Nat /\ reservations[r].settled_credits = 0
  BY DEF Balanced, TypeOK, Reservation, UnsettledIsFree
<1>2. entry \in Movement /\ entry.delta_available = held - charge /\ entry.delta_reserved = -held
  BY <1>1 DEF Entry, Movement, ReservationIds
<1>3. /\ row \in Reservation
      /\ row.status # "reserved" /\ row.status = status /\ row.settled_credits = charge
  BY <1>1 DEF Reservation, Terminal
<1>4. Move(entry) /\ reservations' = [reservations EXCEPT ![r] = row]
  OBVIOUS
<1>5. account.available \in Nat /\ account.reserved \in Nat
  BY DEF Balanced, TypeOK, Account
<1>6. Total(Held(reservations), MaxReservations) \in Int
      /\ Total(Charged(reservations), MaxReservations) \in Int
  BY ColumnTypes, TotalType, BoundsAssumption DEF Balanced
<1>7. held <= account.reserved
  OBVIOUS
<1> HIDE DEF entry, row
<1>8. reservations' \in [ReservationIds -> Reservation]
      /\ Total(Held(reservations'), MaxReservations)
           = Total(Held(reservations), MaxReservations) - held
      /\ Total(Charged(reservations'), MaxReservations)
           = Total(Charged(reservations), MaxReservations) + charge
  <2>1. /\ reservations' \in [ReservationIds -> Reservation]
        /\ Total(Held(reservations'), MaxReservations)
             = Total(Held(reservations), MaxReservations) + 0 - held
        /\ Total(Charged(reservations'), MaxReservations)
             = Total(Charged(reservations), MaxReservations) + charge - 0
    BY <1>1, <1>3, <1>4, ReservationUpdate DEF Balanced
  <2> QED
    BY <1>1, <1>6, <2>1
<1>9. /\ LedgerReconciles'
      /\ ledger' \in Seq(Movement)
      /\ account'.available = account.available + (held - charge)
      /\ account'.reserved = account.reserved - held
  <2> HIDE DEF held
  <2> QED
    BY <1>1, <1>2, <1>4, <1>5, MoveReconciles DEF Balanced
<1>10. TypeOK'
  <2>1. account' \in Account
    BY <1>1, <1>4, <1>5, <1>7, <1>9 DEF Account, Move
  <2> QED
    BY <1>8, <1>9, <2>1 DEF Balanced, TypeOK
<1>11. UnsettledIsFree'
  BY <1>3, <1>4 DEF Balanced, TypeOK, UnsettledIsFree
<1>12. ReservedIsHeld'
  BY <1>1, <1>8, <1>9 DEF Balanced, ReservedIsHeld
<1>13. CreditsConserved'
  <2> HIDE DEF held
  <2> QED
    BY <1>1, <1>5, <1>6, <1>8, <1>9 DEF Balanced, CreditsConserved
<1> QED
  BY <1>9, <1>10, <1>11, <1>12, <1>13 DEF Balanced

LEMMA SettleBalanced ==
  ASSUME Balanced, NEW r \in ReservationIds, NEW t \in Tokens, Settle(r, t)
  PROVE  Balanced'
<1> DEFINE held == reservations[r].reserved_credits
           charge == SettledCredits(r, t)
<1>1. held \in Nat /\ reservations[r] \in Reservation
  BY DEF Balanced, TypeOK, Reservation
<1>2. charge \in Nat /\ charge <= held
  BY <1>1, TokensAssumption, CreditsType, LesserType DEF SettledCredits
<1>3. /\ reservations[r].status = "reserved"
      /\ account.reserved >= held
      /\ Move(Entry("settlement", r, held - charge, -held))
      /\ UNCHANGED <<purchases, events>>
  BY DEF Settle
<1>4. reservations' = [reservations EXCEPT ![r] =
        [status |-> "settled", reserved_credits |-> held, settled_credits |-> charge]]
  <2>1. reservations' = [reservations EXCEPT ![r] =
          [reservations[r] EXCEPT !.status = "settled", !.settled_credits = charge]]
    BY DEF Settle, Balanced, TypeOK
  <2>2. [reservations[r] EXCEPT !.status = "settled", !.settled_credits = charge]
          = [status |-> "settled", reserved_credits |-> held, settled_credits |-> charge]
    BY <1>1, SettledRow
  <2> QED
    BY <2>1, <2>2
<1> HIDE DEF charge
<1> QED
  BY <1>1, <1>2, <1>3, <1>4, CloseBalanced DEF Terminal, MovementKinds

LEMMA GiveBackBalanced ==
  ASSUME Balanced, NEW r \in ReservationIds, NEW status \in {"released", "expired"},
         NEW kind \in MovementKinds, GiveBack(r, status, kind)
  PROVE  Balanced'
<1> DEFINE held == reservations[r].reserved_credits
<1>1. held \in Nat /\ reservations[r] \in Reservation
  BY DEF Balanced, TypeOK, Reservation
<1>2. /\ reservations[r].status = "reserved"
      /\ account.reserved >= held
      /\ Move(Entry(kind, r, held, -held))
      /\ UNCHANGED <<purchases, events>>
  BY DEF GiveBack
<1>3. reservations' = [reservations EXCEPT ![r] =
        [status |-> status, reserved_credits |-> held, settled_credits |-> 0]]
  <2>1. reservations[r].settled_credits = 0
    BY <1>2 DEF Balanced, UnsettledIsFree
  <2>2. reservations' = [reservations EXCEPT ![r] = [reservations[r] EXCEPT !.status = status]]
    BY DEF GiveBack, Balanced, TypeOK
  <2>3. [reservations[r] EXCEPT !.status = status]
          = [status |-> status, reserved_credits |-> held, settled_credits |-> 0]
    BY <1>1, <2>1 DEF Reservation
  <2> QED
    BY <2>2, <2>3
<1>4. PICK charge \in Nat : charge = 0
  OBVIOUS
<1>5. held - charge = held /\ charge <= held
  BY <1>1, <1>4
<1>6. Move(Entry(kind, r, held - charge, -held))
  BY <1>2, <1>5
<1>7. reservations' = [reservations EXCEPT ![r] =
        [status |-> status, reserved_credits |-> held, settled_credits |-> charge]]
  BY <1>3, <1>4
<1> QED
  BY <1>2, <1>4, <1>5, <1>6, <1>7, CloseBalanced DEF Terminal

LEMMA CreatePurchaseBalanced ==
  ASSUME Balanced, NEW p \in PurchaseIds, NEW c \in PurchaseSizes, CreatePurchase(p, c)
  PROVE  Balanced'
<1>1. purchases' \in [PurchaseIds -> Purchase]
  BY PurchaseSizesAssumption DEF Balanced, TypeOK, CreatePurchase, Purchase
<1>2. \A i \in 1..MaxPurchases : Bought(purchases')[i] = Bought(purchases)[i]
  BY DEF Balanced, TypeOK, CreatePurchase, Bought, PurchaseIds
<1>3. Total(Bought(purchases'), MaxPurchases) = Total(Bought(purchases), MaxPurchases)
  <2>1. Bought(purchases) \in [1..MaxPurchases -> Int]
    BY ColumnTypes DEF Balanced
  <2> QED
    BY <1>2, <2>1, TotalOfSame, BoundsAssumption
<1> QED
  BY <1>1, <1>3 DEF Balanced, TypeOK, UnsettledIsFree, LedgerReconciles, ReservedIsHeld,
                    CreditsConserved, CreatePurchase

LEMMA ApplyPurchaseBalanced ==
  ASSUME Balanced, NEW p \in PurchaseIds, NEW e \in Events, ApplyPurchase(p, e)
  PROVE  Balanced'
<1> DEFINE credits == purchases[p].credits
           entry == Entry("purchase", p, credits, 0)
<1>1. credits \in Nat /\ purchases[p] \in Purchase
  BY DEF Balanced, TypeOK, Purchase
<1>2. entry \in Movement /\ entry.delta_available = credits /\ entry.delta_reserved = 0
  BY <1>1 DEF Entry, Movement, MovementKinds, PurchaseIds
<1>3. Move(entry)
  BY DEF ApplyPurchase
<1>4. account.available \in Nat /\ account.reserved \in Nat
  BY DEF Balanced, TypeOK, Account
<1> HIDE DEF entry
<1>5. /\ LedgerReconciles'
      /\ ledger' \in Seq(Movement)
      /\ account'.available = account.available + credits
      /\ account'.reserved = account.reserved
  <2> HIDE DEF credits
  <2> QED
    BY <1>1, <1>2, <1>3, <1>4, MoveReconciles DEF Balanced
<1>6. purchases' = [purchases EXCEPT ![p] = [status |-> "completed", credits |-> credits]]
  <2>1. purchases' = [purchases EXCEPT ![p] = [purchases[p] EXCEPT !.status = "completed"]]
    BY DEF ApplyPurchase, Balanced, TypeOK
  <2>2. [purchases[p] EXCEPT !.status = "completed"]
          = [status |-> "completed", credits |-> credits]
    BY <1>1 DEF Purchase
  <2> QED
    BY <2>1, <2>2
<1>7. Total(Bought(purchases'), MaxPurchases)
        = Total(Bought(purchases), MaxPurchases) + credits
  <2>1. /\ Bought(purchases) \in [1..MaxPurchases -> Int]
        /\ Bought(purchases') \in [1..MaxPurchases -> Int]
    BY <1>1, <1>6 DEF Balanced, TypeOK, Bought, Purchase, PurchaseIds
  <2>2. \A i \in 1..MaxPurchases : i # p => Bought(purchases')[i] = Bought(purchases)[i]
    BY <1>6 DEF Balanced, TypeOK, Bought, PurchaseIds
  <2>3. Bought(purchases')[p] = credits /\ Bought(purchases)[p] = 0
    BY <1>6 DEF Balanced, TypeOK, Bought, ApplyPurchase
  <2>4. p \in 1..MaxPurchases
    BY DEF PurchaseIds
  <2>5. Total(Bought(purchases), MaxPurchases) \in Int
    BY <2>1, TotalType, BoundsAssumption
  <2>6. Total(Bought(purchases'), MaxPurchases)
          = Total(Bought(purchases), MaxPurchases) + Bought(purchases')[p] - Bought(purchases)[p]
    <3> HIDE DEF credits
    <3> QED
      BY <2>1, <2>2, <2>4, TotalOfUpdate, BoundsAssumption
  <2> HIDE DEF credits
  <2> QED
    BY <1>1, <2>3, <2>5, <2>6
<1>8. TypeOK'
  <2>1. account' \in Account
    BY <1>1, <1>3, <1>4, <1>5 DEF Account, Move
  <2>2. purchases' \in [PurchaseIds -> Purchase]
    BY <1>1, <1>6 DEF Balanced, TypeOK, Purchase
  <2> QED
    BY <1>5, <2>1, <2>2 DEF Balanced, TypeOK, ApplyPurchase
<1>9. UnsettledIsFree' /\ ReservedIsHeld'
  BY <1>5 DEF Balanced, UnsettledIsFree, ReservedIsHeld, ApplyPurchase
<1>10. CreditsConserved'
  <2>1. Total(Charged(reservations), MaxReservations) \in Int
    BY ColumnTypes, TotalType, BoundsAssumption DEF Balanced
  <2>2. reservations' = reservations
    BY DEF ApplyPurchase
  <2> HIDE DEF credits
  <2> QED
    BY <1>1, <1>4, <1>5, <1>7, <2>1, <2>2 DEF Balanced, CreditsConserved
<1> QED
  BY <1>5, <1>8, <1>9, <1>10 DEF Balanced

LEMMA InitBalanced == Init => Balanced
<1> SUFFICES ASSUME Init PROVE Balanced
  OBVIOUS
<1>1. TypeOK
  <2>1. ledger \in Seq(Movement)
    BY EmptySeq DEF Init
  <2> QED
    BY <2>1 DEF Init, TypeOK, Account, Reservation, Purchase, NoReservation, NoPurchase
<1>2. UnsettledIsFree
  BY DEF Init, UnsettledIsFree, NoReservation
<1>3. LedgerReconciles
  BY TotalOfNone, EmptySeq DEF Init, LedgerReconciles
<1>4. /\ Total(Held(reservations), MaxReservations) = 0
      /\ Total(Charged(reservations), MaxReservations) = 0
      /\ Total(Bought(purchases), MaxPurchases) = 0
  <2>1. /\ \A i \in 1..MaxReservations : Held(reservations)[i] = 0
        /\ \A i \in 1..MaxReservations : Charged(reservations)[i] = 0
        /\ \A i \in 1..MaxPurchases : Bought(purchases)[i] = 0
    BY DEF Init, Held, Charged, Bought, NoReservation, NoPurchase, ReservationIds, PurchaseIds
  <2> QED
    BY <2>1, TotalOfZeros, BoundsAssumption
<1> QED
  BY <1>1, <1>2, <1>3, <1>4 DEF Balanced, ReservedIsHeld, CreditsConserved, Init

LEMMA NextBalanced == Balanced /\ [Next]_vars => Balanced'
<1> SUFFICES ASSUME Balanced, [Next]_vars PROVE Balanced'
  OBVIOUS
<1>1. ASSUME NEW r \in ReservationIds, NEW t \in Tokens \ {0}, Reserve(r, t) PROVE Balanced'
  BY <1>1, ReserveBalanced
<1>2. ASSUME NEW r \in ReservationIds, NEW t \in Tokens, Settle(r, t) PROVE Balanced'
  BY <1>2, SettleBalanced
<1>3. ASSUME NEW r \in ReservationIds, Release(r) PROVE Balanced'
  BY <1>3, GiveBackBalanced DEF Release, MovementKinds
<1>4. ASSUME NEW r \in ReservationIds, Expire(r) PROVE Balanced'
  BY <1>4, GiveBackBalanced DEF Expire, MovementKinds
<1>5. ASSUME NEW p \in PurchaseIds, NEW c \in PurchaseSizes, CreatePurchase(p, c)
      PROVE Balanced'
  BY <1>5, CreatePurchaseBalanced
<1>6. ASSUME NEW p \in PurchaseIds, NEW e \in Events, ApplyPurchase(p, e) PROVE Balanced'
  BY <1>6, ApplyPurchaseBalanced
<1>7. ASSUME NEW e \in Events, RecordEvent(e) PROVE Balanced'
  BY <1>7 DEF Balanced, TypeOK, UnsettledIsFree, LedgerReconciles, ReservedIsHeld,
              CreditsConserved, RecordEvent
<1>8. CASE UNCHANGED vars
  BY <1>8 DEF Balanced, TypeOK, UnsettledIsFree, LedgerReconciles, ReservedIsHeld,
              CreditsConserved, vars
<1> QED
  BY <1>1, <1>2, <1>3, <1>4, <1>5, <1>6, <1>7, <1>8 DEF Next

-----------------------------------------------------------------------------
(* The balances, the reservations, the purchases and the ledger agree in   *)
(* every reachable state, whatever the number of rows.                     *)
THEOREM AlwaysBalanced == Spec => []Balanced
<1>1. Init => Balanced
  BY InitBalanced
<1>2. Balanced /\ [Next]_vars => Balanced'
  BY NextBalanced
<1> QED
  BY <1>1, <1>2, PTL DEF Spec

(* Rows keep their types; above all, available and reserved are never      *)
(* negative (the CHECK constraints of org_credit_accounts never fire).     *)
THEOREM TypeCorrect == Spec => []TypeOK
<1>1. Balanced => TypeOK
  BY DEF Balanced
<1> QED
  BY <1>1, AlwaysBalanced, PTL

(* SUM(ledger.delta) = account.balance. *)
THEOREM LedgerAlwaysReconciles == Spec => []LedgerReconciles
<1>1. Balanced => LedgerReconciles
  BY DEF Balanced
<1> QED
  BY <1>1, AlwaysBalanced, PTL

(* The reserved balance is exactly what the live reservations hold. *)
THEOREM ReservedIsAlwaysHeld == Spec => []ReservedIsHeld
<1>1. Balanced => ReservedIsHeld
  BY DEF Balanced
<1> QED
  BY <1>1, AlwaysBalanced, PTL

(* Credits bought are available, held or charged for. *)
THEOREM CreditsAlwaysConserved == Spec => []CreditsConserved
<1>1. Balanced => CreditsConserved
  BY DEF Balanced
<1> QED
  BY <1>1, AlwaysBalanced, PTL

(* A live hold is one of the rows the reserved balance is the sum of. *)
LEMMA BalancedCoversRefunds == Balanced => RefundCovered
<1> SUFFICES ASSUME Balanced, NEW r \in ReservationIds, reservations[r].status = "reserved"
             PROVE  account.reserved >= reservations[r].reserved_credits
  BY DEF RefundCovered
<1>1. Held(reservations) \in [1..MaxReservations -> Nat]
  BY ColumnTypes DEF Balanced
<1>2. r \in 1..MaxReservations /\ MaxReservations \in Nat
  BY BoundsAssumption DEF ReservationIds
<1>3. Held(reservations)[r] <= Total(Held(reservations), MaxReservations)
  BY <1>1, <1>2, TotalBoundsRow
<1>4. Held(reservations)[r] = reservations[r].reserved_credits
  BY DEF Held
<1>5. account.reserved = Total(Held(reservations), MaxReservations)
  BY DEF Balanced, ReservedIsHeld
<1> QED
  BY <1>1, <1>2, <1>3, <1>4, <1>5 DEF Balanced, TypeOK, Account

(* settle, release and expire never throw for want of reserved credits. *)
THEOREM RefundAlwaysCovered == Spec => []RefundCovered
BY BalancedCoversRefunds, AlwaysBalanced, PTL

-----------------------------------------------------------------------------
(* The rows of the ledger after a move. *)
LEMMA MoveAppends ==
  ASSUME TypeOK, NEW entry, Move(entry)
  PROVE  /\ Len(ledger) \in Nat
         /\ Len(ledger') = Len(ledger) + 1
         /\ \A i \in 1..Len(ledger) : ledger'[i] = ledger[i]
         /\ ledger'[Len(ledger) + 1] = entry
<1>1. ledger \in Seq(Movement) /\ ledger' = Append(ledger, entry)
  BY DEF TypeOK, Move
<1>2. \A i \in 1..Len(ledger) : ledger[i] \in Movement
  BY <1>1, ElementOfSeq
<1> QED
  BY <1>1, LenProperties, AppendProperties

(* A movement that closes nothing. *)
LEMMA OtherMoveClosedOnce ==
  ASSUME TypeOK, ClosedOnce, NEW entry, Move(entry),
         entry.kind \in {"reservation", "purchase"},
         \A r \in ReservationIds :
           /\ reservations[r].status \in Terminal => reservations'[r].status = reservations[r].status
           /\ reservations'[r].status \in Terminal => reservations[r].status \in Terminal
  PROVE  ClosedOnce'
<1>0. PICK n \in Nat : n = Len(ledger)
  BY MoveAppends
<1>1. /\ Len(ledger') = n + 1
      /\ \A i \in 1..n : ledger'[i] = ledger[i]
      /\ ledger'[n + 1] = entry
  BY <1>0, MoveAppends
<1>2. \A i \in 1..n + 1, r \in ReservationIds :
        EndsIn(i, r)' <=> i \in 1..n /\ EndsIn(i, r)
  BY <1>1 DEF EndsIn
<1>3. \A i, j \in 1..n + 1, r \in ReservationIds : EndsIn(i, r)' /\ EndsIn(j, r)' => i = j
  BY <1>0, <1>2 DEF ClosedOnce
<1>4. \A i \in 1..n + 1, r \in ReservationIds :
        EndsIn(i, r)' => /\ reservations'[r].status \in Terminal
                         /\ ledger'[i].kind = EndMovement(reservations'[r].status)
  BY <1>0, <1>1, <1>2 DEF ClosedOnce
<1>5. \A r \in ReservationIds :
        reservations'[r].status \in Terminal => \E i \in 1..n + 1 : EndsIn(i, r)'
  <2> SUFFICES ASSUME NEW r \in ReservationIds, reservations'[r].status \in Terminal
               PROVE  \E i \in 1..n + 1 : EndsIn(i, r)'
    OBVIOUS
  <2>1. PICK i \in 1..n : EndsIn(i, r)
    BY <1>0 DEF ClosedOnce
  <2>2. i \in 1..n + 1
    BY <1>1, <2>1
  <2> QED
    BY <1>2, <2>1, <2>2
<1> QED
  BY <1>0, <1>1, <1>3, <1>4, <1>5 DEF ClosedOnce, EndsIn

(* A movement that closes reservation c. *)
LEMMA CloseClosedOnce ==
  ASSUME TypeOK, ClosedOnce, NEW c \in ReservationIds, NEW status \in Terminal, NEW entry,
         Move(entry), entry.row = c, entry.kind = EndMovement(status),
         reservations[c].status = "reserved", reservations'[c].status = status,
         \A r \in ReservationIds : r # c => reservations'[r] = reservations[r]
  PROVE  ClosedOnce'
<1>0. PICK n \in Nat : n = Len(ledger)
  BY MoveAppends
<1>1. /\ Len(ledger') = n + 1
      /\ \A i \in 1..n : ledger'[i] = ledger[i]
      /\ ledger'[n + 1] = entry
  BY <1>0, MoveAppends
<1>2. entry.kind \in {"settlement", "release", "expiry"}
  BY DEF EndMovement, Terminal
<1>3. \A i \in 1..n : ~ EndsIn(i, c)
  BY <1>0 DEF ClosedOnce, Terminal
<1>4. \A i \in 1..n, r \in ReservationIds : EndsIn(i, r)' <=> EndsIn(i, r)
  BY <1>1 DEF EndsIn
<1>5. \A r \in ReservationIds : EndsIn(n + 1, r)' <=> r = c
  BY <1>1, <1>2 DEF EndsIn
<1>6. \A i \in 1..n + 1 : i \in 1..n \/ i = n + 1
  BY <1>1
<1>7. \A i, j \in 1..n + 1, r \in ReservationIds : EndsIn(i, r)' /\ EndsIn(j, r)' => i = j
  BY <1>0, <1>3, <1>4, <1>5, <1>6 DEF ClosedOnce
<1>8. \A i \in 1..n + 1, r \in ReservationIds :
        EndsIn(i, r)' => /\ reservations'[r].status \in Terminal
                         /\ ledger'[i].kind = EndMovement(reservations'[r].status)
  <2> SUFFICES ASSUME NEW i \in 1..n + 1, NEW r \in ReservationIds, EndsIn(i, r)'
               PROVE  /\ reservations'[r].status \in Terminal
                      /\ ledger'[i].kind = EndMovement(reservations'[r].status)
    OBVIOUS
  <2>1. CASE i = n + 1
    BY <1>1, <1>5, <2>1
  <2>2. CASE i \in 1..n
    <3>1. EndsIn(i, r) /\ r # c
      BY <1>3, <1>4, <2>2
    <3> QED
      BY <1>0, <1>1, <2>2, <3>1 DEF ClosedOnce
  <2> QED
    BY <1>6, <2>1, <2>2
<1>9. \A r \in ReservationIds :
        reservations'[r].status \in Terminal => \E i \in 1..n + 1 : EndsIn(i, r)'
  <2> SUFFICES ASSUME NEW r \in ReservationIds, reservations'[r].status \in Terminal
               PROVE  \E i \in 1..n + 1 : EndsIn(i, r)'
    OBVIOUS
  <2>1. CASE r = c
    <3>1. n + 1 \in 1..n + 1
      BY <1>1
    <3> QED
      BY <1>5, <2>1, <3>1
  <2>2. CASE r # c
    <3>1. PICK i \in 1..n : EndsIn(i, r)
      BY <1>0, <2>2 DEF ClosedOnce
    <3>2. i \in 1..n + 1
      BY <1>1, <3>1
    <3> QED
      BY <1>4, <3>1, <3>2
  <2> QED
    BY <2>1, <2>2
<1> QED
  BY <1>0, <1>1, <1>7, <1>8, <1>9 DEF ClosedOnce, EndsIn

LEMMA NextClosedOnce == TypeOK /\ ClosedOnce /\ [Next]_vars => ClosedOnce'
<1> SUFFICES ASSUME TypeOK, ClosedOnce, [Next]_vars PROVE ClosedOnce'
  OBVIOUS
<1>1. ASSUME NEW c \in ReservationIds, NEW t, Reserve(c, t) PROVE ClosedOnce'
  <2> DEFINE credits == calculateCreditsFromTokens(t)
             entry == Entry("reservation", c, -credits, credits)
  <2>1. Move(entry) /\ entry.kind = "reservation"
    BY <1>1 DEF Reserve, Entry
  <2>2. \A r \in ReservationIds :
          /\ reservations[r].status \in Terminal => reservations'[r].status = reservations[r].status
          /\ reservations'[r].status \in Terminal => reservations[r].status \in Terminal
    BY <1>1 DEF Reserve, TypeOK, Terminal
  <2> QED
    BY <2>1, <2>2, OtherMoveClosedOnce
<1>2. ASSUME NEW c \in ReservationIds, NEW t, Settle(c, t) PROVE ClosedOnce'
  <2> DEFINE held == reservations[c].reserved_credits
             entry == Entry("settlement", c, held - SettledCredits(c, t), -held)
  <2>1. Move(entry) /\ entry.row = c /\ entry.kind = EndMovement("settled")
    BY <1>2 DEF Settle, Entry, EndMovement
  <2>2. /\ reservations[c].status = "reserved" /\ reservations'[c].status = "settled"
        /\ \A r \in ReservationIds : r # c => reservations'[r] = reservations[r]
    BY <1>2 DEF Settle, TypeOK, Reservation
  <2> QED
    BY <2>1, <2>2, CloseClosedOnce DEF Terminal
<1>3. ASSUME NEW c \in ReservationIds, NEW status \in {"released", "expired"},
             GiveBack(c, status, EndMovement(status))
      PROVE  ClosedOnce'
  <2> DEFINE held == reservations[c].reserved_credits
             entry == Entry(EndMovement(status), c, held, -held)
  <2>1. Move(entry) /\ entry.row = c /\ entry.kind = EndMovement(status)
    BY <1>3 DEF GiveBack, Entry
  <2>2. /\ reservations[c].status = "reserved" /\ reservations'[c].status = status
        /\ \A r \in ReservationIds : r # c => reservations'[r] = reservations[r]
    BY <1>3 DEF GiveBack, TypeOK, Reservation
  <2> HIDE DEF entry
  <2> QED
    BY <2>1, <2>2, CloseClosedOnce DEF Terminal
<1>4. ASSUME NEW c \in ReservationIds, Release(c) PROVE ClosedOnce'
  BY <1>3, <1>4 DEF Release, EndMovement
<1>5. ASSUME NEW c \in ReservationIds, Expire(c) PROVE ClosedOnce'
  BY <1>3, <1>5 DEF Expire, EndMovement
<1>6. ASSUME NEW p \in PurchaseIds, NEW e \in Events, ApplyPurchase(p, e) PROVE ClosedOnce'
  <2> DEFINE entry == Entry("purchase", p, purchases[p].credits, 0)
  <2>1. Move(entry) /\ entry.kind = "purchase" /\ reservations' = reservations
    BY <1>6 DEF ApplyPurchase, Entry
  <2> QED
    BY <2>1, OtherMoveClosedOnce
<1>7. ASSUME UNCHANGED <<reservations, ledger>> PROVE ClosedOnce'
  BY <1>7 DEF ClosedOnce, EndsIn
<1> QED
  BY <1>1, <1>2, <1>4, <1>5, <1>6, <1>7 DEF Next, vars, CreatePurchase, RecordEvent

(* Every reservation that is over was closed by exactly one ledger row. *)
THEOREM AlwaysClosedOnce == Spec => []ClosedOnce
<1>1. Init => ClosedOnce
  BY EmptySeq DEF Init, ClosedOnce, NoReservation, Terminal
<1>2. TypeOK /\ ClosedOnce /\ [Next]_vars => ClosedOnce'
  BY NextClosedOnce
<1> QED
  BY <1>1, <1>2, TypeCorrect, PTL DEF Spec

-----------------------------------------------------------------------------
(* A movement that is no purchase, whatever it does to the other tables.   *)
LEMMA OtherMoveCreditedOnce ==
  ASSUME TypeOK, CreditedOnce, NEW entry, Move(entry), entry.kind # "purchase",
         UNCHANGED purchases
  PROVE  CreditedOnce'
<1>0. PICK n \in Nat : n = Len(ledger)
  BY MoveAppends
<1>1. /\ Len(ledger') = n + 1
      /\ \A i \in 1..n : ledger'[i] = ledger[i]
      /\ ledger'[n + 1] = entry
  BY <1>0, MoveAppends
<1>2. \A i \in 1..n + 1 : ledger'[i].kind = "purchase" => i \in 1..n
  BY <1>1
<1> QED
  BY <1>0, <1>1, <1>2 DEF CreditedOnce

LEMMA ApplyCreditedOnce ==
  ASSUME TypeOK, CreditedOnce, NEW p \in PurchaseIds, NEW e \in Events, ApplyPurchase(p, e)
  PROVE  CreditedOnce'
<1> DEFINE entry == Entry("purchase", p, purchases[p].credits, 0)
<1>0. PICK n \in Nat : n = Len(ledger)
  BY MoveAppends DEF ApplyPurchase
<1>1. /\ Len(ledger') = n + 1
      /\ \A i \in 1..n : ledger'[i] = ledger[i]
      /\ ledger'[n + 1].row = p
  <2>1. Move(entry) /\ entry.row = p
    BY DEF ApplyPurchase, Entry
  <2> HIDE DEF entry
  <2> QED
    BY <1>0, <2>1, MoveAppends
<1>2. /\ purchases[p].status = "pending" /\ purchases'[p].status = "completed"
      /\ \A q \in PurchaseIds : q # p => purchases'[q] = purchases[q]
  BY DEF ApplyPurchase, TypeOK, Purchase
<1>3. \A i \in 1..n : ~ (ledger[i].kind = "purchase" /\ ledger[i].row = p)
  BY <1>0, <1>2 DEF CreditedOnce
<1>4. \A i \in 1..n + 1 : i \in 1..n \/ i = n + 1
  BY <1>0
<1>5. \A i, j \in 1..n + 1 :
        ledger'[i].kind = "purchase" /\ ledger'[j].kind = "purchase"
          /\ ledger'[i].row = ledger'[j].row => i = j
  BY <1>0, <1>1, <1>3, <1>4 DEF CreditedOnce
<1>6. \A i \in 1..n + 1, q \in PurchaseIds :
        ledger'[i].kind = "purchase" /\ ledger'[i].row = q => purchases'[q].status = "completed"
  BY <1>0, <1>1, <1>2, <1>4 DEF CreditedOnce
<1> QED
  BY <1>1, <1>5, <1>6 DEF CreditedOnce

LEMMA NextCreditedOnce == TypeOK /\ CreditedOnce /\ [Next]_vars => CreditedOnce'
<1> SUFFICES ASSUME TypeOK, CreditedOnce, [Next]_vars PROVE CreditedOnce'
  OBVIOUS
<1>1. ASSUME NEW r \in ReservationIds, NEW t, Reserve(r, t) PROVE CreditedOnce'
  <2> DEFINE credits == calculateCreditsFromTokens(t)
             entry == Entry("reservation", r, -credits, credits)
  <2>1. Move(entry) /\ entry.kind # "purchase" /\ UNCHANGED purchases
    BY <1>1 DEF Reserve, Entry
  <2> HIDE DEF entry
  <2> QED
    BY <2>1, OtherMoveCreditedOnce
<1>2. ASSUME NEW r \in ReservationIds, NEW t, Settle(r, t) PROVE CreditedOnce'
  <2> DEFINE held == reservations[r].reserved_credits
             entry == Entry("settlement", r, held - SettledCredits(r, t), -held)
  <2>1. Move(entry) /\ entry.kind # "purchase" /\ UNCHANGED purchases
    BY <1>2 DEF Settle, Entry
  <2> HIDE DEF entry
  <2> QED
    BY <2>1, OtherMoveCreditedOnce
<1>3. ASSUME NEW r \in ReservationIds, NEW status, NEW kind \in {"release", "expiry"},
             GiveBack(r, status, kind)
      PROVE  CreditedOnce'
  <2> DEFINE held == reservations[r].reserved_credits
             entry == Entry(kind, r, held, -held)
  <2>1. Move(entry) /\ entry.kind # "purchase" /\ UNCHANGED purchases
    BY <1>3 DEF GiveBack, Entry
  <2> HIDE DEF entry
  <2> QED
    BY <2>1, OtherMoveCreditedOnce
<1>4. ASSUME NEW r \in ReservationIds, Release(r) \/ Expire(r) PROVE CreditedOnce'
  BY <1>3, <1>4 DEF Release, Expire
<1>5. ASSUME NEW p \in PurchaseIds, NEW c, CreatePurchase(p, c) PROVE CreditedOnce'
  <2>1. /\ ledger' = ledger
        /\ \A q \in PurchaseIds : purchases[q].status = "completed" => purchases'[q] = purchases[q]
    BY <1>5 DEF CreatePurchase, TypeOK
  <2> QED
    BY <2>1 DEF CreditedOnce
<1>6. ASSUME UNCHANGED <<purchases, ledger>> PROVE CreditedOnce'
  BY <1>6 DEF CreditedOnce
<1> QED
  BY <1>1, <1>2, <1>4, <1>5, <1>6, ApplyCreditedOnce DEF Next, vars, RecordEvent

(* However often and under whatever event ids a delivery is repeated, a    *)
(* purchase has at most one ledger row, and only once it is completed.     *)
THEOREM AlwaysCreditedOnce == Spec => []CreditedOnce
<1>1. Init => CreditedOnce
  BY EmptySeq DEF Init, CreditedOnce
<1>2. TypeOK /\ CreditedOnce /\ [Next]_vars => CreditedOnce'
  BY NextCreditedOnce
<1> QED
  BY <1>1, <1>2, TypeCorrect, PTL DEF Spec

-----------------------------------------------------------------------------
(* No step changes a reservation that is over. *)
THEOREM TerminalRowsAreFinal == Spec => TerminalIsFinal
<1>1. TypeOK /\ [Next]_vars =>
        [\A r \in ReservationIds :
           reservations[r].status \in Terminal => reservations'[r] = reservations[r]]_vars
  BY DEF TypeOK, Next, Reserve, Settle, Release, Expire, GiveBack, CreatePurchase,
         ApplyPurchase, RecordEvent, Terminal
<1> QED
  BY <1>1, TypeCorrect, PTL DEF Spec, TerminalIsFinal
=============================================================================
