------------------------------ MODULE CreditTx ------------------------------
(***************************************************************************)
(* The operations of CreditAccount as the SQL statements that              *)
(* packages/db/src/dal.ts sends inside withTransaction, run concurrently   *)
(* by request handlers, webhook deliveries and the sweeper.                *)
(*                                                                         *)
(* PostgreSQL at READ COMMITTED, as the code uses it: a statement sees the *)
(* last committed version of a row or the transaction's own; an UPDATE,    *)
(* SELECT FOR UPDATE or INSERT ON CONFLICT of a row that another           *)
(* transaction wrote or locked waits for that transaction to end and is    *)
(* then evaluated against the new version; writes become visible, and      *)
(* locks are released, at COMMIT; a rollback drops both.                   *)
(*                                                                         *)
(* The statements that cannot wait and touch nothing shared are left out:  *)
(* BEGIN, set_config, the SELECT of getOrCreate and the audit rows.  So    *)
(* are the foreign key share locks: no transaction here locks the          *)
(* organization's row for itself.                                          *)
(***************************************************************************)
EXTENDS Pricing, Sequences

CONSTANTS
  MaxReservations, MaxPurchases, Tokens, PurchaseSizes, Events,  \* see CreditAccount
  Tx,      \* database connections
  NoTx     \* the owner of a row nobody locked

ASSUME NoTxAssumption == NoTx \notin Tx
ASSUME BoundsAssumption == MaxReservations \in Nat /\ MaxPurchases \in Nat
ASSUME TokensAssumption == Tokens \subseteq Nat
ASSUME PurchaseSizesAssumption == PurchaseSizes \subseteq Nat \ {0}

VARIABLES
  account, reservations, purchases, events, ledger,  \* committed rows
  tx,      \* what each connection is doing
  writes,  \* the uncommitted row versions of each transaction
  locks    \* who holds each row

rows == <<account, reservations, purchases, events, ledger>>
vars == <<rows, tx, writes, locks>>

ReservationIds == 1..MaxReservations
PurchaseIds == 1..MaxPurchases

AccountRow == <<"account">>
ReservationRow(r) == <<"reservation", r>>
PurchaseRow(p) == <<"purchase", p>>
EventRow(e) == <<"event", e>>

Rows ==
  {AccountRow} \cup {ReservationRow(r) : r \in ReservationIds}
    \cup {PurchaseRow(p) : p \in PurchaseIds} \cup {EventRow(e) : e \in Events}

\* a job is what the caller passed: its operation and the arguments that matter to it
Jobs ==
  [op : {"reserve"}, id : ReservationIds, tokens : Tokens \ {0}]
    \cup [op : {"settle"}, id : ReservationIds, tokens : Tokens]
    \cup [op : {"release", "expire"}, id : ReservationIds]
    \cup [op : {"purchase"}, id : PurchaseIds, credits : PurchaseSizes]
    \cup [op : {"apply"}, id : PurchaseIds, event : Events]
    \cup [op : {"orphan"}, event : Events]
NoJob == [op |-> "none"]

Statements ==
  {"debit", "insertReservation", "lockReservation", "closeReservation", "refund",
   "insertPurchase", "insertEvent", "findPurchase", "completePurchase", "credit",
   "insertLedger", "markProcessed", "commit"}

\* "undefined": the operation found nothing to do; "threw": the code threw;
\* "lost": the caller got an error although the code did not throw
Outcomes == {"none", "done", "undefined", "threw", "lost"}

NoEntry == [kind |-> "none", row |-> 0, delta_available |-> 0, delta_reserved |-> 0]
Idle == [pc |-> "idle", job |-> NoJob, outcome |-> "none", entry |-> NoEntry]

NoReservation == [status |-> "none", reserved_credits |-> 0, settled_credits |-> 0]
NoPurchase == [status |-> "none", credits |-> 0]

Init ==
  /\ account = [available |-> 0, reserved |-> 0]
  /\ reservations = [r \in ReservationIds |-> NoReservation]
  /\ purchases = [p \in PurchaseIds |-> NoPurchase]
  /\ events = [e \in Events |-> "unseen"]
  /\ ledger = <<>>
  /\ tx = [t \in Tx |-> Idle]
  /\ writes = [t \in Tx |-> <<>>]
  /\ locks = [row \in Rows |-> NoTx]

-----------------------------------------------------------------------------
(* Row versions and locks. *)
Committed(row) ==
  CASE row[1] = "account" -> account
    [] row[1] = "reservation" -> reservations[row[2]]
    [] row[1] = "purchase" -> purchases[row[2]]
    [] row[1] = "event" -> events[row[2]]

Visible(t, row) == IF row \in DOMAIN writes[t] THEN writes[t][row] ELSE Committed(row)

Available(t, row) == locks[row] \in {NoTx, t}

\* the statement takes the row's lock (and has waited for it) ...
Lock(t, row) ==
  /\ Available(t, row)
  /\ locks' = [locks EXCEPT ![row] = t]
  /\ UNCHANGED <<rows, writes>>

\* ... or takes it and writes a new version of the row
Write(t, row, version) ==
  /\ Available(t, row)
  /\ locks' = [locks EXCEPT ![row] = t]
  /\ writes' = [writes EXCEPT ![t] =
       [x \in DOMAIN @ \cup {row} |-> IF x = row THEN version ELSE @[x]]]
  /\ UNCHANGED rows

Goto(t, statement) == tx' = [tx EXCEPT ![t].pc = statement]
Return(t, outcome) == tx' = [tx EXCEPT ![t].pc = "commit", ![t].outcome = outcome]

\* A plausible bug: the client goes back to the pool without a ROLLBACK.
EndWithoutRollback(t, outcome) ==
  /\ tx' = [tx EXCEPT ![t] = [Idle EXCEPT !.pc = "over", !.job = tx[t].job,
                                          !.outcome = outcome]]
  /\ writes' = [writes EXCEPT ![t] = <<>>]
  /\ UNCHANGED locks

\* the transaction is over: its locks and its uncommitted versions are gone
End(t, outcome) ==
  /\ tx' = [tx EXCEPT ![t] = [Idle EXCEPT !.pc = "over", !.job = tx[t].job,
                                          !.outcome = outcome]]
  /\ writes' = [writes EXCEPT ![t] = <<>>]
  /\ locks' = [row \in Rows |-> IF locks[row] = t THEN NoTx ELSE locks[row]]

Rollback(t, outcome) == End(t, outcome) /\ UNCHANGED rows

At(t, statement) == tx[t].pc = statement
Job(t) == tx[t].job
ReservationOf(t) == Visible(t, ReservationRow(Job(t).id))

-----------------------------------------------------------------------------
(* BEGIN.  A reservation or a purchase is named by a caller that was given *)
(* its id, so it has been committed; an orphan event names neither.  An    *)
(* inserted row gets an id of its own, here the lowest that is free.       *)
FirstStatement(op) ==
  CASE op = "reserve" -> "debit"
    [] op \in {"settle", "release", "expire"} -> "lockReservation"
    [] op = "purchase" -> "insertPurchase"
    [] op \in {"apply", "orphan"} -> "insertEvent"

UsedIds(op) ==
  (IF op = "reserve" THEN {r \in ReservationIds : reservations[r].status # "none"}
                     ELSE {p \in PurchaseIds : purchases[p].status # "none"})
    \cup {tx[u].job.id : u \in {v \in Tx : tx[v].job.op = op}}

NextId(op, id) == id \notin UsedIds(op) /\ \A lower \in 1..id - 1 : lower \in UsedIds(op)

Begin(t, job) ==
  /\ At(t, "idle")
  /\ job.op \in {"reserve", "purchase"} => NextId(job.op, job.id)
  /\ job.op \in {"settle", "release", "expire"} => reservations[job.id].status # "none"
  /\ job.op = "apply" => purchases[job.id].status # "none"
  /\ tx' = [tx EXCEPT ![t].pc = FirstStatement(job.op), ![t].job = job]
  /\ UNCHANGED <<rows, writes, locks>>

(* creditAccounts.reserve: UPDATE ... WHERE available >= $1. *)
Debit(t) ==
  LET credits == calculateCreditsFromTokens(Job(t).tokens)
      balance == Visible(t, AccountRow)
  IN
  /\ At(t, "debit")
  /\ \/ /\ balance.available >= credits
        /\ Write(t, AccountRow, [available |-> balance.available - credits,
                                 reserved |-> balance.reserved + credits])
        /\ Goto(t, "insertReservation")
     \/ /\ balance.available < credits
        /\ Available(t, AccountRow)
        /\ Return(t, "undefined")
        /\ UNCHANGED <<rows, writes, locks>>

(* creditReservations.create: the id is new, so nobody holds the row. *)
InsertReservation(t) ==
  LET credits == calculateCreditsFromTokens(Job(t).tokens) IN
  /\ At(t, "insertReservation")
  /\ Write(t, ReservationRow(Job(t).id), [status |-> "reserved", reserved_credits |-> credits,
                                          settled_credits |-> 0])
  /\ tx' = [tx EXCEPT ![t].pc = "insertLedger",
                      ![t].entry = [kind |-> "reservation", row |-> Job(t).id,
                                    delta_available |-> -credits, delta_reserved |-> credits]]

(* creditReservations.findByIdForUpdate, and the status check after it. *)
\* Three plausible bugs: expire locks the account before the reservation; a SELECT without
\* FOR UPDATE; a SELECT ... FOR UPDATE SKIP LOCKED.
LockReservationLate(t) ==
  /\ At(t, "lockReservation")
  /\ IF Job(t).op = "expire" /\ locks[AccountRow] # t
       THEN Lock(t, AccountRow) /\ UNCHANGED tx
       ELSE /\ Lock(t, ReservationRow(Job(t).id))
            /\ IF ReservationOf(t).status = "reserved"
                 THEN Goto(t, "closeReservation")
                 ELSE Return(t, "undefined")

ReadReservation(t) ==
  /\ At(t, "lockReservation")
  /\ IF ReservationOf(t).status = "reserved"
       THEN Goto(t, "closeReservation")
       ELSE Return(t, "undefined")
  /\ UNCHANGED <<rows, writes, locks>>

SkipLockedReservation(t) ==
  /\ At(t, "lockReservation")
  /\ IF ReservationOf(t).status = "reserved" /\ Available(t, ReservationRow(Job(t).id))
       THEN Lock(t, ReservationRow(Job(t).id)) /\ Goto(t, "closeReservation")
       ELSE Return(t, "undefined") /\ UNCHANGED <<rows, writes, locks>>

LockReservation(t) ==
  /\ At(t, "lockReservation")
  /\ Lock(t, ReservationRow(Job(t).id))
  /\ IF ReservationOf(t).status = "reserved"
       THEN Goto(t, "closeReservation")
       ELSE Return(t, "undefined")

SettledCredits(t) ==
  Lesser(ReservationOf(t).reserved_credits, calculateCreditsFromTokens(Job(t).tokens))

ClosedRow(t) ==
  CASE Job(t).op = "settle" -> [ReservationOf(t) EXCEPT !.status = "settled",
                                                        !.settled_credits = SettledCredits(t)]
    [] Job(t).op = "release" -> [ReservationOf(t) EXCEPT !.status = "released"]
    [] Job(t).op = "expire" -> [ReservationOf(t) EXCEPT !.status = "expired"]

ClosingEntry(t) ==
  LET held == ReservationOf(t).reserved_credits IN
  [kind |-> CASE Job(t).op = "settle" -> "settlement"
              [] Job(t).op = "release" -> "release"
              [] Job(t).op = "expire" -> "expiry",
   row |-> Job(t).id,
   delta_available |-> IF Job(t).op = "settle" THEN held - SettledCredits(t) ELSE held,
   delta_reserved |-> -held]

(* updateToSettled, updateToReleased, updateToExpired: UPDATE ... WHERE     *)
(* status = 'reserved'; toReservation of no row throws.                     *)
CloseReservation(t) ==
  /\ At(t, "closeReservation")
  /\ Available(t, ReservationRow(Job(t).id))
  /\ \/ /\ ReservationOf(t).status = "reserved"
        /\ Write(t, ReservationRow(Job(t).id), ClosedRow(t))
        /\ tx' = [tx EXCEPT ![t].pc = "refund", ![t].entry = ClosingEntry(t)]
     \/ /\ ReservationOf(t).status # "reserved"
        /\ Rollback(t, "threw")

(* creditAccounts.settle and release: UPDATE ... WHERE reserved >= $1, and *)
(* an exception when no row qualifies.                                     *)
Refund(t) ==
  LET balance == Visible(t, AccountRow)
      entry == tx[t].entry
  IN
  /\ At(t, "refund")
  /\ Available(t, AccountRow)
  /\ \/ /\ balance.reserved >= -entry.delta_reserved
        /\ Write(t, AccountRow, [available |-> balance.available + entry.delta_available,
                                 reserved |-> balance.reserved + entry.delta_reserved])
        /\ Goto(t, "insertLedger")
     \/ /\ balance.reserved < -entry.delta_reserved
        /\ Rollback(t, "threw")

(* purchases.create *)
InsertPurchase(t) ==
  /\ At(t, "insertPurchase")
  /\ Write(t, PurchaseRow(Job(t).id), [status |-> "pending", credits |-> Job(t).credits])
  /\ Return(t, "done")

(* webhookEvents.create: INSERT ... ON CONFLICT DO NOTHING waits for a     *)
(* concurrent insert of the same id and inserts only if that one vanished. *)
InsertEvent(t) ==
  LET row == EventRow(Job(t).event) IN
  /\ At(t, "insertEvent")
  /\ \/ /\ Visible(t, row) = "unseen"
        /\ Write(t, row, "recorded")
        /\ Goto(t, "findPurchase")
     \/ /\ Available(t, row)
        /\ Visible(t, row) # "unseen"
        /\ Return(t, "undefined")
        /\ UNCHANGED <<rows, writes, locks>>

(* purchases.findById: a plain SELECT, which neither waits nor locks. *)
FindPurchase(t) ==
  /\ At(t, "findPurchase")
  /\ IF Job(t).op = "orphan" THEN Return(t, "undefined") ELSE Goto(t, "completePurchase")
  /\ UNCHANGED <<rows, writes, locks>>

(* purchases.markCompleted: UPDATE ... WHERE status = 'pending'; the row   *)
(* goes through toPurchase, which throws on undefined, so the caller's     *)
(* check for "no row" is never reached.                                    *)
\* A plausible bug: the UPDATE has lost its WHERE status = 'pending'.
CompletePurchaseAgain(t) ==
  LET row == PurchaseRow(Job(t).id) IN
  /\ At(t, "completePurchase")
  /\ Write(t, row, [Visible(t, row) EXCEPT !.status = "completed"])
  /\ Goto(t, "credit")

CompletePurchase(t) ==
  LET row == PurchaseRow(Job(t).id) IN
  /\ At(t, "completePurchase")
  /\ Available(t, row)
  /\ \/ /\ Visible(t, row).status = "pending"
        /\ Write(t, row, [Visible(t, row) EXCEPT !.status = "completed"])
        /\ Goto(t, "credit")
     \/ /\ Visible(t, row).status # "pending"
        /\ Rollback(t, "threw")

(* creditAccounts.addAvailable, with the credits of the row read before. *)
Credit(t) ==
  LET balance == Visible(t, AccountRow)
      credits == purchases[Job(t).id].credits
  IN
  /\ At(t, "credit")
  /\ Write(t, AccountRow, [balance EXCEPT !.available = @ + credits])
  /\ tx' = [tx EXCEPT ![t].pc = "insertLedger",
                      ![t].entry = [kind |-> "purchase", row |-> Job(t).id,
                                    delta_available |-> credits, delta_reserved |-> 0]]

(* creditLedger.create; tx[t].entry is the inserted row from here on. *)
InsertLedger(t) ==
  /\ At(t, "insertLedger")
  /\ IF Job(t).op = "apply" THEN Goto(t, "markProcessed") ELSE Return(t, "done")
  /\ UNCHANGED <<rows, writes, locks>>

(* webhookEvents.markProcessed *)
MarkProcessed(t) ==
  /\ At(t, "markProcessed")
  /\ Write(t, EventRow(Job(t).event), "processed")
  /\ Return(t, "done")

(* COMMIT.  The caller learns of it, or loses the connection first and     *)
(* gets an error for a transaction that took effect.                       *)
Commit(t) ==
  /\ At(t, "commit")
  /\ account' = Visible(t, AccountRow)
  /\ reservations' = [r \in ReservationIds |-> Visible(t, ReservationRow(r))]
  /\ purchases' = [p \in PurchaseIds |-> Visible(t, PurchaseRow(p))]
  /\ events' = [e \in Events |-> Visible(t, EventRow(e))]
  /\ ledger' = IF tx[t].entry = NoEntry THEN ledger ELSE Append(ledger, tx[t].entry)
  /\ \E outcome \in {tx[t].outcome, "lost"} : End(t, outcome)

(* A statement fails, the connection breaks or the process dies: ROLLBACK. *)
Fail(t) ==
  /\ tx[t].pc \in Statements
  /\ Rollback(t, "lost")

(* The caller takes the outcome and the connection returns to the pool. *)
ReleaseClient(t) ==
  /\ At(t, "over")
  /\ tx' = [tx EXCEPT ![t] = Idle]
  /\ UNCHANGED <<rows, writes, locks>>

Statement(t) ==
  \/ Debit(t) \/ InsertReservation(t)
  \/ LockReservation(t) \/ CloseReservation(t) \/ Refund(t)
  \/ InsertPurchase(t)
  \/ InsertEvent(t) \/ FindPurchase(t) \/ CompletePurchase(t) \/ Credit(t) \/ MarkProcessed(t)
  \/ InsertLedger(t) \/ Commit(t)

Next ==
  \E t \in Tx :
    \/ \E job \in Jobs : Begin(t, job)
    \/ Statement(t)
    \/ Fail(t)
    \/ ReleaseClient(t)

Spec == Init /\ [][Next]_vars

(* PostgreSQL wakes the waiters of a row in their order of arrival, so a   *)
(* statement that can run again and again does run: strong fairness.       *)
FairSpec == Spec /\ \A t \in Tx : SF_vars(Statement(t))

-----------------------------------------------------------------------------
TypeOK ==
  /\ DOMAIN tx = Tx
  /\ \A t \in Tx : /\ tx[t].pc \in Statements \cup {"idle", "over"}
                   /\ tx[t].job \in Jobs \cup {NoJob}
                   /\ tx[t].outcome \in Outcomes
                   /\ DOMAIN writes[t] \subseteq Rows
  /\ locks \in [Rows -> Tx \cup {NoTx}]
  /\ \A t \in Tx : tx[t].pc \in {"idle", "over"} => \A row \in Rows : locks[row] # t

(* Every commit is one step of CreditAccount and nothing else is visible:  *)
(* the statements of concurrent transactions never mix.                    *)
CA == INSTANCE CreditAccount
ImplementsCreditAccount == CA!Spec

NextRow(t) ==
  CASE tx[t].pc \in {"debit", "refund", "credit"} -> AccountRow
    [] tx[t].pc \in {"lockReservation", "closeReservation"} -> ReservationRow(Job(t).id)
    [] tx[t].pc \in {"insertEvent", "markProcessed"} -> EventRow(Job(t).event)
    [] tx[t].pc = "completePurchase" -> PurchaseRow(Job(t).id)
    [] OTHER -> <<>>

WaitsFor(t, u) ==
  /\ tx[t].pc \in Statements
  /\ t # u
  /\ NextRow(t) # <<>>
  /\ locks[NextRow(t)] = u

(* No set of transactions waits for itself: rows are always locked in the  *)
(* order event, purchase or reservation, account, so PostgreSQL never has  *)
(* to break a deadlock by failing one of them.                             *)
NoLockCycle ==
  \A waiting \in (SUBSET Tx) \ {{}} :
    \E t \in waiting : \A u \in waiting : ~ WaitsFor(t, u)

(* Closing a reservation never throws: not for a row that ceased to be     *)
(* reserved after it was locked, and not for want of reserved credits.     *)
ClosingNeverThrows ==
  \A t \in Tx : tx[t].job.op \in {"settle", "release", "expire"} => tx[t].outcome # "threw"

(* What a caller is told about a reservation is so: "done" means this      *)
(* operation ended it, "undefined" that another one had.                   *)
OutcomeIsTrue ==
  \A t \in Tx :
    tx[t].pc = "over" =>
      /\ tx[t].job.op = "settle" /\ tx[t].outcome = "done"
           => reservations[tx[t].job.id].status = "settled"
      /\ tx[t].job.op = "release" /\ tx[t].outcome = "done"
           => reservations[tx[t].job.id].status = "released"
      /\ tx[t].job.op \in {"settle", "release", "expire"} /\ tx[t].outcome = "undefined"
           => reservations[tx[t].job.id].status \in CA!Terminal
      /\ tx[t].job.op = "apply" /\ tx[t].outcome \in {"done", "undefined"}
           => events[tx[t].job.event] # "unseen"

(* credits.ts:219-222 answers applied: false for a purchase that is no     *)
(* longer pending, so a delivery about it should not end in an exception.  *)
DuplicateIsNotAnError ==
  \A t \in Tx : tx[t].job.op = "apply" => tx[t].outcome # "threw"

(* Every transaction ends: the locks it needs are given up sooner or later. *)
EveryTransactionEnds ==
  \A t \in Tx : (tx[t].pc \in Statements) ~> (tx[t].pc = "over")
=============================================================================
