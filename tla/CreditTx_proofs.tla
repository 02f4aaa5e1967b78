---------------------------- MODULE CreditTx_proofs ----------------------------
(***************************************************************************)
(* The transactions of credits.ts implement CreditAccount, whatever their  *)
(* number and however their statements interleave; they never wait for     *)
(* each other in a circle, closing a reservation never throws, and what a  *)
(* caller is told is so.                                                   *)
(***************************************************************************)
EXTENDS CreditTx, TLAPS

CP == INSTANCE CreditAccount_proofs

Transaction ==
  [pc : Statements \cup {"idle", "over"}, job : Jobs \cup {NoJob}, outcome : Outcomes,
   entry : CA!Movement \cup {NoEntry}]

Ending == {"settle", "release", "expire"}

Running(t) == tx[t].pc \in Statements
Written(t) == DOMAIN writes[t]
Undone(t) == At(t, "commit") /\ tx[t].outcome = "undefined"
Done(t) == At(t, "commit") /\ tx[t].outcome = "done"

(* What each connection has written at each of its statements, against the *)
(* committed rows: what it writes it has locked, so nobody else changes    *)
(* the committed version before it commits.                                *)
Untouched(t) == Written(t) = {} /\ tx[t].entry = NoEntry

Reserves(t) ==
  LET id == Job(t).id
      credits == calculateCreditsFromTokens(Job(t).tokens)
  IN
  /\ reservations[id].status = "none"
  /\ At(t, "debit") \/ Undone(t) \/ At(t, "insertReservation") \/ At(t, "insertLedger") \/ Done(t)
  /\ At(t, "debit") \/ Undone(t) => Untouched(t)
  /\ At(t, "insertReservation") => Written(t) = {AccountRow} /\ tx[t].entry = NoEntry
  /\ At(t, "insertLedger") \/ Done(t) =>
       /\ Written(t) = {AccountRow, ReservationRow(id)}
       /\ writes[t][ReservationRow(id)] = [status |-> "reserved", reserved_credits |-> credits,
                                           settled_credits |-> 0]
       /\ tx[t].entry = CA!Entry("reservation", id, -credits, credits)
  /\ AccountRow \in Written(t) =>
       /\ account.available >= credits
       /\ writes[t][AccountRow] = [available |-> account.available - credits,
                                   reserved |-> account.reserved + credits]

Charge(job, row) == Lesser(row.reserved_credits, calculateCreditsFromTokens(job.tokens))

ClosedAs(job, row) ==
  CASE job.op = "settle" -> [row EXCEPT !.status = "settled", !.settled_credits = Charge(job, row)]
    [] job.op = "release" -> [row EXCEPT !.status = "released"]
    [] job.op = "expire" -> [row EXCEPT !.status = "expired"]

EntryOf(job, row) ==
  CASE job.op = "settle" -> CA!Entry("settlement", job.id, row.reserved_credits - Charge(job, row),
                                     -row.reserved_credits)
    [] job.op = "release" -> CA!Entry("release", job.id, row.reserved_credits, -row.reserved_credits)
    [] job.op = "expire" -> CA!Entry("expiry", job.id, row.reserved_credits, -row.reserved_credits)

Ends(t) ==
  LET id == Job(t).id
      row == reservations[id]
  IN
  /\ row.status # "none"
  /\ \/ At(t, "lockReservation") \/ Undone(t) \/ At(t, "closeReservation")
     \/ At(t, "refund") \/ At(t, "insertLedger") \/ Done(t)
  /\ At(t, "lockReservation") \/ Undone(t) \/ At(t, "closeReservation") => Untouched(t)
  /\ Undone(t) => row.status \in CA!Terminal
  /\ At(t, "closeReservation") => row.status = "reserved" /\ locks[ReservationRow(id)] = t
  /\ At(t, "refund") => Written(t) = {ReservationRow(id)}
  /\ At(t, "insertLedger") \/ Done(t) => Written(t) = {ReservationRow(id), AccountRow}
  /\ ReservationRow(id) \in Written(t) =>
       /\ row.status = "reserved"
       /\ writes[t][ReservationRow(id)] = ClosedAs(Job(t), row)
       /\ tx[t].entry = EntryOf(Job(t), row)
  /\ AccountRow \in Written(t) =>
       /\ account.reserved >= row.reserved_credits
       /\ writes[t][AccountRow] =
            [available |-> account.available + tx[t].entry.delta_available,
             reserved |-> account.reserved + tx[t].entry.delta_reserved]

Buys(t) ==
  LET id == Job(t).id IN
  /\ purchases[id].status = "none" /\ tx[t].entry = NoEntry
  /\ At(t, "insertPurchase") \/ Done(t)
  /\ At(t, "insertPurchase") => Written(t) = {}
  /\ Done(t) => /\ Written(t) = {PurchaseRow(id)}
                /\ writes[t][PurchaseRow(id)] = [status |-> "pending", credits |-> Job(t).credits]

(* A delivery finds its event recorded before, or records it ... *)
Delivers(t) ==
  LET row == EventRow(Job(t).event) IN
  /\ At(t, "insertEvent") => Untouched(t)
  /\ Undone(t) => /\ Written(t) \subseteq {row} /\ tx[t].entry = NoEntry
                  /\ Written(t) = {} => events[Job(t).event] # "unseen"
  /\ At(t, "findPurchase") \/ At(t, "completePurchase")
       => Written(t) = {row} /\ tx[t].entry = NoEntry
  /\ row \in Written(t) =>
       /\ events[Job(t).event] = "unseen"
       /\ writes[t][row] = IF Done(t) THEN "processed" ELSE "recorded"

Orphans(t) ==
  /\ Delivers(t)
  /\ At(t, "insertEvent") \/ At(t, "findPurchase") \/ Undone(t)

(* ... and if it names a purchase credits that. *)
Applies(t) ==
  LET id == Job(t).id
      row == EventRow(Job(t).event)
  IN
  /\ Delivers(t)
  /\ purchases[id].status # "none"
  /\ \/ At(t, "insertEvent") \/ At(t, "findPurchase") \/ At(t, "completePurchase")
     \/ At(t, "credit") \/ At(t, "insertLedger") \/ At(t, "markProcessed") \/ Done(t) \/ Undone(t)
  /\ Undone(t) => Written(t) = {}
  /\ At(t, "credit") => Written(t) = {row, PurchaseRow(id)} /\ tx[t].entry = NoEntry
  /\ At(t, "insertLedger") \/ At(t, "markProcessed") \/ Done(t)
       => /\ Written(t) = {row, PurchaseRow(id), AccountRow}
          /\ tx[t].entry = CA!Entry("purchase", id, purchases[id].credits, 0)
  /\ PurchaseRow(id) \in Written(t) =>
       /\ purchases[id].status = "pending"
       /\ writes[t][PurchaseRow(id)] = [purchases[id] EXCEPT !.status = "completed"]
  /\ AccountRow \in Written(t) =>
       writes[t][AccountRow] = [available |-> account.available + purchases[id].credits,
                                reserved |-> account.reserved]

Proper(t) ==
  /\ ~ Running(t) => Untouched(t)
  /\ At(t, "idle") => tx[t] = Idle
  /\ Running(t) =>
       /\ Job(t) \in Jobs
       /\ ~ At(t, "commit") => tx[t].outcome = "none"
       /\ Job(t).op = "reserve" => Reserves(t)
       /\ Job(t).op \in Ending => Ends(t)
       /\ Job(t).op = "purchase" => Buys(t)
       /\ Job(t).op = "orphan" => Orphans(t)
       /\ Job(t).op = "apply" => Applies(t)

Locked(t) == \A row \in Written(t) : locks[row] = t

(* Two transactions never insert the same row. *)
OwnIds ==
  \A t, u \in Tx :
    t # u /\ Job(t).op \in {"reserve", "purchase"} /\ Job(t).op = Job(u).op => Job(t).id # Job(u).id

(* What a connection has locked while it may wait for another row. *)
HoldsOnly(t, held) == \A row \in Rows \ held : locks[row] # t

Orderly(t) ==
  /\ tx[t].pc \in {"idle", "over", "debit", "lockReservation", "insertPurchase", "insertEvent"}
       => HoldsOnly(t, {})
  /\ tx[t].pc \in {"closeReservation", "refund"} => HoldsOnly(t, {ReservationRow(Job(t).id)})
  /\ tx[t].pc \in {"findPurchase", "completePurchase"} => HoldsOnly(t, {EventRow(Job(t).event)})
  /\ tx[t].pc = "credit" => HoldsOnly(t, {EventRow(Job(t).event), PurchaseRow(Job(t).id)})

(* The inductive invariant. *)
Typed ==
  /\ tx \in [Tx -> Transaction]
  /\ DOMAIN writes = Tx
  /\ \A t \in Tx : Written(t) \subseteq Rows
  /\ locks \in [Rows -> Tx \cup {NoTx}]

Isolated == Typed /\ OwnIds /\ \A t \in Tx : Proper(t) /\ Locked(t) /\ Orderly(t)

-----------------------------------------------------------------------------
LEMMA Vocabulary ==
  /\ {"debit", "insertReservation", "lockReservation", "closeReservation", "refund",
      "insertPurchase", "insertEvent", "findPurchase", "completePurchase", "credit",
      "insertLedger", "markProcessed", "commit"} = Statements
  /\ "idle" \notin Statements /\ "over" \notin Statements
  /\ {"none", "done", "undefined", "threw", "lost"} = Outcomes
BY DEF Statements, Outcomes

(* Different tables and different ids are different rows. *)
LEMMA RowsDiffer ==
  /\ \A r : AccountRow # ReservationRow(r) /\ AccountRow # PurchaseRow(r) /\ AccountRow # EventRow(r)
  /\ \A r, p : ReservationRow(r) # PurchaseRow(p) /\ ReservationRow(r) # EventRow(p)
               /\ PurchaseRow(r) # EventRow(p)
  /\ \A r, p : ReservationRow(r) = ReservationRow(p) => r = p
  /\ \A r, p : PurchaseRow(r) = PurchaseRow(p) => r = p
  /\ \A r, p : EventRow(r) = EventRow(p) => r = p
BY DEF AccountRow, ReservationRow, PurchaseRow, EventRow

LEMMA RowsExist ==
  /\ AccountRow \in Rows
  /\ \A r \in ReservationIds : ReservationRow(r) \in Rows
  /\ \A p \in PurchaseIds : PurchaseRow(p) \in Rows
  /\ \A e \in Events : EventRow(e) \in Rows
BY DEF Rows

LEMMA CommittedRows ==
  /\ Committed(AccountRow) = account
  /\ \A r : Committed(ReservationRow(r)) = reservations[r]
  /\ \A p : Committed(PurchaseRow(p)) = purchases[p]
  /\ \A e : Committed(EventRow(e)) = events[e]
BY DEF Committed, AccountRow, ReservationRow, PurchaseRow, EventRow

(* What a caller passes with each operation. *)
LEMMA JobFields ==
  ASSUME NEW job \in Jobs
  PROVE  /\ job.op \in {"reserve", "settle", "release", "expire", "purchase", "apply", "orphan"}
         /\ job.op = "reserve" => job.id \in ReservationIds /\ job.tokens \in Tokens \ {0}
         /\ job.op = "settle" => job.id \in ReservationIds /\ job.tokens \in Tokens
         /\ job.op \in {"release", "expire"} => job.id \in ReservationIds
         /\ job.op = "purchase" => job.id \in PurchaseIds /\ job.credits \in PurchaseSizes
         /\ job.op = "apply" => job.id \in PurchaseIds /\ job.event \in Events
         /\ job.op = "orphan" => job.event \in Events
BY DEF Jobs

LEMMA CreditsAgree ==
  /\ \A t : CA!calculateCreditsFromTokens(t) = calculateCreditsFromTokens(t)
  /\ \A a, b : CA!Lesser(a, b) = Lesser(a, b)
BY DEF CA!calculateCreditsFromTokens, calculateCreditsFromTokens, CA!StartedThousands,
       StartedThousands, CA!TokensPerCredit, TokensPerCredit, CA!Lesser, Lesser

(* Writing a row locks it, and changes what its writer sees of it only. *)
LEMMA WriteRow ==
  ASSUME Typed, NEW t \in Tx, NEW row \in Rows, NEW version, Write(t, row, version)
  PROVE  /\ DOMAIN writes' = Tx
         /\ Written(t)' = Written(t) \cup {row} /\ writes'[t][row] = version
         /\ \A other \in Written(t) : other # row => writes'[t][other] = writes[t][other]
         /\ \A u \in Tx : u # t => writes'[u] = writes[u]
         /\ locks' \in [Rows -> Tx \cup {NoTx}] /\ locks'[row] = t /\ locks[row] \in {NoTx, t}
         /\ \A other \in Rows : other # row => locks'[other] = locks[other]
         /\ UNCHANGED rows
<1> DEFINE new == [x \in DOMAIN writes[t] \cup {row} |-> IF x = row THEN version ELSE writes[t][x]]
<1>1. /\ writes' = [writes EXCEPT ![t] = new] /\ locks' = [locks EXCEPT ![row] = t]
      /\ UNCHANGED rows /\ locks[row] \in {NoTx, t}
  BY DEF Write, Available
<1>2. /\ DOMAIN new = Written(t) \cup {row} /\ new[row] = version
      /\ \A other \in Written(t) : other # row => new[other] = writes[t][other]
  BY DEF Written
<1> HIDE DEF new
<1>3. DOMAIN writes' = Tx /\ writes'[t] = new /\ \A u \in Tx : u # t => writes'[u] = writes[u]
  BY <1>1 DEF Typed
<1>4. /\ locks' \in [Rows -> Tx \cup {NoTx}] /\ locks'[row] = t
      /\ \A other \in Rows : other # row => locks'[other] = locks[other]
  BY <1>1 DEF Typed
<1> QED
  BY <1>1, <1>2, <1>3, <1>4 DEF Written

-----------------------------------------------------------------------------
(* A statement of t that is not its COMMIT leaves the other connections     *)
(* what they had.                                                           *)
Frame(t) ==
  /\ UNCHANGED rows
  /\ \A u \in Tx : u # t => /\ tx'[u] = tx[u] /\ writes'[u] = writes[u]
                            /\ \A row \in Rows : locks'[row] = u <=> locks[row] = u

LEMMA FrameKeeps ==
  ASSUME Isolated, NEW t \in Tx, Frame(t), NEW u \in Tx, u # t
  PROVE  Proper(u)' /\ Locked(u)' /\ Orderly(u)'
<1>1. /\ tx'[u] = tx[u] /\ writes'[u] = writes[u]
      /\ \A row \in Rows : locks'[row] = u <=> locks[row] = u
      /\ UNCHANGED <<account, reservations, purchases, events, ledger>>
      /\ Proper(u) /\ Locked(u) /\ Orderly(u) /\ Written(u) \subseteq Rows
  BY DEF Frame, Isolated, Typed, rows
<1>2. /\ Job(u)' = Job(u) /\ Written(u)' = Written(u) /\ Untouched(u)' = Untouched(u)
      /\ Running(u)' = Running(u) /\ Undone(u)' = Undone(u) /\ Done(u)' = Done(u)
      /\ \A pc : At(u, pc)' = At(u, pc)
  BY <1>1 DEF Job, Written, Untouched, Running, Undone, Done, At
<1>3. Reserves(u) => Reserves(u)'
  BY <1>1, <1>2 DEF Reserves
<1>4. Running(u) /\ Job(u) \in Jobs /\ Job(u).op \in Ending /\ Ends(u) => Ends(u)'
  <2>1. Job(u) \in Jobs /\ Job(u).op \in Ending => ReservationRow(Job(u).id) \in Rows
    BY JobFields, RowsExist DEF Ending
  <2> QED
    BY <1>1, <1>2, <2>1 DEF Ends
<1>5. Buys(u) => Buys(u)'
  BY <1>1, <1>2 DEF Buys
<1>6. Delivers(u) => Delivers(u)'
  BY <1>1, <1>2 DEF Delivers
<1>7. Orphans(u) => Orphans(u)'
  BY <1>2, <1>6 DEF Orphans
<1>8. Applies(u) => Applies(u)'
  BY <1>1, <1>2, <1>6 DEF Applies
<1>9. Proper(u)'
  BY <1>1, <1>2, <1>3, <1>4, <1>5, <1>7, <1>8 DEF Proper
<1>10. Locked(u)' /\ Orderly(u)'
  BY <1>1, <1>2 DEF Locked, Orderly, HoldsOnly
<1> QED
  BY <1>9, <1>10

LEMMA FrameIsolated ==
  ASSUME Isolated, NEW t \in Tx, Frame(t), Typed', OwnIds',
         Proper(t)', Locked(t)', Orderly(t)'
  PROVE  Isolated'
BY FrameKeeps DEF Isolated

(* The place of a connection changes, and what it will answer. *)
Moves(t, pc, outcome, entry) ==
  /\ tx' \in [Tx -> Transaction]
  /\ tx'[t].pc = pc /\ tx'[t].job = tx[t].job
  /\ tx'[t].outcome = outcome /\ tx'[t].entry = entry
  /\ \A u \in Tx : u # t => tx'[u] = tx[u]

LEMMA RecordMoves ==
  ASSUME Typed, NEW t \in Tx, NEW x \in Transaction, tx' = [tx EXCEPT ![t] = x],
         x.job = tx[t].job
  PROVE  Moves(t, x.pc, x.outcome, x.entry)
BY DEF Typed, Moves

LEMMA GotoMoves ==
  ASSUME Typed, NEW t \in Tx, NEW pc \in Statements, Goto(t, pc)
  PROVE  Moves(t, pc, tx[t].outcome, tx[t].entry)
<1> DEFINE x == [tx[t] EXCEPT !.pc = pc]
<1>1. tx' = [tx EXCEPT ![t] = x]
  BY DEF Typed, Goto, Transaction
<1>2. /\ x \in Transaction /\ x.pc = pc /\ x.job = tx[t].job
      /\ x.outcome = tx[t].outcome /\ x.entry = tx[t].entry
  BY DEF Typed, Transaction
<1> HIDE DEF x
<1> QED
  BY <1>1, <1>2 DEF Typed, Moves

LEMMA ReturnMoves ==
  ASSUME Typed, NEW t \in Tx, NEW outcome \in Outcomes, Return(t, outcome)
  PROVE  Moves(t, "commit", outcome, tx[t].entry)
<1> DEFINE x == [tx[t] EXCEPT !.pc = "commit", !.outcome = outcome]
<1>1. tx' = [tx EXCEPT ![t] = x]
  BY DEF Typed, Return, Transaction
<1>2. /\ x \in Transaction /\ x.pc = "commit" /\ x.job = tx[t].job
      /\ x.outcome = outcome /\ x.entry = tx[t].entry
  BY DEF Typed, Transaction, Statements
<1> HIDE DEF x
<1> QED
  BY <1>1, <1>2 DEF Typed, Moves

LEMMA EnterMoves ==
  ASSUME Typed, NEW t \in Tx, NEW pc \in Statements, NEW entry \in CA!Movement,
         tx' = [tx EXCEPT ![t].pc = pc, ![t].entry = entry]
  PROVE  Moves(t, pc, tx[t].outcome, entry)
<1> DEFINE x == [tx[t] EXCEPT !.pc = pc, !.entry = entry]
<1>1. tx' = [tx EXCEPT ![t] = x]
  BY DEF Typed, Transaction
<1>2. /\ x \in Transaction /\ x.pc = pc /\ x.job = tx[t].job
      /\ x.outcome = tx[t].outcome /\ x.entry = entry
  BY DEF Typed, Transaction
<1> HIDE DEF x
<1> QED
  BY <1>1, <1>2 DEF Typed, Moves

(* A connection that goes on with its job: it is enough to look at it. *)
LEMMA MoveIsolated ==
  ASSUME Isolated, NEW t \in Tx, NEW pc, NEW outcome, NEW entry, Moves(t, pc, outcome, entry),
         \/ UNCHANGED <<rows, writes, locks>>
         \/ \E row \in Rows : Lock(t, row)
         \/ \E row \in Rows : \E version : Write(t, row, version),
         Proper(t)', Orderly(t)'
  PROVE  Isolated'
<1>1. Typed /\ OwnIds /\ Locked(t)
  BY DEF Isolated
<1>2. /\ tx' \in [Tx -> Transaction]
      /\ \A u \in Tx : tx'[u].job = tx[u].job
      /\ \A u \in Tx : u # t => tx'[u] = tx[u]
  BY DEF Moves
<1>3. OwnIds'
  BY <1>1, <1>2 DEF OwnIds, Job
<1>4. CASE UNCHANGED <<rows, writes, locks>>
  <2>1. Frame(t) /\ Typed' /\ Locked(t)'
    BY <1>1, <1>2, <1>4 DEF Frame, Typed, Locked, Written
  <2> QED
    BY <1>3, <2>1, FrameIsolated
<1>5. ASSUME NEW row \in Rows, Lock(t, row) PROVE Isolated'
  <2>1. /\ locks[row] \in {NoTx, t} /\ locks' = [locks EXCEPT ![row] = t]
        /\ UNCHANGED <<rows, writes>>
    BY <1>5 DEF Lock, Available
  <2>2. /\ locks' \in [Rows -> Tx \cup {NoTx}] /\ locks'[row] = t
        /\ \A other \in Rows : other # row => locks'[other] = locks[other]
    BY <1>1, <2>1 DEF Typed
  <2>3. \A u \in Tx : u # t => \A other \in Rows : locks'[other] = u <=> locks[other] = u
    BY <2>1, <2>2, NoTxAssumption
  <2>4. Typed' /\ Locked(t)'
    BY <1>1, <1>2, <2>1, <2>2 DEF Typed, Locked, Written
  <2>5. Frame(t)
    BY <1>2, <2>1, <2>3 DEF Frame
  <2> QED
    BY <1>3, <2>4, <2>5, FrameIsolated
<1>6. ASSUME NEW row \in Rows, NEW version, Write(t, row, version) PROVE Isolated'
  <2>1. /\ DOMAIN writes' = Tx /\ Written(t)' = Written(t) \cup {row}
        /\ \A u \in Tx : u # t => writes'[u] = writes[u]
        /\ locks' \in [Rows -> Tx \cup {NoTx}] /\ locks'[row] = t /\ locks[row] \in {NoTx, t}
        /\ \A other \in Rows : other # row => locks'[other] = locks[other]
        /\ UNCHANGED rows
    BY <1>1, <1>6, WriteRow
  <2>3. \A u \in Tx : u # t => \A other \in Rows : locks'[other] = u <=> locks[other] = u
    BY <2>1, NoTxAssumption
  <2>4. Typed' /\ Locked(t)'
    <3>1. \A u \in Tx : u # t => Written(u)' = Written(u)
      BY <2>1 DEF Written
    <3>2. \A u \in Tx : Written(u) \subseteq Rows
      BY <1>1 DEF Typed
    <3>3. \A u \in Tx : Written(u)' \subseteq Rows
      BY <2>1, <3>1, <3>2
    <3> QED
      BY <1>1, <1>2, <2>1, <3>2, <3>3 DEF Typed, Locked
  <2>5. Frame(t)
    BY <1>2, <2>1, <2>3 DEF Frame
  <2> QED
    BY <1>3, <2>4, <2>5, FrameIsolated
<1> QED
  BY <1>4, <1>5, <1>6

-----------------------------------------------------------------------------
(* Every statement belongs to the operations that send it. *)
LEMMA Senders ==
  ASSUME Isolated, NEW t \in Tx, Running(t)
  PROVE  /\ Typed /\ Job(t) \in Jobs
         /\ ~ At(t, "commit") => tx[t].outcome = "none"
         /\ tx[t].pc \in {"debit", "insertReservation"} => Job(t).op = "reserve" /\ Reserves(t)
         /\ tx[t].pc \in {"lockReservation", "closeReservation", "refund"}
              => Job(t).op \in Ending /\ Ends(t)
         /\ tx[t].pc = "insertPurchase" => Job(t).op = "purchase" /\ Buys(t)
         /\ tx[t].pc \in {"insertEvent", "findPurchase"}
              => \/ Job(t).op = "orphan" /\ Orphans(t)
                 \/ Job(t).op = "apply" /\ Applies(t)
         /\ tx[t].pc \in {"completePurchase", "credit", "markProcessed"}
              => Job(t).op = "apply" /\ Applies(t)
         /\ tx[t].pc = "insertLedger"
              => \/ Job(t).op = "reserve" /\ Reserves(t)
                 \/ Job(t).op \in Ending /\ Ends(t)
                 \/ Job(t).op = "apply" /\ Applies(t)
<1>1. Proper(t) /\ Typed
  BY DEF Isolated
<1>2. /\ Job(t) \in Jobs
      /\ ~ At(t, "commit") => tx[t].outcome = "none"
      /\ Job(t).op = "reserve" => Reserves(t)
      /\ Job(t).op \in Ending => Ends(t)
      /\ Job(t).op = "purchase" => Buys(t)
      /\ Job(t).op = "orphan" => Orphans(t)
      /\ Job(t).op = "apply" => Applies(t)
  BY <1>1 DEF Proper
<1>3. Job(t).op \in {"reserve", "purchase", "apply", "orphan"} \cup Ending
  BY <1>2, JobFields DEF Ending
<1>4. /\ Reserves(t) => tx[t].pc \in {"debit", "insertReservation", "insertLedger", "commit"}
      /\ Ends(t) => tx[t].pc \in {"lockReservation", "closeReservation", "refund",
                                  "insertLedger", "commit"}
      /\ Buys(t) => tx[t].pc \in {"insertPurchase", "commit"}
      /\ Orphans(t) => tx[t].pc \in {"insertEvent", "findPurchase", "commit"}
      /\ Applies(t) => tx[t].pc \in {"insertEvent", "findPurchase", "completePurchase", "credit",
                                     "insertLedger", "markProcessed", "commit"}
  BY DEF Reserves, Ends, Buys, Orphans, Applies, At, Undone, Done
<1> QED
  BY <1>1, <1>2, <1>3, <1>4

(* What a connection goes on to, for each operation. *)
LEMMA GoesOn ==
  ASSUME Isolated, NEW t \in Tx, Running(t), NEW pc \in Statements, NEW outcome, NEW entry,
         Moves(t, pc, outcome, entry), pc = "commit" \/ outcome = "none",
         \/ Job(t).op = "reserve" /\ Reserves(t)'
         \/ Job(t).op \in Ending /\ Ends(t)'
         \/ Job(t).op = "purchase" /\ Buys(t)'
         \/ Job(t).op = "orphan" /\ Orphans(t)'
         \/ Job(t).op = "apply" /\ Applies(t)'
  PROVE  Proper(t)'
<1>1. Job(t) \in Jobs /\ Job(t)' = Job(t)
  BY Senders DEF Moves, Job
<1>2. Running(t)' /\ ~ At(t, "idle")' /\ (At(t, "commit")' <=> pc = "commit")
  BY Vocabulary DEF Moves, Running, At
<1> QED
  BY <1>1, <1>2 DEF Proper, Moves, Ending

LEMMA VisibleRows ==
  ASSUME NEW t \in Tx
  PROVE  /\ AccountRow \notin Written(t) => Visible(t, AccountRow) = account
         /\ \A r : ReservationRow(r) \notin Written(t) => Visible(t, ReservationRow(r)) = reservations[r]
         /\ \A p : PurchaseRow(p) \notin Written(t) => Visible(t, PurchaseRow(p)) = purchases[p]
         /\ \A e : EventRow(e) \notin Written(t) => Visible(t, EventRow(e)) = events[e]
         /\ \A row \in Written(t) : Visible(t, row) = writes[t][row]
BY CommittedRows DEF Visible, Written

LEMMA DebitKeeps == ASSUME Isolated, NEW t \in Tx, Debit(t) PROVE Isolated'
<1>1. Running(t) /\ At(t, "debit")
  BY Vocabulary DEF Debit, At, Running
<1>2. /\ Typed /\ Job(t) \in Jobs /\ Job(t).op = "reserve" /\ Reserves(t) /\ Untouched(t)
      /\ tx[t].outcome = "none"
  BY <1>1, Senders DEF At, Reserves
<1> DEFINE credits == calculateCreditsFromTokens(Job(t).tokens)
<1>3. Visible(t, AccountRow) = account
  BY <1>2, VisibleRows DEF Untouched
<1>4. CASE /\ account.available >= credits
           /\ Write(t, AccountRow, [available |-> account.available - credits,
                                    reserved |-> account.reserved + credits])
           /\ Goto(t, "insertReservation")
  <2>1. Moves(t, "insertReservation", "none", NoEntry)
    BY <1>2, <1>4, GotoMoves, Vocabulary DEF Untouched
  <2>2. /\ Written(t)' = {AccountRow} /\ UNCHANGED rows
        /\ writes'[t][AccountRow] = [available |-> account.available - credits,
                                     reserved |-> account.reserved + credits]
    BY <1>2, <1>4, WriteRow, RowsExist DEF Untouched
  <2>3. Reserves(t)'
    BY <1>2, <1>4, <2>1, <2>2 DEF Reserves, Moves, Job, At, Done, Undone, rows
  <2>4. Proper(t)'
    BY <1>1, <1>2, <2>1, <2>3, GoesOn, Vocabulary
  <2>5. Orderly(t)'
    BY <2>1 DEF Orderly, Moves
  <2> QED
    BY <1>4, <2>1, <2>4, <2>5, MoveIsolated, RowsExist
<1>5. CASE Return(t, "undefined") /\ UNCHANGED <<rows, writes, locks>>
  <2>1. Moves(t, "commit", "undefined", NoEntry)
    BY <1>2, <1>5, ReturnMoves, Vocabulary DEF Untouched
  <2>2. Reserves(t)'
    BY <1>2, <1>5, <2>1 DEF Reserves, Moves, Job, At, Done, Undone, rows, Untouched, Written
  <2>3. Proper(t)'
    BY <1>1, <1>2, <2>1, <2>2, GoesOn, Vocabulary
  <2>4. Orderly(t)'
    BY <2>1 DEF Orderly, Moves
  <2> QED
    BY <1>5, <2>1, <2>3, <2>4, MoveIsolated
<1> QED
  BY <1>3, <1>4, <1>5 DEF Debit

LEMMA EntryTyped ==
  ASSUME NEW kind \in CA!MovementKinds, NEW row \in Nat, NEW a \in Int, NEW b \in Int
  PROVE  /\ CA!Entry(kind, row, a, b) \in CA!Movement
         /\ CA!Entry(kind, row, a, b) = [kind |-> kind, row |-> row,
                                         delta_available |-> a, delta_reserved |-> b]
BY DEF CA!Entry, CA!Movement

LEMMA CreditsType ==
  ASSUME NEW t \in Nat PROVE calculateCreditsFromTokens(t) \in Nat
BY DEF calculateCreditsFromTokens, StartedThousands, TokensPerCredit

LEMMA InsertReservationKeeps ==
  ASSUME Isolated, NEW t \in Tx, InsertReservation(t) PROVE Isolated'
<1>1. Running(t) /\ At(t, "insertReservation")
  BY Vocabulary DEF InsertReservation, At, Running
<1>2. /\ Typed /\ Job(t) \in Jobs /\ Job(t).op = "reserve" /\ Reserves(t)
      /\ Written(t) = {AccountRow} /\ tx[t].outcome = "none"
  BY <1>1, Senders DEF At, Reserves
<1> DEFINE id == Job(t).id
           credits == calculateCreditsFromTokens(Job(t).tokens)
           entry == CA!Entry("reservation", id, -credits, credits)
           version == [status |-> "reserved", reserved_credits |-> credits, settled_credits |-> 0]
<1>3. id \in ReservationIds /\ id \in Nat /\ credits \in Nat
  <2>1. id \in ReservationIds /\ Job(t).tokens \in Nat
    BY <1>2, JobFields, TokensAssumption
  <2> QED
    BY <2>1, CreditsType, BoundsAssumption DEF ReservationIds
<1>4. /\ entry \in CA!Movement
      /\ entry = [kind |-> "reservation", row |-> id, delta_available |-> -credits,
                  delta_reserved |-> credits]
  <2>1. "reservation" \in CA!MovementKinds /\ -credits \in Int
    BY <1>3 DEF CA!MovementKinds
  <2> QED
    BY <1>3, <2>1, EntryTyped
<1>5. /\ Write(t, ReservationRow(id), version)
      /\ tx' = [tx EXCEPT ![t].pc = "insertLedger", ![t].entry = entry]
  BY <1>4 DEF InsertReservation
<1> HIDE DEF entry, version
<1>6. Moves(t, "insertLedger", "none", entry)
  BY <1>2, <1>4, <1>5, EnterMoves, Vocabulary
<1>7. /\ Written(t)' = {AccountRow, ReservationRow(id)} /\ UNCHANGED rows
      /\ writes'[t][ReservationRow(id)] = version
      /\ writes'[t][AccountRow] = writes[t][AccountRow]
  BY <1>2, <1>3, <1>5, WriteRow, RowsExist, RowsDiffer
<1>8. Reserves(t)'
  BY <1>2, <1>6, <1>7 DEF Reserves, Moves, Job, At, Done, Undone, rows, entry, version
<1>9. Proper(t)'
  BY <1>1, <1>2, <1>6, <1>8, GoesOn, Vocabulary
<1>10. Orderly(t)'
  BY <1>6 DEF Orderly, Moves
<1> QED
  BY <1>3, <1>5, <1>6, <1>9, <1>10, MoveIsolated, RowsExist

LEMMA LockReservationKeeps ==
  ASSUME Isolated, CA!TypeOK, NEW t \in Tx, LockReservation(t) PROVE Isolated'
<1>1. Running(t) /\ At(t, "lockReservation")
  BY Vocabulary DEF LockReservation, At, Running
<1>2. /\ Typed /\ Job(t) \in Jobs /\ Job(t).op \in Ending /\ Ends(t)
      /\ Untouched(t) /\ tx[t].outcome = "none" /\ Orderly(t)
  BY <1>1, Senders DEF At, Ends, Isolated
<1> DEFINE id == Job(t).id
<1>3. id \in ReservationIds /\ ReservationRow(id) \in Rows
  BY <1>2, JobFields, RowsExist DEF Ending
<1>4. ReservationOf(t) = reservations[id]
  BY <1>2, VisibleRows DEF Untouched, ReservationOf
<1>5. /\ Lock(t, ReservationRow(id)) /\ UNCHANGED <<rows, writes>>
      /\ locks' = [locks EXCEPT ![ReservationRow(id)] = t]
  BY DEF LockReservation, Lock
<1>6. /\ locks'[ReservationRow(id)] = t
      /\ \A row \in Rows : row # ReservationRow(id) => locks'[row] = locks[row]
  BY <1>2, <1>3, <1>5 DEF Typed
<1>7. UNCHANGED <<reservations, account>> /\ Written(t)' = {}
  BY <1>2, <1>5 DEF rows, Written, Untouched
<1>8. CASE reservations[id].status = "reserved" /\ Goto(t, "closeReservation")
  <2>1. Moves(t, "closeReservation", "none", NoEntry)
    BY <1>2, <1>8, GotoMoves, Vocabulary DEF Untouched
  <2>2. Ends(t)'
    BY <1>2, <1>6, <1>7, <1>8, <2>1 DEF Ends, Moves, Job, At, Done, Undone, Untouched
  <2>3. Proper(t)'
    BY <1>1, <1>2, <2>1, <2>2, GoesOn, Vocabulary
  <2>4. Orderly(t)'
    BY <1>1, <1>2, <1>6, <2>1 DEF Orderly, Moves, HoldsOnly, At, Job
  <2> QED
    BY <1>3, <1>5, <2>1, <2>3, <2>4, MoveIsolated
<1>9. CASE reservations[id].status # "reserved" /\ Return(t, "undefined")
  <2>1. Moves(t, "commit", "undefined", NoEntry)
    BY <1>2, <1>9, ReturnMoves, Vocabulary DEF Untouched
  <2>2. reservations[id].status \in CA!Terminal
    BY <1>2, <1>3, <1>9 DEF Ends, CA!TypeOK, CA!Reservation, CA!ReservationIds, ReservationIds
  <2>3. Ends(t)'
    BY <1>2, <1>7, <2>1, <2>2 DEF Ends, Moves, Job, At, Done, Undone, Untouched
  <2>4. Proper(t)'
    BY <1>1, <1>2, <2>1, <2>3, GoesOn, Vocabulary
  <2>5. Orderly(t)'
    BY <2>1 DEF Orderly, Moves
  <2> QED
    BY <1>3, <1>5, <2>1, <2>4, <2>5, MoveIsolated
<1> QED
  BY <1>4, <1>8, <1>9 DEF LockReservation

(* A reservation that is closed keeps what it held and is charged at most that. *)
LEMMA ClosingTyped ==
  ASSUME NEW job \in Jobs, job.op \in Ending, NEW row \in CA!Reservation, row.status = "reserved"
  PROVE  /\ EntryOf(job, row) \in CA!Movement
         /\ EntryOf(job, row).delta_reserved = -row.reserved_credits
         /\ EntryOf(job, row).delta_available \in Int
         /\ job.id \in Nat
<1> DEFINE held == row.reserved_credits
           charge == Charge(job, row)
<1>1. job.id \in ReservationIds /\ job.id \in Nat
  BY JobFields, BoundsAssumption DEF Ending, ReservationIds
<1>2. held \in Nat
  BY DEF CA!Reservation
<1>3. job.op = "settle" => charge \in Nat
  BY <1>2, JobFields, TokensAssumption, CreditsType DEF Charge, Lesser
<1>4. {"settlement", "release", "expiry"} \subseteq CA!MovementKinds
  BY DEF CA!MovementKinds
<1>5. CASE job.op = "settle"
  <2> HIDE DEF charge
  <2>1. EntryOf(job, row) = CA!Entry("settlement", job.id, held - charge, -held)
    BY <1>5 DEF EntryOf, charge
  <2> HIDE DEF held
  <2>2. held - charge \in Int /\ -held \in Int
    BY <1>2, <1>3, <1>5
  <2>3. /\ EntryOf(job, row) \in CA!Movement
        /\ EntryOf(job, row) = [kind |-> "settlement", row |-> job.id,
                                delta_available |-> held - charge, delta_reserved |-> -held]
    BY <1>1, <1>4, <2>1, <2>2, EntryTyped
  <2> QED
    BY <1>1, <2>2, <2>3 DEF held
<1>6. ASSUME NEW kind \in {"release", "expiry"}, EntryOf(job, row) = CA!Entry(kind, job.id, held, -held)
      PROVE  /\ EntryOf(job, row) \in CA!Movement
             /\ EntryOf(job, row).delta_reserved = -held
             /\ EntryOf(job, row).delta_available \in Int
  <2> HIDE DEF held
  <2>1. held \in Int /\ -held \in Int
    BY <1>2
  <2>2. kind \in CA!MovementKinds
    BY <1>4
  <2>3. /\ CA!Entry(kind, job.id, held, -held) \in CA!Movement
        /\ CA!Entry(kind, job.id, held, -held) = [kind |-> kind, row |-> job.id,
             delta_available |-> held, delta_reserved |-> -held]
    BY <1>1, <2>1, <2>2, EntryTyped
  <2> QED
    BY <1>6, <2>1, <2>3
<1>7. CASE job.op = "release"
  BY <1>1, <1>6, <1>7 DEF EntryOf
<1>8. CASE job.op = "expire"
  BY <1>1, <1>6, <1>8 DEF EntryOf
<1> QED
  BY <1>5, <1>7, <1>8 DEF Ending

LEMMA ClosingIs ==
  ASSUME NEW t \in Tx, NEW row, ReservationOf(t) = row, Job(t).op \in Ending
  PROVE  ClosedRow(t) = ClosedAs(Job(t), row) /\ ClosingEntry(t) = EntryOf(Job(t), row)
BY DEF ClosedRow, ClosedAs, ClosingEntry, EntryOf, SettledCredits, Charge, CA!Entry, Ending

LEMMA CloseReservationKeeps ==
  ASSUME Isolated, CA!TypeOK, NEW t \in Tx, CloseReservation(t) PROVE Isolated'
<1>1. Running(t) /\ At(t, "closeReservation")
  BY Vocabulary DEF CloseReservation, At, Running
<1>2. /\ Typed /\ Job(t) \in Jobs /\ Job(t).op \in Ending /\ Ends(t)
      /\ Untouched(t) /\ tx[t].outcome = "none" /\ Orderly(t)
  BY <1>1, Senders DEF At, Ends, Isolated
<1> DEFINE id == Job(t).id
           row == reservations[id]
<1>3. id \in ReservationIds /\ ReservationRow(id) \in Rows
  BY <1>2, JobFields, RowsExist DEF Ending
<1>4. ReservationOf(t) = row /\ row.status = "reserved" /\ row \in CA!Reservation
  BY <1>1, <1>2, <1>3, VisibleRows DEF Untouched, ReservationOf, Ends, CA!TypeOK,
     CA!ReservationIds, ReservationIds
<1>5. PICK entry \in CA!Movement : entry = EntryOf(Job(t), row)
  BY <1>2, <1>4, ClosingTyped
<1>6. /\ Write(t, ReservationRow(id), ClosedAs(Job(t), row))
      /\ tx' = [tx EXCEPT ![t].pc = "refund", ![t].entry = entry]
  BY <1>2, <1>4, <1>5, ClosingIs DEF CloseReservation
<1>7. Moves(t, "refund", "none", entry)
  BY <1>2, <1>5, <1>6, EnterMoves, Vocabulary
<1>8. /\ Written(t)' = {ReservationRow(id)} /\ UNCHANGED rows
      /\ writes'[t][ReservationRow(id)] = ClosedAs(Job(t), row)
      /\ locks'[ReservationRow(id)] = t
      /\ \A other \in Rows : other # ReservationRow(id) => locks'[other] = locks[other]
  BY <1>2, <1>3, <1>6, WriteRow DEF Untouched
<1>9. Ends(t)'
  BY <1>2, <1>4, <1>5, <1>7, <1>8, RowsDiffer DEF Ends, Moves, Job, At, Done, Undone, rows
<1>10. Proper(t)'
  BY <1>1, <1>2, <1>7, <1>9, GoesOn, Vocabulary
<1>11. Orderly(t)'
  BY <1>1, <1>2, <1>7, <1>8 DEF Orderly, Moves, HoldsOnly, At, Job
<1> QED
  BY <1>3, <1>6, <1>7, <1>10, <1>11, MoveIsolated

LEMMA RefundKeeps ==
  ASSUME Isolated, CA!TypeOK, CA!RefundCovered, NEW t \in Tx, Refund(t) PROVE Isolated'
<1>1. Running(t) /\ At(t, "refund")
  BY Vocabulary DEF Refund, At, Running
<1>2. /\ Typed /\ Job(t) \in Jobs /\ Job(t).op \in Ending /\ Ends(t)
      /\ Written(t) = {ReservationRow(Job(t).id)} /\ tx[t].outcome = "none"
  BY <1>1, Senders DEF At, Ends
<1> DEFINE id == Job(t).id
           row == reservations[id]
<1>3. id \in ReservationIds
  BY <1>2, JobFields DEF Ending
<1>4. row.status = "reserved" /\ row \in CA!Reservation /\ tx[t].entry = EntryOf(Job(t), row)
  BY <1>2, <1>3 DEF Ends, CA!TypeOK, CA!ReservationIds, ReservationIds
<1>5. PICK entry : entry = tx[t].entry
  OBVIOUS
<1>6. /\ entry.delta_reserved = -row.reserved_credits /\ row.reserved_credits \in Nat
      /\ account.reserved \in Nat /\ account.reserved >= row.reserved_credits
  BY <1>2, <1>3, <1>4, <1>5, ClosingTyped DEF CA!Reservation, CA!TypeOK, CA!Account,
     CA!RefundCovered, CA!ReservationIds, ReservationIds
<1>7. Visible(t, AccountRow) = account
  BY <1>2, VisibleRows, RowsDiffer
<1> DEFINE version == [available |-> account.available + entry.delta_available,
                       reserved |-> account.reserved + entry.delta_reserved]
<1>8. Write(t, AccountRow, version) /\ Goto(t, "insertLedger")
  <2>1. ~ account.reserved < -entry.delta_reserved
    BY <1>6
  <2> QED
    BY <1>5, <1>7, <2>1 DEF Refund
<1> HIDE DEF version
<1>9. Moves(t, "insertLedger", "none", entry)
  BY <1>2, <1>5, <1>8, GotoMoves, Vocabulary
<1>10. /\ Written(t)' = {ReservationRow(id), AccountRow} /\ UNCHANGED rows
       /\ writes'[t][AccountRow] = version
       /\ writes'[t][ReservationRow(id)] = writes[t][ReservationRow(id)]
  BY <1>2, <1>8, WriteRow, RowsExist, RowsDiffer
<1>11. Ends(t)'
  BY <1>2, <1>4, <1>5, <1>6, <1>9, <1>10
     DEF Ends, Moves, Job, At, Done, Undone, rows, version
<1>12. Proper(t)'
  BY <1>1, <1>2, <1>9, <1>11, GoesOn, Vocabulary
<1>13. Orderly(t)'
  BY <1>9 DEF Orderly, Moves
<1> QED
  BY <1>8, <1>9, <1>12, <1>13, MoveIsolated, RowsExist

-----------------------------------------------------------------------------
(* The end of a transaction gives back its locks and forgets its versions. *)
LEMMA EndRows ==
  ASSUME Typed, NEW t \in Tx, NEW outcome \in Outcomes, End(t, outcome)
  PROVE  /\ Moves(t, "over", outcome, NoEntry)
         /\ DOMAIN writes' = Tx /\ Written(t)' = {}
         /\ \A u \in Tx : u # t => writes'[u] = writes[u]
         /\ locks' \in [Rows -> Tx \cup {NoTx}]
         /\ \A row \in Rows : locks'[row] # t
         /\ \A u \in Tx : u # t => \A row \in Rows : locks'[row] = u <=> locks[row] = u
<1> DEFINE x == [Idle EXCEPT !.pc = "over", !.job = tx[t].job, !.outcome = outcome]
<1>1. /\ tx' = [tx EXCEPT ![t] = x] /\ writes' = [writes EXCEPT ![t] = <<>>]
      /\ locks' = [row \in Rows |-> IF locks[row] = t THEN NoTx ELSE locks[row]]
  BY DEF End
<1>2. /\ x \in Transaction /\ x.pc = "over" /\ x.job = tx[t].job
      /\ x.outcome = outcome /\ x.entry = NoEntry
  BY DEF Typed, Transaction, Idle
<1> HIDE DEF x
<1>3. Moves(t, "over", outcome, NoEntry)
  BY <1>1, <1>2 DEF Typed, Moves
<1>4. DOMAIN writes' = Tx /\ writes'[t] = <<>> /\ \A u \in Tx : u # t => writes'[u] = writes[u]
  BY <1>1 DEF Typed
<1>5. DOMAIN <<>> = {}
  OBVIOUS
<1>6. Written(t)' = {}
  BY <1>4, <1>5 DEF Written
<1>7. /\ locks' \in [Rows -> Tx \cup {NoTx}]
      /\ \A row \in Rows : locks'[row] # t
      /\ \A u \in Tx : u # t => \A row \in Rows : locks'[row] = u <=> locks[row] = u
  BY <1>1, NoTxAssumption DEF Typed
<1> QED
  BY <1>3, <1>4, <1>6, <1>7

LEMMA OverIsProper ==
  ASSUME Typed, NEW t \in Tx, NEW outcome \in Outcomes, End(t, outcome)
  PROVE  Typed' /\ Proper(t)' /\ Locked(t)' /\ Orderly(t)'
<1>1. /\ Moves(t, "over", outcome, NoEntry) /\ DOMAIN writes' = Tx /\ Written(t)' = {}
      /\ \A u \in Tx : u # t => writes'[u] = writes[u]
      /\ locks' \in [Rows -> Tx \cup {NoTx}] /\ \A row \in Rows : locks'[row] # t
  BY EndRows
<1>2. Typed'
  <2>1. \A u \in Tx : u # t => Written(u)' = Written(u)
    BY <1>1 DEF Written
  <2> QED
    BY <1>1, <2>1 DEF Typed, Moves
<1>3. Proper(t)' /\ Locked(t)' /\ Orderly(t)'
  BY <1>1, Vocabulary DEF Proper, Moves, Running, At, Untouched, Locked, Orderly, HoldsOnly
<1> QED
  BY <1>2, <1>3

LEMMA RollbackKeeps ==
  ASSUME Isolated, NEW t \in Tx, NEW outcome \in Outcomes, Rollback(t, outcome)
  PROVE  Isolated'
<1>1. Typed /\ End(t, outcome) /\ UNCHANGED rows /\ OwnIds
  BY DEF Isolated, Rollback
<1>2. Frame(t)
  BY <1>1, EndRows DEF Frame, Moves
<1>3. OwnIds'
  <2>1. \A u \in Tx : tx'[u].job = tx[u].job
    BY <1>1, EndRows DEF Moves
  <2> QED
    BY <1>1, <2>1 DEF OwnIds, Job
<1> QED
  BY <1>1, <1>2, <1>3, OverIsProper, FrameIsolated

LEMMA BeginKeeps ==
  ASSUME Isolated, NEW t \in Tx, NEW job \in Jobs, Begin(t, job) PROVE Isolated'
<1>1. /\ Typed /\ tx[t] = Idle /\ Untouched(t) /\ Orderly(t) /\ OwnIds /\ Locked(t)
      /\ UNCHANGED <<rows, writes, locks>> /\ At(t, "idle")
  <2>1. ~ Running(t)
    BY Vocabulary DEF Begin, At, Running
  <2> QED
    BY <2>1 DEF Isolated, Begin, Proper
<1> DEFINE x == [tx[t] EXCEPT !.pc = FirstStatement(job.op), !.job = job]
<1>2. job.op \in {"reserve", "purchase", "apply", "orphan"} \cup Ending
  BY JobFields DEF Ending
<1>3. PICK pc \in {"debit", "lockReservation", "insertPurchase", "insertEvent"} :
        /\ pc = FirstStatement(job.op)
        /\ pc = "debit" <=> job.op = "reserve"
        /\ pc = "lockReservation" <=> job.op \in Ending
        /\ pc = "insertPurchase" <=> job.op = "purchase"
        /\ pc = "insertEvent" <=> job.op \in {"apply", "orphan"}
  BY <1>2 DEF FirstStatement, Ending
<1>4. tx' = [tx EXCEPT ![t] = x]
  BY <1>1 DEF Begin, Typed, Transaction
<1>5. x \in Transaction /\ x.pc = pc /\ x.job = job /\ x.outcome = "none" /\ x.entry = NoEntry
  <2>1. tx[t] \in Transaction /\ tx[t].outcome = "none" /\ tx[t].entry = NoEntry
    BY <1>1 DEF Typed, Idle
  <2>2. pc \in Statements
    BY Vocabulary
  <2>3. x.pc = pc /\ x.job = job /\ x.outcome = tx[t].outcome /\ x.entry = tx[t].entry
    BY <1>3, <2>1 DEF Transaction
  <2>4. x \in Transaction
    BY <1>3, <2>1, <2>2 DEF Transaction
  <2> QED
    BY <2>1, <2>3, <2>4
<1> HIDE DEF x
<1>6. tx' \in [Tx -> Transaction] /\ tx'[t] = x /\ \A u \in Tx : u # t => tx'[u] = tx[u]
  BY <1>1, <1>4, <1>5 DEF Typed
<1>7. Frame(t) /\ Typed' /\ Locked(t)'
  BY <1>1, <1>6 DEF Frame, Typed, Locked, Written
<1>8. OwnIds'
  <2>1. ASSUME NEW u \in Tx, u # t, job.op \in {"reserve", "purchase"}, job.op = Job(u).op
        PROVE  job.id # Job(u).id
    BY <2>1 DEF Begin, NextId, UsedIds, Job
  <2> QED
    BY <1>1, <1>5, <1>6, <2>1 DEF OwnIds, Job
<1>9. Orderly(t)'
  BY <1>1, <1>3, <1>5, <1>6 DEF Orderly, HoldsOnly, At
<1>10. /\ Untouched(t)' /\ Written(t)' = {} /\ Job(t)' = job /\ Running(t)'
       /\ UNCHANGED <<account, reservations, purchases, events>>
       /\ tx'[t].pc = pc /\ tx'[t].outcome = "none" /\ tx'[t].entry = NoEntry
  BY <1>1, <1>3, <1>5, <1>6, Vocabulary DEF Untouched, Written, Job, Running, rows
<1> DEFINE fits ==
      /\ job.op = "reserve" => Reserves(t)
      /\ job.op \in Ending => Ends(t)
      /\ job.op = "purchase" => Buys(t)
      /\ job.op = "orphan" => Orphans(t)
      /\ job.op = "apply" => Applies(t)
<1>11. SUFFICES fits'
  <2>1. ~ At(t, "idle")' /\ Job(t)' \in Jobs
    BY <1>3, <1>10 DEF At
  <2> QED
    BY <1>7, <1>8, <1>9, <1>10, <2>1, FrameIsolated DEF Proper
<1>12. CASE job.op = "reserve"
  <2>1. reservations[job.id].status = "none"
    BY <1>12, JobFields DEF Begin, NextId, UsedIds
  <2>2. Reserves(t)'
    BY <1>3, <1>10, <1>12, <2>1 DEF Reserves, At, Done, Undone
  <2> QED
    BY <1>10, <1>12, <2>2 DEF Ending
<1>13. CASE job.op \in Ending
  <2>1. reservations[job.id].status # "none"
    BY <1>13 DEF Begin, Ending
  <2>2. Ends(t)'
    BY <1>3, <1>10, <1>13, <2>1 DEF Ends, At, Done, Undone
  <2> QED
    BY <1>10, <1>13, <2>2 DEF Ending
<1>14. CASE job.op = "purchase"
  <2>1. purchases[job.id].status = "none"
    BY <1>14, JobFields DEF Begin, NextId, UsedIds
  <2>2. Buys(t)'
    BY <1>3, <1>10, <1>14, <2>1 DEF Buys, At, Done, Undone
  <2> QED
    BY <1>10, <1>14, <2>2 DEF Ending
<1>15. CASE job.op \in {"apply", "orphan"}
  <2>1. job.op = "apply" => purchases[job.id].status # "none"
    BY DEF Begin
  <2>2. Delivers(t)'
    BY <1>3, <1>10, <1>15 DEF Delivers, At, Done, Undone
  <2>3. job.op = "apply" => Applies(t)'
    BY <1>3, <1>10, <1>15, <2>1, <2>2 DEF Applies, At, Done, Undone
  <2>4. Orphans(t)'
    BY <1>3, <1>10, <1>15, <2>2 DEF Orphans, At, Done, Undone
  <2> QED
    BY <1>10, <1>15, <2>3, <2>4 DEF Ending
<1> QED
  BY <1>2, <1>12, <1>13, <1>14, <1>15

LEMMA ReleaseClientKeeps == ASSUME Isolated, NEW t \in Tx, ReleaseClient(t) PROVE Isolated'
<1>1. /\ Typed /\ Untouched(t) /\ Orderly(t) /\ OwnIds /\ Locked(t) /\ At(t, "over")
      /\ UNCHANGED <<rows, writes, locks>> /\ tx' = [tx EXCEPT ![t] = Idle]
  <2>1. ~ Running(t)
    BY Vocabulary DEF ReleaseClient, At, Running
  <2> QED
    BY <2>1 DEF Isolated, ReleaseClient, Proper
<1>2. Idle \in Transaction /\ Idle.pc = "idle" /\ Idle.job = NoJob /\ Idle.entry = NoEntry
  BY Vocabulary DEF Idle, Transaction
<1>3. tx' \in [Tx -> Transaction] /\ tx'[t] = Idle /\ \A u \in Tx : u # t => tx'[u] = tx[u]
  BY <1>1, <1>2 DEF Typed
<1>4. Frame(t) /\ Typed' /\ Locked(t)'
  BY <1>1, <1>3 DEF Frame, Typed, Locked, Written
<1>5. OwnIds'
  <2>1. tx'[t].job.op = "none"
    BY <1>2, <1>3 DEF NoJob
  <2> QED
    BY <1>1, <1>3, <2>1 DEF OwnIds, Job
<1>6. Proper(t)' /\ Orderly(t)'
  BY <1>1, <1>2, <1>3, Vocabulary
     DEF Proper, Running, At, Untouched, Written, Orderly, HoldsOnly
<1> QED
  BY <1>4, <1>5, <1>6, FrameIsolated

LEMMA InsertPurchaseKeeps ==
  ASSUME Isolated, NEW t \in Tx, InsertPurchase(t) PROVE Isolated'
<1>1. Running(t) /\ At(t, "insertPurchase")
  BY Vocabulary DEF InsertPurchase, At, Running
<1>2. /\ Typed /\ Job(t) \in Jobs /\ Job(t).op = "purchase" /\ Buys(t)
      /\ Written(t) = {} /\ tx[t].outcome = "none" /\ tx[t].entry = NoEntry
  BY <1>1, Senders DEF At, Buys
<1> DEFINE id == Job(t).id
           version == [status |-> "pending", credits |-> Job(t).credits]
<1>3. id \in PurchaseIds /\ PurchaseRow(id) \in Rows
  BY <1>2, JobFields, RowsExist
<1>4. Write(t, PurchaseRow(id), version) /\ Return(t, "done")
  BY DEF InsertPurchase
<1> HIDE DEF version
<1>5. Moves(t, "commit", "done", NoEntry)
  BY <1>2, <1>4, ReturnMoves, Vocabulary
<1>6. /\ Written(t)' = {PurchaseRow(id)} /\ UNCHANGED rows
      /\ writes'[t][PurchaseRow(id)] = version
  BY <1>2, <1>3, <1>4, WriteRow
<1>7. Buys(t)'
  BY <1>2, <1>5, <1>6 DEF Buys, Moves, Job, At, Done, rows, version
<1>8. Proper(t)'
  BY <1>1, <1>2, <1>5, <1>7, GoesOn, Vocabulary
<1>9. Orderly(t)'
  BY <1>5 DEF Orderly, Moves
<1> QED
  BY <1>3, <1>4, <1>5, <1>8, <1>9, MoveIsolated

(* An event delivered for a purchase and one delivered for none start alike. *)
LEMMA InsertEventKeeps ==
  ASSUME Isolated, NEW t \in Tx, InsertEvent(t) PROVE Isolated'
<1>1. Running(t) /\ At(t, "insertEvent")
  BY Vocabulary DEF InsertEvent, At, Running
<1>2. /\ Typed /\ Job(t) \in Jobs /\ Delivers(t) /\ Untouched(t) /\ tx[t].outcome = "none"
      /\ \/ Job(t).op = "orphan" /\ Orphans(t)
         \/ Job(t).op = "apply" /\ Applies(t)
      /\ Orderly(t)
  BY <1>1, Senders DEF At, Orphans, Applies, Delivers, Isolated
<1> DEFINE row == EventRow(Job(t).event)
<1>3. row \in Rows
  BY <1>2, JobFields, RowsExist
<1>4. Visible(t, row) = events[Job(t).event]
  BY <1>2, VisibleRows DEF Untouched
<1> HIDE DEF row
<1>5. ASSUME NEW pc \in Statements, NEW outcome, Moves(t, pc, outcome, NoEntry),
             pc = "commit" \/ outcome = "none", UNCHANGED rows, Delivers(t)', Orderly(t)',
             pc = "findPurchase" \/ (pc = "commit" /\ outcome = "undefined" /\ Written(t)' = {}),
             \/ UNCHANGED <<rows, writes, locks>>
             \/ \E r \in Rows : \E version : Write(t, r, version),
             \A r \in Written(t)' : r = row
      PROVE  Isolated'
  <2>1. /\ Job(t)' = Job(t) /\ UNCHANGED purchases /\ tx'[t].pc = pc
        /\ tx'[t].outcome = outcome
    BY <1>5 DEF Moves, Job, rows
  <2>2. Orphans(t)'
    BY <1>5, <2>1 DEF Orphans, At, Undone
  <2>3. Job(t).op = "apply" => Applies(t)'
    <3>1. Job(t).op = "apply" => purchases[Job(t).id].status # "none"
      BY <1>2 DEF Applies
    <3>2. AccountRow \notin Written(t)' /\ PurchaseRow(Job(t).id) \notin Written(t)'
      BY <1>5, RowsDiffer DEF row
    <3> QED
      BY <1>5, <2>1, <3>1, <3>2 DEF Applies, At, Done, Undone
  <2>4. Proper(t)'
    BY <1>1, <1>2, <1>5, <2>2, <2>3, GoesOn
  <2> QED
    BY <1>5, <2>4, MoveIsolated
<1>6. CASE events[Job(t).event] = "unseen" /\ Write(t, row, "recorded") /\ Goto(t, "findPurchase")
  <2>1. Moves(t, "findPurchase", "none", NoEntry)
    BY <1>2, <1>6, GotoMoves, Vocabulary DEF Untouched
  <2>2. /\ Written(t)' = {row} /\ writes'[t][row] = "recorded" /\ UNCHANGED rows
        /\ \A other \in Rows : other # row => locks'[other] = locks[other]
    BY <1>2, <1>3, <1>6, WriteRow DEF Untouched
  <2>3. Delivers(t)'
    BY <1>6, <2>1, <2>2 DEF Delivers, Moves, Job, At, Done, Undone, rows, row
  <2>4. Orderly(t)'
    BY <1>1, <1>2, <2>1, <2>2 DEF Orderly, Moves, HoldsOnly, At, Job, row
  <2> QED
    BY <1>3, <1>5, <1>6, <2>1, <2>2, <2>3, <2>4, Vocabulary
<1>7. CASE /\ events[Job(t).event] # "unseen" /\ Return(t, "undefined")
           /\ UNCHANGED <<rows, writes, locks>>
  <2>1. Moves(t, "commit", "undefined", NoEntry)
    BY <1>2, <1>7, ReturnMoves, Vocabulary DEF Untouched
  <2>2. Written(t)' = {} /\ UNCHANGED rows
    BY <1>2, <1>7 DEF Written, Untouched
  <2>3. Delivers(t)'
    BY <1>7, <2>1, <2>2 DEF Delivers, Moves, Job, At, Done, Undone, rows
  <2>4. Orderly(t)'
    BY <2>1 DEF Orderly, Moves
  <2> QED
    BY <1>5, <1>7, <2>1, <2>2, <2>3, <2>4, Vocabulary
<1> QED
  BY <1>4, <1>6, <1>7 DEF InsertEvent, row

LEMMA FindPurchaseKeeps ==
  ASSUME Isolated, NEW t \in Tx, FindPurchase(t) PROVE Isolated'
<1>1. Running(t) /\ At(t, "findPurchase") /\ UNCHANGED <<rows, writes, locks>>
  BY Vocabulary DEF FindPurchase, At, Running
<1>2. /\ Typed /\ Job(t) \in Jobs /\ Delivers(t) /\ tx[t].outcome = "none"
      /\ Written(t) = {EventRow(Job(t).event)} /\ tx[t].entry = NoEntry
      /\ \/ Job(t).op = "orphan" /\ Orphans(t)
         \/ Job(t).op = "apply" /\ Applies(t)
      /\ Orderly(t)
  BY <1>1, Senders DEF At, Orphans, Applies, Delivers, Isolated
<1>3. Written(t)' = Written(t) /\ UNCHANGED <<account, reservations, purchases, events>>
  BY <1>1 DEF Written, rows
<1>4. CASE Job(t).op = "orphan" /\ Return(t, "undefined")
  <2>1. Moves(t, "commit", "undefined", NoEntry)
    BY <1>2, <1>4, ReturnMoves, Vocabulary
  <2>2. Orphans(t)'
    BY <1>1, <1>2, <1>3, <2>1 DEF Orphans, Delivers, Moves, Job, At, Done, Undone
  <2>3. Proper(t)'
    BY <1>1, <1>2, <1>4, <2>1, <2>2, GoesOn, Vocabulary
  <2>4. Orderly(t)'
    BY <2>1 DEF Orderly, Moves
  <2> QED
    BY <1>1, <2>1, <2>3, <2>4, MoveIsolated
<1>5. CASE Job(t).op = "apply" /\ Goto(t, "completePurchase")
  <2>1. Moves(t, "completePurchase", "none", NoEntry)
    BY <1>2, <1>5, GotoMoves, Vocabulary
  <2>2. Delivers(t)'
    BY <1>1, <1>2, <1>3, <2>1 DEF Delivers, Moves, Job, At, Done, Undone
  <2>3. Applies(t)'
    BY <1>1, <1>2, <1>3, <1>5, <2>1, <2>2, RowsDiffer
       DEF Applies, Moves, Job, At, Done, Undone
  <2>4. Proper(t)'
    BY <1>1, <1>2, <1>5, <2>1, <2>3, GoesOn, Vocabulary
  <2>5. Orderly(t)'
    BY <1>1, <1>2, <2>1 DEF Orderly, Moves, HoldsOnly, At, Job
  <2> QED
    BY <1>1, <2>1, <2>4, <2>5, MoveIsolated
<1> QED
  BY <1>2, <1>4, <1>5 DEF FindPurchase

LEMMA CompletePurchaseKeeps ==
  ASSUME Isolated, NEW t \in Tx, CompletePurchase(t) PROVE Isolated'
<1>1. Running(t) /\ At(t, "completePurchase")
  BY Vocabulary DEF CompletePurchase, At, Running
<1>2. /\ Typed /\ Job(t) \in Jobs /\ Job(t).op = "apply" /\ Applies(t) /\ Delivers(t)
      /\ tx[t].outcome = "none" /\ tx[t].entry = NoEntry
      /\ Written(t) = {EventRow(Job(t).event)} /\ Orderly(t)
  BY <1>1, Senders DEF At, Applies, Delivers, Isolated
<1> DEFINE id == Job(t).id
           row == PurchaseRow(id)
           version == [purchases[id] EXCEPT !.status = "completed"]
<1>3. row \in Rows
  BY <1>2, JobFields, RowsExist
<1>4. Visible(t, row) = purchases[id]
  BY <1>2, VisibleRows, RowsDiffer
<1>5. CASE /\ purchases[id].status = "pending" /\ Write(t, row, version) /\ Goto(t, "credit")
  <2> HIDE DEF version
  <2>1. Moves(t, "credit", "none", NoEntry)
    BY <1>2, <1>5, GotoMoves, Vocabulary
  <2>2. /\ Written(t)' = {EventRow(Job(t).event), row} /\ UNCHANGED rows
        /\ writes'[t][row] = version
        /\ writes'[t][EventRow(Job(t).event)] = writes[t][EventRow(Job(t).event)]
        /\ \A other \in Rows : other # row => locks'[other] = locks[other]
    BY <1>2, <1>3, <1>5, WriteRow, RowsDiffer
  <2>3. Delivers(t)'
    BY <1>1, <1>2, <2>1, <2>2 DEF Delivers, Moves, Job, At, Done, Undone, rows
  <2>4. Applies(t)'
    BY <1>2, <1>5, <2>1, <2>2, <2>3, RowsDiffer
       DEF Applies, Moves, Job, At, Done, Undone, rows, version
  <2>5. Proper(t)'
    BY <1>1, <1>2, <2>1, <2>4, GoesOn, Vocabulary
  <2>6. Orderly(t)'
    BY <1>1, <1>2, <2>1, <2>2 DEF Orderly, Moves, HoldsOnly, At, Job
  <2> QED
    BY <1>3, <1>5, <2>1, <2>5, <2>6, MoveIsolated
<1>6. CASE Rollback(t, "threw")
  BY <1>6, RollbackKeeps, Vocabulary
<1> QED
  BY <1>4, <1>5, <1>6 DEF CompletePurchase

LEMMA CreditKeeps ==
  ASSUME Isolated, CA!TypeOK, NEW t \in Tx, Credit(t) PROVE Isolated'
<1>1. Running(t) /\ At(t, "credit")
  BY Vocabulary DEF Credit, At, Running
<1> DEFINE id == Job(t).id
           event == EventRow(Job(t).event)
           credits == purchases[id].credits
           entry == CA!Entry("purchase", id, credits, 0)
           version == [available |-> account.available + credits, reserved |-> account.reserved]
<1>2. /\ Typed /\ Job(t) \in Jobs /\ Job(t).op = "apply" /\ Applies(t) /\ Delivers(t)
      /\ tx[t].outcome = "none" /\ Written(t) = {event, PurchaseRow(id)}
  BY <1>1, Senders DEF At, Applies, Delivers
<1>3. id \in PurchaseIds /\ id \in Nat /\ credits \in Nat
  <2>1. id \in PurchaseIds
    BY <1>2, JobFields
  <2> QED
    BY <2>1, BoundsAssumption DEF PurchaseIds, CA!TypeOK, CA!PurchaseIds, CA!Purchase
<1>4. /\ entry \in CA!Movement
      /\ entry = [kind |-> "purchase", row |-> id, delta_available |-> credits,
                  delta_reserved |-> 0]
  <2>1. "purchase" \in CA!MovementKinds /\ credits \in Int /\ 0 \in Int
    BY <1>3 DEF CA!MovementKinds
  <2> QED
    BY <1>3, <2>1, EntryTyped
<1>5. Visible(t, AccountRow) = account
  BY <1>2, VisibleRows, RowsDiffer
<1>6. [account EXCEPT !.available = @ + credits] = version
  BY DEF CA!TypeOK, CA!Account
<1>7. /\ Write(t, AccountRow, version)
      /\ tx' = [tx EXCEPT ![t].pc = "insertLedger", ![t].entry = entry]
  BY <1>4, <1>5, <1>6 DEF Credit
<1> HIDE DEF entry, version
<1>8. Moves(t, "insertLedger", "none", entry)
  BY <1>2, <1>4, <1>7, EnterMoves, Vocabulary
<1>9. /\ Written(t)' = {event, PurchaseRow(id), AccountRow} /\ UNCHANGED rows
      /\ writes'[t][AccountRow] = version
      /\ writes'[t][event] = writes[t][event]
      /\ writes'[t][PurchaseRow(id)] = writes[t][PurchaseRow(id)]
  BY <1>2, <1>7, WriteRow, RowsExist, RowsDiffer
<1>10. Delivers(t)'
  BY <1>1, <1>2, <1>8, <1>9 DEF Delivers, Moves, Job, At, Done, Undone, rows
<1>11. Applies(t)'
  BY <1>2, <1>8, <1>9, <1>10, RowsDiffer
     DEF Applies, Moves, Job, At, Done, Undone, rows, version, entry
<1>12. Proper(t)'
  BY <1>1, <1>2, <1>8, <1>11, GoesOn, Vocabulary
<1>13. Orderly(t)'
  BY <1>8 DEF Orderly, Moves
<1> QED
  BY <1>7, <1>8, <1>12, <1>13, MoveIsolated, RowsExist

LEMMA InsertLedgerKeeps ==
  ASSUME Isolated, NEW t \in Tx, InsertLedger(t) PROVE Isolated'
<1>1. Running(t) /\ At(t, "insertLedger") /\ UNCHANGED <<rows, writes, locks>>
  BY Vocabulary DEF InsertLedger, At, Running
<1>2. /\ Typed /\ Job(t) \in Jobs /\ tx[t].outcome = "none"
      /\ \/ Job(t).op = "reserve" /\ Reserves(t)
         \/ Job(t).op \in Ending /\ Ends(t)
         \/ Job(t).op = "apply" /\ Applies(t)
  BY <1>1, Senders DEF At
<1>3. Written(t)' = Written(t) /\ UNCHANGED <<account, reservations, purchases, events>>
  BY <1>1 DEF Written, rows
<1>4. PICK entry : entry = tx[t].entry
  OBVIOUS
<1>5. CASE Job(t).op # "apply" /\ Return(t, "done")
  <2>1. Moves(t, "commit", "done", entry)
    BY <1>2, <1>4, <1>5, ReturnMoves, Vocabulary
  <2>2. Job(t).op = "reserve" /\ Reserves(t) => Reserves(t)'
    BY <1>1, <1>3, <1>4, <2>1 DEF Reserves, Moves, Job, At, Done, Undone
  <2>3. Job(t).op \in Ending /\ Ends(t) => Ends(t)'
    BY <1>1, <1>3, <1>4, <2>1 DEF Ends, Moves, Job, At, Done, Undone
  <2>4. Proper(t)'
    BY <1>1, <1>2, <1>5, <2>1, <2>2, <2>3, GoesOn, Vocabulary
  <2>5. Orderly(t)'
    BY <2>1 DEF Orderly, Moves
  <2> QED
    BY <1>1, <2>1, <2>4, <2>5, MoveIsolated
<1>6. CASE Job(t).op = "apply" /\ Goto(t, "markProcessed")
  <2>1. Moves(t, "markProcessed", "none", entry)
    BY <1>2, <1>4, <1>6, GotoMoves, Vocabulary
  <2>2. Applies(t)
    BY <1>2, <1>6 DEF Ending
  <2>3. Delivers(t)'
    BY <1>1, <1>3, <2>1, <2>2 DEF Applies, Delivers, Moves, Job, At, Done, Undone
  <2>4. Applies(t)'
    BY <1>1, <1>3, <1>4, <2>1, <2>2, <2>3 DEF Applies, Moves, Job, At, Done, Undone
  <2>5. Proper(t)'
    BY <1>1, <1>2, <1>6, <2>1, <2>4, GoesOn, Vocabulary
  <2>6. Orderly(t)'
    BY <2>1 DEF Orderly, Moves
  <2> QED
    BY <1>1, <2>1, <2>5, <2>6, MoveIsolated
<1> QED
  BY <1>5, <1>6 DEF InsertLedger

LEMMA MarkProcessedKeeps ==
  ASSUME Isolated, NEW t \in Tx, MarkProcessed(t) PROVE Isolated'
<1>1. Running(t) /\ At(t, "markProcessed")
  BY Vocabulary DEF MarkProcessed, At, Running
<1> DEFINE id == Job(t).id
           event == EventRow(Job(t).event)
<1>2. /\ Typed /\ Job(t) \in Jobs /\ Job(t).op = "apply" /\ Applies(t) /\ Delivers(t)
      /\ tx[t].outcome = "none" /\ Written(t) = {event, PurchaseRow(id), AccountRow}
  BY <1>1, Senders DEF At, Applies, Delivers
<1>3. event \in Rows
  BY <1>2, JobFields, RowsExist
<1>4. PICK entry : entry = tx[t].entry
  OBVIOUS
<1>5. Write(t, event, "processed") /\ Return(t, "done")
  BY DEF MarkProcessed
<1>6. Moves(t, "commit", "done", entry)
  BY <1>2, <1>4, <1>5, ReturnMoves, Vocabulary
<1>7. /\ Written(t)' = {event, PurchaseRow(id), AccountRow} /\ UNCHANGED rows
      /\ writes'[t][event] = "processed"
      /\ writes'[t][AccountRow] = writes[t][AccountRow]
      /\ writes'[t][PurchaseRow(id)] = writes[t][PurchaseRow(id)]
  BY <1>2, <1>3, <1>5, WriteRow, RowsDiffer
<1>8. Delivers(t)'
  BY <1>1, <1>2, <1>6, <1>7 DEF Delivers, Moves, Job, At, Done, Undone, rows
<1>9. Applies(t)'
  BY <1>1, <1>2, <1>4, <1>6, <1>7, <1>8, RowsDiffer
     DEF Applies, Moves, Job, At, Done, Undone, rows
<1>10. Proper(t)'
  BY <1>1, <1>2, <1>6, <1>9, GoesOn, Vocabulary
<1>11. Orderly(t)'
  BY <1>6 DEF Orderly, Moves
<1> QED
  BY <1>3, <1>5, <1>6, <1>10, <1>11, MoveIsolated

-----------------------------------------------------------------------------
(* COMMIT makes the transaction's versions the committed ones. *)
LEMMA CommitTables ==
  ASSUME CA!TypeOK, NEW t \in Tx, Commit(t)
  PROVE  /\ AccountRow \notin Written(t) => account' = account
         /\ AccountRow \in Written(t) => account' = writes[t][AccountRow]
         /\ (\A r \in ReservationIds : ReservationRow(r) \notin Written(t))
              => reservations' = reservations
         /\ \A id \in ReservationIds :
              /\ ReservationRow(id) \in Written(t)
              /\ \A r \in ReservationIds \ {id} : ReservationRow(r) \notin Written(t)
              => reservations' = [reservations EXCEPT ![id] = writes[t][ReservationRow(id)]]
         /\ (\A p \in PurchaseIds : PurchaseRow(p) \notin Written(t)) => purchases' = purchases
         /\ \A id \in PurchaseIds :
              /\ PurchaseRow(id) \in Written(t)
              /\ \A p \in PurchaseIds \ {id} : PurchaseRow(p) \notin Written(t)
              => purchases' = [purchases EXCEPT ![id] = writes[t][PurchaseRow(id)]]
         /\ (\A e \in Events : EventRow(e) \notin Written(t)) => events' = events
         /\ \A event \in Events :
              /\ EventRow(event) \in Written(t)
              /\ \A e \in Events \ {event} : EventRow(e) \notin Written(t)
              => events' = [events EXCEPT ![event] = writes[t][EventRow(event)]]
         /\ tx[t].entry = NoEntry => ledger' = ledger
         /\ tx[t].entry # NoEntry => ledger' = Append(ledger, tx[t].entry)
<1>1. /\ account' = Visible(t, AccountRow)
      /\ reservations' = [r \in ReservationIds |-> Visible(t, ReservationRow(r))]
      /\ purchases' = [p \in PurchaseIds |-> Visible(t, PurchaseRow(p))]
      /\ events' = [e \in Events |-> Visible(t, EventRow(e))]
      /\ ledger' = IF tx[t].entry = NoEntry THEN ledger ELSE Append(ledger, tx[t].entry)
  BY DEF Commit
<1>2. /\ reservations = [r \in ReservationIds |-> reservations[r]]
      /\ purchases = [p \in PurchaseIds |-> purchases[p]]
      /\ events = [e \in Events |-> events[e]]
  BY DEF CA!TypeOK, CA!ReservationIds, ReservationIds, CA!PurchaseIds, PurchaseIds
<1>3. /\ AccountRow \notin Written(t) => account' = account
      /\ AccountRow \in Written(t) => account' = writes[t][AccountRow]
      /\ tx[t].entry = NoEntry => ledger' = ledger
      /\ tx[t].entry # NoEntry => ledger' = Append(ledger, tx[t].entry)
  BY <1>1, VisibleRows
<1>4. /\ (\A r \in ReservationIds : ReservationRow(r) \notin Written(t))
              => reservations' = reservations
      /\ \A id \in ReservationIds :
           /\ ReservationRow(id) \in Written(t)
           /\ \A r \in ReservationIds \ {id} : ReservationRow(r) \notin Written(t)
           => reservations' = [reservations EXCEPT ![id] = writes[t][ReservationRow(id)]]
  BY <1>1, <1>2, VisibleRows
<1>5. /\ (\A p \in PurchaseIds : PurchaseRow(p) \notin Written(t)) => purchases' = purchases
      /\ \A id \in PurchaseIds :
           /\ PurchaseRow(id) \in Written(t)
           /\ \A p \in PurchaseIds \ {id} : PurchaseRow(p) \notin Written(t)
           => purchases' = [purchases EXCEPT ![id] = writes[t][PurchaseRow(id)]]
  BY <1>1, <1>2, VisibleRows
<1>6. /\ (\A e \in Events : EventRow(e) \notin Written(t)) => events' = events
      /\ \A event \in Events :
           /\ EventRow(event) \in Written(t)
           /\ \A e \in Events \ {event} : EventRow(e) \notin Written(t)
           => events' = [events EXCEPT ![event] = writes[t][EventRow(event)]]
  BY <1>1, <1>2, VisibleRows
<1> QED
  BY <1>3, <1>4, <1>5, <1>6

(* What the COMMIT of each operation is to the other transactions. *)
Reserved(t) ==
  /\ Job(t).op = "reserve"
  /\ Written(t) = {AccountRow, ReservationRow(Job(t).id)}
  /\ CA!Reserve(Job(t).id, Job(t).tokens)

Ended(t) ==
  /\ Job(t).op \in Ending
  /\ Written(t) = {ReservationRow(Job(t).id), AccountRow}
  /\ \/ Job(t).op = "settle" /\ CA!Settle(Job(t).id, Job(t).tokens)
     \/ Job(t).op = "release" /\ CA!Release(Job(t).id)
     \/ Job(t).op = "expire" /\ CA!Expire(Job(t).id)

Bought(t) ==
  /\ Job(t).op = "purchase"
  /\ Written(t) = {PurchaseRow(Job(t).id)}
  /\ CA!CreatePurchase(Job(t).id, Job(t).credits)

Recorded(t) ==
  /\ Job(t).op = "orphan"
  /\ Written(t) = {EventRow(Job(t).event)}
  /\ CA!RecordEvent(Job(t).event)

Applied(t) ==
  /\ Job(t).op = "apply"
  /\ Written(t) = {EventRow(Job(t).event), PurchaseRow(Job(t).id), AccountRow}
  /\ CA!ApplyPurchase(Job(t).id, Job(t).event)

LEMMA NothingCommits ==
  ASSUME CA!TypeOK, NEW t \in Tx, Commit(t), Written(t) = {}, tx[t].entry = NoEntry
  PROVE  UNCHANGED rows
BY CommitTables DEF rows

LEMMA ReserveCommits ==
  ASSUME CA!TypeOK, NEW t \in Tx, Commit(t), Job(t) \in Jobs, Job(t).op = "reserve", Reserves(t)
  PROVE  UNCHANGED rows \/ Reserved(t)
<1>1. At(t, "commit")
  BY DEF Commit
<1>2. CASE Undone(t)
  BY <1>2, NothingCommits DEF Reserves, Untouched
<1>3. CASE Done(t)
  <2> DEFINE id == Job(t).id
             credits == calculateCreditsFromTokens(Job(t).tokens)
             version == [status |-> "reserved", reserved_credits |-> credits,
                         settled_credits |-> 0]
             entry == CA!Entry("reservation", id, -credits, credits)
  <2>1. id \in ReservationIds /\ credits \in Nat
    BY JobFields, TokensAssumption, CreditsType
  <2>2. /\ Written(t) = {AccountRow, ReservationRow(id)}
        /\ writes[t][ReservationRow(id)] = version /\ tx[t].entry = entry
        /\ reservations[id].status = "none" /\ account.available >= credits
        /\ writes[t][AccountRow] = [available |-> account.available - credits,
                                    reserved |-> account.reserved + credits]
    BY <1>3 DEF Reserves
  <2>3. /\ entry # NoEntry /\ entry.delta_available = -credits /\ entry.delta_reserved = credits
    BY DEF CA!Entry, NoEntry
  <2> HIDE DEF version, entry, credits
  <2>4. /\ account' = [available |-> account.available - credits,
                       reserved |-> account.reserved + credits]
        /\ reservations' = [reservations EXCEPT ![id] = version]
        /\ UNCHANGED <<purchases, events>> /\ ledger' = Append(ledger, entry)
    BY <2>1, <2>2, <2>3, CommitTables, RowsDiffer
  <2>5. account.available - credits = account.available + entry.delta_available
    BY <2>1, <2>3 DEF CA!TypeOK, CA!Account
  <2>6. CA!Reserve(id, Job(t).tokens)
    BY <2>2, <2>3, <2>4, <2>5, CreditsAgree DEF CA!Reserve, CA!Move, version, entry, credits
  <2> QED
    BY <2>2, <2>6 DEF Reserved
<1> QED
  BY <1>1, <1>2, <1>3 DEF Reserves, At, Undone, Done

LEMMA EndingCommits ==
  ASSUME CA!TypeOK, NEW t \in Tx, Commit(t), Job(t) \in Jobs, Job(t).op \in Ending, Ends(t)
  PROVE  UNCHANGED rows \/ Ended(t)
<1>1. At(t, "commit")
  BY DEF Commit
<1>2. CASE Undone(t)
  BY <1>2, NothingCommits DEF Ends, Untouched
<1>3. CASE Done(t)
  <2> DEFINE id == Job(t).id
             row == reservations[id]
  <2>1. id \in ReservationIds
    BY JobFields DEF Ending
  <2>2. /\ Written(t) = {ReservationRow(id), AccountRow}
        /\ writes[t][ReservationRow(id)] = ClosedAs(Job(t), row)
        /\ row.status = "reserved" /\ account.reserved >= row.reserved_credits
        /\ tx[t].entry = EntryOf(Job(t), row)
        /\ writes[t][AccountRow] = [available |-> account.available + tx[t].entry.delta_available,
                                    reserved |-> account.reserved + tx[t].entry.delta_reserved]
    BY <1>3 DEF Ends
  <2>3. row \in CA!Reservation
    BY <2>1 DEF CA!TypeOK, ReservationIds, CA!ReservationIds
  <2>4. tx[t].entry # NoEntry
    BY <2>2, <2>3, ClosingTyped DEF CA!Movement, CA!MovementKinds, NoEntry
  <2>5. CA!Move(tx[t].entry)
    BY <2>1, <2>2, <2>4, CommitTables, RowsDiffer DEF CA!Move
  <2>6. /\ reservations' = [reservations EXCEPT ![id] = ClosedAs(Job(t), row)]
        /\ UNCHANGED <<purchases, events>>
    BY <2>1, <2>2, CommitTables, RowsDiffer
  <2>7. CASE Job(t).op = "settle"
    <3>1. tx[t].entry = CA!Entry("settlement", id, row.reserved_credits - CA!SettledCredits(id, Job(t).tokens),
                                 -row.reserved_credits)
      BY <2>2, <2>7, CreditsAgree DEF EntryOf, Charge, CA!SettledCredits
    <3>2. reservations' = [reservations EXCEPT ![id].status = "settled",
                             ![id].settled_credits = CA!SettledCredits(id, Job(t).tokens)]
      BY <2>1, <2>3, <2>6, <2>7, CreditsAgree DEF ClosedAs, Charge, CA!SettledCredits
    <3>3. CA!Settle(id, Job(t).tokens)
      BY <2>2, <2>5, <2>6, <3>1, <3>2 DEF CA!Settle
    <3> QED
      BY <2>2, <2>7, <3>3 DEF Ended
  <2>8. CASE Job(t).op = "release"
    <3>1. CA!Release(id)
      BY <2>2, <2>5, <2>6, <2>8 DEF CA!Release, CA!GiveBack, EntryOf, ClosedAs
    <3> QED
      BY <2>2, <2>8, <3>1 DEF Ended
  <2>9. CASE Job(t).op = "expire"
    <3>1. CA!Expire(id)
      BY <2>2, <2>5, <2>6, <2>9 DEF CA!Expire, CA!GiveBack, EntryOf, ClosedAs
    <3> QED
      BY <2>2, <2>9, <3>1 DEF Ended
  <2> QED
    BY <2>7, <2>8, <2>9 DEF Ending
<1> QED
  BY <1>1, <1>2, <1>3 DEF Ends, At, Undone, Done

LEMMA PurchaseCommits ==
  ASSUME CA!TypeOK, NEW t \in Tx, Commit(t), Job(t) \in Jobs, Job(t).op = "purchase", Buys(t)
  PROVE  Bought(t)
<1> DEFINE id == Job(t).id
<1>1. id \in PurchaseIds /\ At(t, "commit")
  BY JobFields DEF Commit
<1>2. /\ Written(t) = {PurchaseRow(id)} /\ tx[t].entry = NoEntry
      /\ writes[t][PurchaseRow(id)] = [status |-> "pending", credits |-> Job(t).credits]
      /\ purchases[id].status = "none"
  BY <1>1 DEF Buys, At, Done
<1>3. /\ purchases' = [purchases EXCEPT ![id] = writes[t][PurchaseRow(id)]]
      /\ UNCHANGED <<account, reservations, events, ledger>>
  BY <1>1, <1>2, CommitTables, RowsDiffer
<1> QED
  BY <1>2, <1>3 DEF Bought, CA!CreatePurchase

LEMMA OrphanCommits ==
  ASSUME CA!TypeOK, NEW t \in Tx, Commit(t), Job(t) \in Jobs, Job(t).op = "orphan", Orphans(t)
  PROVE  UNCHANGED rows \/ Recorded(t)
<1> DEFINE event == Job(t).event
<1>1. event \in Events /\ At(t, "commit")
  BY JobFields DEF Commit
<1>2. Written(t) \subseteq {EventRow(event)} /\ tx[t].entry = NoEntry /\ ~ Done(t)
  BY <1>1 DEF Orphans, Delivers, At, Undone, Done
<1>3. CASE Written(t) = {}
  BY <1>2, <1>3, NothingCommits
<1>4. CASE Written(t) = {EventRow(event)}
  <2>1. events[event] = "unseen" /\ writes[t][EventRow(event)] = "recorded"
    BY <1>2, <1>4 DEF Orphans, Delivers
  <2>2. /\ events' = [events EXCEPT ![event] = "recorded"]
        /\ UNCHANGED <<account, reservations, purchases, ledger>>
    BY <1>1, <1>2, <1>4, <2>1, CommitTables, RowsDiffer
  <2> QED
    BY <1>4, <2>1, <2>2 DEF Recorded, CA!RecordEvent
<1> QED
  BY <1>2, <1>3, <1>4

LEMMA ApplyCommits ==
  ASSUME CA!TypeOK, NEW t \in Tx, Commit(t), Job(t) \in Jobs, Job(t).op = "apply", Applies(t)
  PROVE  UNCHANGED rows \/ Applied(t)
<1> DEFINE id == Job(t).id
           event == Job(t).event
<1>1. event \in Events /\ id \in PurchaseIds /\ At(t, "commit")
  BY JobFields DEF Commit
<1>2. CASE Undone(t)
  BY <1>2, NothingCommits DEF Applies, Delivers
<1>3. CASE Done(t)
  <2> DEFINE credits == purchases[id].credits
             entry == CA!Entry("purchase", id, credits, 0)
  <2>1. /\ Written(t) = {EventRow(event), PurchaseRow(id), AccountRow}
        /\ tx[t].entry = entry
        /\ purchases[id].status = "pending"
        /\ writes[t][PurchaseRow(id)] = [purchases[id] EXCEPT !.status = "completed"]
        /\ writes[t][AccountRow] = [available |-> account.available + credits,
                                    reserved |-> account.reserved]
        /\ events[event] = "unseen" /\ writes[t][EventRow(event)] = "processed"
    BY <1>3 DEF Applies, Delivers
  <2>2. entry # NoEntry /\ entry.delta_available = credits /\ entry.delta_reserved = 0
    BY DEF CA!Entry, NoEntry
  <2> HIDE DEF entry
  <2>3. /\ account' = [available |-> account.available + credits, reserved |-> account.reserved]
        /\ purchases' = [purchases EXCEPT ![id] = writes[t][PurchaseRow(id)]]
        /\ events' = [events EXCEPT ![event] = "processed"]
        /\ UNCHANGED reservations /\ ledger' = Append(ledger, entry)
    BY <1>1, <2>1, <2>2, CommitTables, RowsDiffer
  <2>4. account.reserved + 0 = account.reserved
    BY DEF CA!TypeOK, CA!Account
  <2>5. CA!Move(entry)
    BY <2>2, <2>3, <2>4 DEF CA!Move
  <2>6. CA!ApplyPurchase(id, event)
    BY <2>1, <2>3, <2>5 DEF CA!ApplyPurchase, entry
  <2> QED
    BY <2>1, <2>6 DEF Applied
<1> QED
  BY <1>1, <1>2, <1>3 DEF Applies, At, Undone, Done

(* The COMMIT of a transaction is one operation of the account, or nothing. *)
LEMMA CommitIs ==
  ASSUME Isolated, CA!TypeOK, NEW t \in Tx, Commit(t)
  PROVE  UNCHANGED rows \/ Reserved(t) \/ Ended(t) \/ Bought(t) \/ Recorded(t) \/ Applied(t)
<1>1. Running(t)
  BY Vocabulary DEF Commit, At, Running
<1>2. /\ Job(t) \in Jobs
      /\ Job(t).op = "reserve" => Reserves(t)
      /\ Job(t).op \in Ending => Ends(t)
      /\ Job(t).op = "purchase" => Buys(t)
      /\ Job(t).op = "orphan" => Orphans(t)
      /\ Job(t).op = "apply" => Applies(t)
  BY <1>1 DEF Isolated, Proper
<1>3. Job(t).op \in {"reserve", "purchase", "apply", "orphan"} \cup Ending
  BY <1>2, JobFields DEF Ending
<1> QED
  BY <1>2, <1>3, ReserveCommits, EndingCommits, PurchaseCommits, OrphanCommits, ApplyCommits

(* A COMMIT leaves alone what its transaction did not write ... *)
LEMMA ElsewhereSame ==
  ASSUME NEW t \in Tx, Commit(t)
  PROVE  /\ AccountRow \notin Written(t) => account' = account
         /\ \A r \in ReservationIds :
              ReservationRow(r) \notin Written(t) => reservations'[r] = reservations[r]
         /\ \A p \in PurchaseIds : PurchaseRow(p) \notin Written(t) => purchases'[p] = purchases[p]
         /\ \A e \in Events : EventRow(e) \notin Written(t) => events'[e] = events[e]
BY VisibleRows DEF Commit

(* ... and brings no row back to an earlier state. *)
LEMMA NeverBack ==
  ASSUME Isolated, CA!TypeOK, NEW t \in Tx, Commit(t)
  PROVE  /\ \A r \in ReservationIds :
              /\ reservations[r].status # "none" => reservations'[r].status # "none"
              /\ reservations[r].status \in CA!Terminal
                   => reservations'[r] = reservations[r]
              /\ reservations[r].status = "none" /\ reservations'[r] # reservations[r]
                   => Job(t).op = "reserve" /\ Job(t).id = r
         /\ \A p \in PurchaseIds :
              /\ purchases[p].status # "none" => purchases'[p].status # "none"
              /\ purchases[p].status = "none" /\ purchases'[p] # purchases[p]
                   => Job(t).op = "purchase" /\ Job(t).id = p
         /\ \A e \in Events : events[e] # "unseen" => events'[e] # "unseen"
<1>1. CASE UNCHANGED rows
  BY <1>1 DEF rows
<1>2. CASE Reserved(t)
  BY <1>2 DEF Reserved, CA!Reserve, CA!TypeOK, CA!ReservationIds, ReservationIds, CA!Terminal
<1>3. CASE Ended(t)
  <2>1. Job(t).id \in ReservationIds
    <3>1. Job(t) \in Jobs
      BY Senders, Vocabulary DEF Commit, At, Running
    <3> QED
      BY <1>3, <3>1, JobFields DEF Ended, Ending
  <2>2. PICK row : /\ reservations[Job(t).id].status = "reserved"
                   /\ reservations' = [reservations EXCEPT ![Job(t).id] = row]
                   /\ row.status \in CA!Terminal /\ UNCHANGED <<purchases, events>>
    <3>1. CASE CA!Settle(Job(t).id, Job(t).tokens)
      <4> DEFINE row == [reservations[Job(t).id] EXCEPT !.status = "settled",
                           !.settled_credits = CA!SettledCredits(Job(t).id, Job(t).tokens)]
      <4>1. /\ reservations[Job(t).id].status = "reserved"
            /\ reservations' = [reservations EXCEPT ![Job(t).id] = row]
            /\ UNCHANGED <<purchases, events>>
        BY <3>1 DEF CA!Settle, CA!TypeOK
      <4>2. row.status \in CA!Terminal
        BY <2>1 DEF CA!TypeOK, CA!Reservation, CA!ReservationIds, ReservationIds, CA!Terminal
      <4> QED
        BY <4>1, <4>2
    <3>2. ASSUME NEW status \in CA!Terminal, NEW kind, CA!GiveBack(Job(t).id, status, kind)
          PROVE  \E row : /\ reservations[Job(t).id].status = "reserved"
                          /\ reservations' = [reservations EXCEPT ![Job(t).id] = row]
                          /\ row.status \in CA!Terminal /\ UNCHANGED <<purchases, events>>
      <4> DEFINE row == [reservations[Job(t).id] EXCEPT !.status = status]
      <4>1. /\ reservations[Job(t).id].status = "reserved"
            /\ reservations' = [reservations EXCEPT ![Job(t).id] = row]
            /\ UNCHANGED <<purchases, events>>
        BY <3>2 DEF CA!GiveBack, CA!TypeOK
      <4>2. row.status \in CA!Terminal
        BY <2>1 DEF CA!TypeOK, CA!Reservation, CA!ReservationIds, ReservationIds
      <4> QED
        BY <4>1, <4>2
    <3> QED
      BY <1>3, <3>1, <3>2 DEF Ended, CA!Release, CA!Expire, CA!Terminal
  <2> QED
    BY <2>1, <2>2 DEF CA!TypeOK, CA!ReservationIds, ReservationIds, CA!Terminal
<1>4. CASE Bought(t)
  BY <1>4 DEF Bought, CA!CreatePurchase, CA!TypeOK, CA!PurchaseIds, PurchaseIds
<1>5. CASE Recorded(t)
  BY <1>5 DEF Recorded, CA!RecordEvent, CA!TypeOK
<1>6. CASE Applied(t)
  <2>1. \A e \in Events : events[e] # "unseen" => events'[e] # "unseen"
    BY <1>6 DEF Applied, CA!ApplyPurchase, CA!TypeOK
  <2>2. /\ UNCHANGED reservations /\ purchases[Job(t).id].status = "pending"
        /\ purchases' = [purchases EXCEPT ![Job(t).id].status = "completed"]
    BY <1>6 DEF Applied, CA!ApplyPurchase
  <2>3. \A p \in PurchaseIds :
          /\ purchases[p].status # "none" => purchases'[p].status # "none"
          /\ purchases[p].status = "none" => purchases'[p] = purchases[p]
    BY <2>2 DEF CA!TypeOK, CA!PurchaseIds, PurchaseIds, CA!Purchase
  <2> QED
    BY <2>1, <2>2, <2>3
<1> QED
  BY <1>1, <1>2, <1>3, <1>4, <1>5, <1>6, CommitIs

LEMMA CommitLeavesOthers ==
  ASSUME Isolated, CA!TypeOK, NEW t \in Tx, Commit(t), NEW u \in Tx, u # t
  PROVE  Proper(u)' /\ Locked(u)' /\ Orderly(u)'
<1>1. PICK outcome \in Outcomes : End(t, outcome)
  BY Vocabulary DEF Commit, Isolated, Typed, Transaction
<1>2. /\ tx'[u] = tx[u] /\ writes'[u] = writes[u]
      /\ \A row \in Rows : locks'[row] = u <=> locks[row] = u
      /\ Proper(u) /\ Locked(u) /\ Orderly(u) /\ Locked(t) /\ OwnIds
      /\ Written(u) \subseteq Rows /\ Written(t) \subseteq Rows
  BY <1>1, EndRows DEF Moves, Isolated, Typed
<1>3. /\ Job(u)' = Job(u) /\ Written(u)' = Written(u) /\ Untouched(u)' = Untouched(u)
      /\ Running(u)' = Running(u) /\ Undone(u)' = Undone(u) /\ Done(u)' = Done(u)
      /\ \A pc : At(u, pc)' = At(u, pc)
  BY <1>2 DEF Job, Written, Untouched, Running, Undone, Done, At
<1>4. \A row \in Rows : locks[row] = u => row \notin Written(t)
  BY <1>2 DEF Locked
<1>5. \A row \in Written(u) : row \notin Written(t)
  BY <1>2, <1>4 DEF Locked
<1>6. ASSUME Job(u) \in Jobs, Job(u).op = "reserve", Reserves(u) PROVE Reserves(u)'
  <2>1. Job(u).id \in ReservationIds
    BY <1>6, JobFields
  <2>2. reservations'[Job(u).id] = reservations[Job(u).id]
    BY <1>2, <1>6, <2>1, NeverBack DEF Reserves, OwnIds
  <2>3. AccountRow \in Written(u) => account' = account
    BY <1>5, ElsewhereSame
  <2> QED
    BY <1>2, <1>3, <1>6, <2>2, <2>3 DEF Reserves
<1>7. ASSUME Job(u) \in Jobs, Job(u).op \in Ending, Ends(u) PROVE Ends(u)'
  <2> DEFINE id == Job(u).id
  <2>1. id \in ReservationIds /\ ReservationRow(id) \in Rows
    BY <1>7, JobFields, RowsExist DEF Ending
  <2>2. /\ reservations'[id].status # "none"
        /\ reservations[id].status \in CA!Terminal => reservations'[id] = reservations[id]
    BY <1>7, <2>1, NeverBack DEF Ends
  <2>3. ReservationRow(id) \in Written(u) \/ locks[ReservationRow(id)] = u
          => reservations'[id] = reservations[id]
    BY <1>4, <1>5, <2>1, ElsewhereSame
  <2>4. AccountRow \in Written(u)
          => account' = account /\ ReservationRow(id) \in Written(u)
    <3>1. AccountRow \in Written(u) => ReservationRow(id) \in Written(u)
      BY <1>7, RowsDiffer DEF Ends, Untouched
    <3> QED
      BY <1>5, <3>1, ElsewhereSame
  <2>5. /\ At(u, "closeReservation") => locks[ReservationRow(id)] = u
        /\ locks'[ReservationRow(id)] = u <=> locks[ReservationRow(id)] = u
    BY <1>2, <1>7, <2>1 DEF Ends
  <2> QED
    BY <1>2, <1>3, <1>7, <2>2, <2>3, <2>4, <2>5 DEF Ends
<1>8. ASSUME Job(u) \in Jobs, Job(u).op = "purchase", Buys(u) PROVE Buys(u)'
  <2>1. Job(u).id \in PurchaseIds
    BY <1>8, JobFields
  <2>2. purchases'[Job(u).id] = purchases[Job(u).id]
    BY <1>2, <1>8, <2>1, NeverBack DEF Buys, OwnIds
  <2> QED
    BY <1>2, <1>3, <1>8, <2>2 DEF Buys
<1>9. ASSUME Job(u) \in Jobs, Job(u).op \in {"apply", "orphan"}, Delivers(u) PROVE Delivers(u)'
  <2>1. Job(u).event \in Events
    BY <1>9, JobFields
  <2>2. /\ EventRow(Job(u).event) \in Written(u) => events'[Job(u).event] = events[Job(u).event]
        /\ events[Job(u).event] # "unseen" => events'[Job(u).event] # "unseen"
    BY <1>5, <2>1, ElsewhereSame, NeverBack
  <2> QED
    BY <1>2, <1>3, <1>9, <2>2 DEF Delivers
<1>10. ASSUME Job(u) \in Jobs, Job(u).op = "orphan", Orphans(u) PROVE Orphans(u)'
  BY <1>3, <1>9, <1>10 DEF Orphans
<1>11. ASSUME Job(u) \in Jobs, Job(u).op = "apply", Applies(u) PROVE Applies(u)'
  <2> DEFINE id == Job(u).id
  <2>1. id \in PurchaseIds
    BY <1>11, JobFields
  <2>2. purchases'[id].status # "none"
    BY <1>11, <2>1, NeverBack DEF Applies
  <2>3. PurchaseRow(id) \in Written(u) => purchases'[id] = purchases[id]
    BY <1>5, <2>1, ElsewhereSame
  <2>4. AccountRow \in Written(u) => account' = account /\ PurchaseRow(id) \in Written(u)
    <3>1. AccountRow \in Written(u) => PurchaseRow(id) \in Written(u)
      BY <1>11, RowsDiffer DEF Applies, Delivers, Untouched
    <3> QED
      BY <1>5, <3>1, ElsewhereSame
  <2>5. Delivers(u)'
    BY <1>9, <1>11 DEF Applies
  <2>6. At(u, "insertLedger") \/ At(u, "markProcessed") \/ Done(u) => PurchaseRow(id) \in Written(u)
    BY <1>11 DEF Applies
  <2> QED
    BY <1>2, <1>3, <1>11, <2>2, <2>3, <2>4, <2>5, <2>6 DEF Applies
<1>12. Proper(u)'
  BY <1>2, <1>3, <1>6, <1>7, <1>8, <1>10, <1>11 DEF Proper
<1>13. Locked(u)' /\ Orderly(u)'
  BY <1>2, <1>3 DEF Locked, Orderly, HoldsOnly
<1> QED
  BY <1>12, <1>13

LEMMA CommitKeeps == ASSUME Isolated, CA!TypeOK, NEW t \in Tx, Commit(t) PROVE Isolated'
<1>1. PICK outcome \in Outcomes : End(t, outcome)
  BY Vocabulary DEF Commit, Isolated, Typed, Transaction
<1>2. Typed /\ OwnIds
  BY DEF Isolated
<1>3. \A u \in Tx : tx'[u].job = tx[u].job
  BY <1>1, <1>2, EndRows DEF Moves
<1>4. OwnIds'
  BY <1>2, <1>3 DEF OwnIds, Job
<1>5. Typed' /\ Proper(t)' /\ Locked(t)' /\ Orderly(t)'
  BY <1>1, <1>2, OverIsProper
<1> QED
  BY <1>4, <1>5, CommitLeavesOthers DEF Isolated

(* Every other step leaves the committed rows as they were. *)
LEMMA StatementsCommitNothing ==
  ASSUME NEW t \in Tx, Statement(t), ~ Commit(t) PROVE UNCHANGED rows
BY DEF Statement, Debit, InsertReservation, LockReservation, CloseReservation, Refund,
       InsertPurchase, InsertEvent, FindPurchase, CompletePurchase, Credit, MarkProcessed,
       InsertLedger, Write, Lock, Rollback

LEMMA NextIsolated ==
  ASSUME Isolated, CA!TypeOK, CA!RefundCovered, [Next]_vars PROVE Isolated'
<1>1. CASE UNCHANGED vars
  <2>1. ASSUME NEW t \in Tx PROVE Proper(t)' /\ Locked(t)' /\ Orderly(t)'
    <3>1. UNCHANGED <<account, reservations, purchases, events, tx, writes, locks>>
      BY <1>1 DEF vars, rows
    <3>2. /\ Job(t)' = Job(t) /\ Written(t)' = Written(t) /\ Untouched(t)' = Untouched(t)
          /\ Running(t)' = Running(t) /\ Undone(t)' = Undone(t) /\ Done(t)' = Done(t)
          /\ \A pc : At(t, pc)' = At(t, pc)
      BY <3>1 DEF Job, Written, Untouched, Running, Undone, Done, At
    <3>3. Delivers(t)' = Delivers(t)
      BY <3>1, <3>2 DEF Delivers
    <3>4. /\ Reserves(t)' = Reserves(t) /\ Ends(t)' = Ends(t) /\ Buys(t)' = Buys(t)
          /\ Orphans(t)' = Orphans(t) /\ Applies(t)' = Applies(t)
      BY <3>1, <3>2, <3>3 DEF Reserves, Ends, Buys, Orphans, Applies
    <3>5. Proper(t) /\ Locked(t) /\ Orderly(t)
      BY DEF Isolated
    <3> QED
      BY <3>1, <3>2, <3>4, <3>5 DEF Proper, Locked, Orderly, HoldsOnly
  <2>2. Typed' /\ OwnIds'
    BY <1>1 DEF Isolated, vars, Typed, OwnIds, Job, Written
  <2> QED
    BY <2>1, <2>2 DEF Isolated
<1>2. ASSUME NEW t \in Tx, Statement(t) PROVE Isolated'
  BY <1>2, DebitKeeps, InsertReservationKeeps, LockReservationKeeps, CloseReservationKeeps,
     RefundKeeps, InsertPurchaseKeeps, InsertEventKeeps, FindPurchaseKeeps, CompletePurchaseKeeps,
     CreditKeeps, MarkProcessedKeeps, InsertLedgerKeeps, CommitKeeps DEF Statement
<1>3. ASSUME NEW t \in Tx, Fail(t) PROVE Isolated'
  BY <1>3, RollbackKeeps, Vocabulary DEF Fail
<1>4. ASSUME NEW t \in Tx, NEW job \in Jobs, Begin(t, job) PROVE Isolated'
  BY <1>4, BeginKeeps
<1>5. ASSUME NEW t \in Tx, ReleaseClient(t) PROVE Isolated'
  BY <1>5, ReleaseClientKeeps
<1> QED
  BY <1>1, <1>2, <1>3, <1>4, <1>5 DEF Next

LEMMA InitIsolated == Init => Isolated
<1> SUFFICES ASSUME Init PROVE Isolated
  OBVIOUS
<1>1. /\ tx = [t \in Tx |-> Idle] /\ locks = [row \in Rows |-> NoTx]
      /\ DOMAIN writes = Tx /\ \A t \in Tx : writes[t] = <<>>
  BY DEF Init
<1>2. \A t \in Tx : tx[t] = Idle /\ Written(t) = {}
  <2>1. DOMAIN <<>> = {}
    OBVIOUS
  <2> QED
    BY <1>1, <2>1 DEF Written
<1>3. Idle \in Transaction /\ Idle.pc = "idle" /\ Idle.job = NoJob /\ Idle.entry = NoEntry
  BY Vocabulary DEF Idle, Transaction
<1>4. Typed
  BY <1>1, <1>2, <1>3 DEF Typed
<1>5. OwnIds
  BY <1>2, <1>3 DEF OwnIds, Job, NoJob
<1>6. \A t \in Tx : Proper(t) /\ Locked(t) /\ Orderly(t)
  BY <1>1, <1>2, <1>3, NoTxAssumption, Vocabulary
     DEF Proper, Running, At, Untouched, Locked, Orderly, HoldsOnly
<1> QED
  BY <1>4, <1>5, <1>6 DEF Isolated

-----------------------------------------------------------------------------
(* Refinement, step by step. *)
LEMMA CommitIsOperation ==
  ASSUME Isolated, CA!TypeOK, NEW t \in Tx, Commit(t) PROVE [CA!Next]_(CA!vars)
<1>1. Job(t) \in Jobs
  BY Senders, Vocabulary DEF Commit, At, Running
<1>2. /\ Job(t).op = "reserve" => /\ Job(t).id \in CA!ReservationIds
                                  /\ Job(t).tokens \in Tokens \ {0}
      /\ Job(t).op \in Ending => Job(t).id \in CA!ReservationIds
      /\ Job(t).op = "settle" => Job(t).tokens \in Tokens
      /\ Job(t).op = "purchase" => Job(t).id \in CA!PurchaseIds /\ Job(t).credits \in PurchaseSizes
      /\ Job(t).op = "orphan" => Job(t).event \in Events
      /\ Job(t).op = "apply" => Job(t).id \in CA!PurchaseIds /\ Job(t).event \in Events
  BY <1>1, JobFields DEF Ending, CA!ReservationIds, ReservationIds, CA!PurchaseIds, PurchaseIds
<1>3. CASE UNCHANGED rows
  BY <1>3 DEF rows, CA!vars
<1>4. CASE Reserved(t)
  BY <1>2, <1>4 DEF Reserved, CA!Next
<1>5. CASE Ended(t)
  BY <1>2, <1>5 DEF Ended, CA!Next
<1>6. CASE Bought(t)
  BY <1>2, <1>6 DEF Bought, CA!Next
<1>7. CASE Recorded(t)
  BY <1>2, <1>7 DEF Recorded, CA!Next
<1>8. CASE Applied(t)
  BY <1>2, <1>8 DEF Applied, CA!Next
<1> QED
  BY <1>3, <1>4, <1>5, <1>6, <1>7, <1>8, CommitIs

LEMMA StepIsOperation ==
  ASSUME Isolated, CA!TypeOK, [Next]_vars PROVE [CA!Next]_(CA!vars)
<1>1. CASE UNCHANGED rows
  BY <1>1 DEF rows, CA!vars
<1>2. ASSUME NEW t \in Tx, Commit(t) PROVE [CA!Next]_(CA!vars)
  BY <1>2, CommitIsOperation
<1>3. ASSUME NEW t \in Tx, NEW job \in Jobs, Begin(t, job) PROVE UNCHANGED rows
  BY <1>3 DEF Begin
<1>4. ASSUME NEW t \in Tx, Fail(t) \/ ReleaseClient(t) PROVE UNCHANGED rows
  BY <1>4 DEF Fail, Rollback, ReleaseClient
<1>5. CASE UNCHANGED vars
  BY <1>1, <1>5 DEF vars
<1> QED
  BY <1>1, <1>2, <1>3, <1>4, <1>5, StatementsCommitNothing DEF Next

-----------------------------------------------------------------------------
(* What CreditAccount_proofs shows of the committed rows. *)
LEMMA Assumed == CP!BoundsAssumption /\ CP!TokensAssumption /\ CP!PurchaseSizesAssumption
BY BoundsAssumption, TokensAssumption, PurchaseSizesAssumption
   DEF CP!BoundsAssumption, CP!TokensAssumption, CP!PurchaseSizesAssumption

LEMMA SameTypes == CP!TypeOK <=> CA!TypeOK
BY DEF CA!TypeOK, CP!TypeOK, CA!Account, CP!Account, CA!Purchase, CP!Purchase,
       CA!Movement, CP!Movement, CA!MovementKinds, CP!MovementKinds,
       CA!Reservation, CP!Reservation, CA!Terminal, CP!Terminal,
       CA!ReservationIds, CP!ReservationIds, CA!PurchaseIds, CP!PurchaseIds

LEMMA SameSteps == [CA!Next]_(CA!vars) => [CP!Next]_(CP!vars)
BY DEF CA!Next, CP!Next, CA!vars, CP!vars, CA!ReservationIds, CP!ReservationIds,
       CA!PurchaseIds, CP!PurchaseIds, CA!Reserve, CP!Reserve, CA!Settle, CP!Settle,
       CA!SettledCredits, CP!SettledCredits, CA!Lesser, CP!Lesser,
       CA!calculateCreditsFromTokens, CP!calculateCreditsFromTokens,
       CA!StartedThousands, CP!StartedThousands, CA!TokensPerCredit, CP!TokensPerCredit,
       CA!Release, CP!Release, CA!Expire, CP!Expire, CA!GiveBack, CP!GiveBack,
       CA!CreatePurchase, CP!CreatePurchase, CA!ApplyPurchase, CP!ApplyPurchase,
       CA!RecordEvent, CP!RecordEvent, CA!Move, CP!Move, CA!Entry, CP!Entry

LEMMA BalancedIs == CP!Balanced => CA!TypeOK /\ CA!RefundCovered
<1>1. CP!Balanced => CP!TypeOK /\ CP!RefundCovered
  <2>1. CP!Balanced => CP!RefundCovered
    BY Assumed, CP!BalancedCoversRefunds, Zenon
  <2> QED
    BY <2>1 DEF CP!Balanced
<1>2. CP!RefundCovered => CA!RefundCovered
  BY DEF CP!RefundCovered, CA!RefundCovered, CP!ReservationIds, CA!ReservationIds
<1> QED
  BY <1>1, <1>2, SameTypes

LEMMA InitIsInit == Init => CA!Init /\ CP!Init
BY DEF Init, CA!Init, CP!Init, NoReservation, CA!NoReservation, CP!NoReservation,
       NoPurchase, CA!NoPurchase, CP!NoPurchase, ReservationIds, CA!ReservationIds,
       CP!ReservationIds, PurchaseIds, CA!PurchaseIds, CP!PurchaseIds

Sound == Isolated /\ CP!Balanced

LEMMA InitSound == Init => Sound
<1>1. CP!Init => CP!Balanced
  BY Assumed, CP!InitBalanced, Zenon
<1> QED
  BY <1>1, InitIsInit, InitIsolated DEF Sound

LEMMA NextSound == Sound /\ [Next]_vars => Sound' /\ [CA!Next]_(CA!vars)
<1> SUFFICES ASSUME Sound, [Next]_vars PROVE Sound' /\ [CA!Next]_(CA!vars)
  OBVIOUS
<1>1. Isolated /\ CP!Balanced /\ CA!TypeOK /\ CA!RefundCovered
  BY BalancedIs DEF Sound
<1>2. Isolated' /\ [CA!Next]_(CA!vars)
  BY <1>1, NextIsolated, StepIsOperation
<1>3. CP!Balanced /\ [CP!Next]_(CP!vars) => CP!Balanced'
  BY Assumed, CP!NextBalanced, Zenon
<1> QED
  BY <1>1, <1>2, <1>3, SameSteps DEF Sound

LEMMA SpecSound == Spec => []Sound
BY InitSound, NextSound, PTL DEF Spec

(* Whatever the number of connections, the sizes and the order in which the *)
(* statements of concurrent transactions run, and wherever a transaction    *)
(* fails: the committed rows go from one to the next as the operations of   *)
(* CreditAccount say.                                                       *)
THEOREM TransactionsImplementCreditAccount == Spec => ImplementsCreditAccount
<1>1. Init => CA!Init
  BY InitIsInit
<1>2. Sound /\ [Next]_vars => [CA!Next]_(CA!vars)
  BY NextSound
<1> QED
  BY <1>1, <1>2, SpecSound, PTL DEF Spec, ImplementsCreditAccount, CA!Spec

(* The connections and the locks have their types, and a connection that is *)
(* idle or has just ended its transaction holds no lock.                    *)
THEOREM TypeCorrect == Spec => []TypeOK
<1>1. Sound => TypeOK
  <2> SUFFICES ASSUME Isolated PROVE TypeOK
    BY DEF Sound
  <2>1. Typed /\ \A t \in Tx : Orderly(t)
    BY DEF Isolated
  <2>2. /\ DOMAIN tx = Tx /\ locks \in [Rows -> Tx \cup {NoTx}]
        /\ \A t \in Tx : /\ tx[t].pc \in Statements \cup {"idle", "over"}
                         /\ tx[t].job \in Jobs \cup {NoJob}
                         /\ tx[t].outcome \in Outcomes
    BY <2>1 DEF Typed, Transaction
  <2>3. \A t \in Tx : DOMAIN writes[t] \subseteq Rows
    BY <2>1 DEF Typed, Written
  <2>4. \A t \in Tx : tx[t].pc \in {"idle", "over"} => \A row \in Rows : locks[row] # t
    BY <2>1 DEF Orderly, HoldsOnly
  <2> QED
    BY <2>2, <2>3, <2>4 DEF TypeOK
<1> QED
  BY <1>1, SpecSound, PTL

-----------------------------------------------------------------------------
(* The two exceptions of a closing operation have no state to be thrown in: *)
(* the row stays reserved while its lock is held, and the account always    *)
(* has what a live reservation holds.                                       *)
LEMMA ClosingFindsItsRow ==
  ASSUME Isolated, NEW t \in Tx, CloseReservation(t)
  PROVE  ReservationOf(t).status = "reserved"
<1>1. At(t, "closeReservation") /\ Running(t)
  BY Vocabulary DEF CloseReservation, At, Running
<1>2. Ends(t)
  BY <1>1, Senders DEF At
<1> QED
  BY <1>1, <1>2, VisibleRows DEF Ends, Untouched, ReservationOf

LEMMA RefundFindsItsCredits ==
  ASSUME Isolated, CA!TypeOK, CA!RefundCovered, NEW t \in Tx, At(t, "refund")
  PROVE  ~ Visible(t, AccountRow).reserved < -tx[t].entry.delta_reserved
<1>1. Running(t)
  BY Vocabulary DEF At, Running
<1>2. /\ Job(t) \in Jobs /\ Job(t).op \in Ending /\ Ends(t)
      /\ Written(t) = {ReservationRow(Job(t).id)}
  BY <1>1, Senders DEF At, Ends
<1> DEFINE row == reservations[Job(t).id]
<1>3. Job(t).id \in ReservationIds
  BY <1>2, JobFields DEF Ending
<1>4. row.status = "reserved" /\ row \in CA!Reservation /\ tx[t].entry = EntryOf(Job(t), row)
  BY <1>2, <1>3 DEF Ends, CA!TypeOK, CA!ReservationIds, ReservationIds
<1>5. /\ tx[t].entry.delta_reserved = -row.reserved_credits /\ row.reserved_credits \in Nat
      /\ account.reserved \in Nat /\ account.reserved >= row.reserved_credits
  BY <1>2, <1>3, <1>4, ClosingTyped DEF CA!Reservation, CA!TypeOK, CA!Account,
     CA!RefundCovered, CA!ReservationIds, ReservationIds
<1>6. Visible(t, AccountRow) = account
  BY <1>2, VisibleRows, RowsDiffer
<1> QED
  BY <1>5, <1>6

(* What a statement can make of the answer. *)
Answers(t, outcomes) ==
  /\ tx'[t].pc \in Statements /\ tx'[t].job = tx[t].job /\ tx'[t].outcome \in outcomes
  /\ \A u \in Tx : u # t => tx'[u] = tx[u]

LEMMA StatementAnswers ==
  ASSUME Isolated, CA!TypeOK, CA!RefundCovered, NEW t \in Tx, Statement(t), ~ Commit(t)
  PROVE  \/ Answers(t, {"none", "done", "undefined"})
         \/ Job(t).op = "apply" /\ Rollback(t, "threw")
<1>1. Typed /\ Running(t) /\ ~ At(t, "commit") /\ tx[t].outcome = "none"
  <2>1. Typed /\ Running(t) /\ ~ At(t, "commit")
    BY Vocabulary
       DEF Isolated, Running, At, Statement, Debit, InsertReservation, LockReservation,
           CloseReservation, Refund, InsertPurchase, InsertEvent, FindPurchase,
           CompletePurchase, Credit, MarkProcessed, InsertLedger
  <2> QED
    BY <2>1, Senders
<1>2. ASSUME NEW pc \in Statements, Goto(t, pc) PROVE Answers(t, {"none", "done", "undefined"})
  BY <1>1, <1>2, GotoMoves DEF Moves, Answers
<1>3. ASSUME NEW outcome \in {"done", "undefined"}, Return(t, outcome)
      PROVE  Answers(t, {"none", "done", "undefined"})
  BY <1>1, <1>3, ReturnMoves, Vocabulary DEF Moves, Answers
<1>4. ASSUME NEW pc \in Statements, NEW entry, tx' = [tx EXCEPT ![t].pc = pc, ![t].entry = entry]
      PROVE  Answers(t, {"none", "done", "undefined"})
  BY <1>1, <1>4 DEF Typed, Transaction, Answers
<1>5. CASE Debit(t)
  BY <1>2, <1>3, <1>5, Vocabulary DEF Debit
<1>6. CASE InsertReservation(t)
  BY <1>4, <1>6, Vocabulary DEF InsertReservation
<1>7. CASE LockReservation(t)
  BY <1>2, <1>3, <1>7, Vocabulary DEF LockReservation
<1>8. CASE CloseReservation(t)
  <2>1. ReservationOf(t).status = "reserved"
    BY <1>8, ClosingFindsItsRow DEF CloseReservation
  <2> QED
    BY <1>4, <1>8, <2>1, Vocabulary DEF CloseReservation
<1>9. CASE Refund(t)
  <2>1. ~ Visible(t, AccountRow).reserved < -tx[t].entry.delta_reserved
    BY <1>9, RefundFindsItsCredits DEF Refund
  <2> QED
    BY <1>2, <1>9, <2>1, Vocabulary DEF Refund
<1>10. CASE InsertPurchase(t)
  BY <1>3, <1>10 DEF InsertPurchase
<1>11. CASE InsertEvent(t)
  BY <1>2, <1>3, <1>11, Vocabulary DEF InsertEvent
<1>12. CASE FindPurchase(t)
  BY <1>2, <1>3, <1>12, Vocabulary DEF FindPurchase
<1>13. CASE CompletePurchase(t)
  <2>1. Job(t).op = "apply"
    BY <1>1, <1>13, Senders DEF CompletePurchase, At
  <2> QED
    BY <1>2, <1>13, <2>1, Vocabulary DEF CompletePurchase
<1>14. CASE Credit(t)
  BY <1>4, <1>14, Vocabulary DEF Credit
<1>15. CASE MarkProcessed(t)
  BY <1>3, <1>15 DEF MarkProcessed
<1>16. CASE InsertLedger(t)
  BY <1>2, <1>3, <1>16, Vocabulary DEF InsertLedger
<1> QED
  BY <1>5, <1>6, <1>7, <1>8, <1>9, <1>10, <1>11, <1>12, <1>13, <1>14, <1>15, <1>16
     DEF Statement

(* What the caller of an operation is told is so, and stays so. *)
Told(t) ==
  LET id == Job(t).id IN
  /\ Job(t).op = "settle" /\ tx[t].outcome = "done" => reservations[id].status = "settled"
  /\ Job(t).op = "release" /\ tx[t].outcome = "done" => reservations[id].status = "released"
  /\ Job(t).op \in Ending /\ tx[t].outcome = "undefined" => reservations[id].status \in CA!Terminal
  /\ Job(t).op = "apply" /\ tx[t].outcome \in {"done", "undefined"}
       => events[Job(t).event] # "unseen"

Honest(t) ==
  /\ At(t, "over") => Job(t) \in Jobs /\ Told(t)
  /\ Job(t).op \in Ending => tx[t].outcome # "threw"

(* Only a COMMIT changes the rows an answer is about, and it takes nothing back. *)
LEMMA HonestStays ==
  ASSUME Isolated, CA!TypeOK, NEW t \in Tx, NEW u \in Tx, Honest(u), tx'[u] = tx[u],
         Commit(t) \/ UNCHANGED rows
  PROVE  Honest(u)'
<1>1. Job(u)' = Job(u) /\ (At(u, "over")' <=> At(u, "over")) /\ tx'[u].outcome = tx[u].outcome
  BY DEF Job, At
<1>2. ASSUME Job(u) \in Jobs, Told(u) PROVE Told(u)'
  <2>1. Job(u).op \in Ending /\ reservations[Job(u).id].status \in CA!Terminal
          => reservations'[Job(u).id] = reservations[Job(u).id]
    BY <1>2, JobFields, NeverBack DEF Ending, rows
  <2>2. Job(u).op = "apply" /\ events[Job(u).event] # "unseen" => events'[Job(u).event] # "unseen"
    BY <1>2, JobFields, NeverBack DEF rows
  <2> QED
    BY <1>1, <1>2, <2>1, <2>2 DEF Told, Ending, CA!Terminal
<1> QED
  BY <1>1, <1>2 DEF Honest

LEMMA CommitHonest ==
  ASSUME Isolated, CA!TypeOK, NEW t \in Tx, Commit(t), Honest(t) PROVE Honest(t)'
<1>1. PICK outcome \in Outcomes : End(t, outcome) /\ outcome \in {tx[t].outcome, "lost"}
  BY Vocabulary DEF Commit, Isolated, Typed, Transaction
<1>2. Running(t) /\ At(t, "commit") /\ Typed
  BY Vocabulary DEF Commit, At, Running, Isolated
<1>3. Job(t)' = Job(t) /\ tx'[t].outcome = outcome /\ Job(t) \in Jobs
  BY <1>1, <1>2, EndRows, Senders DEF Moves, Job
<1>4. /\ Job(t).op \in Ending => Ends(t) /\ Job(t).id \in ReservationIds
      /\ Job(t).op = "apply" => Applies(t) /\ Job(t).event \in Events
  BY <1>2, <1>3, JobFields DEF Isolated, Proper, Ending
<1>5. Job(t).op \in Ending /\ Done(t)
        => reservations'[Job(t).id] = ClosedAs(Job(t), reservations[Job(t).id])
  <2> SUFFICES ASSUME Job(t).op \in Ending, Done(t)
               PROVE  reservations'[Job(t).id] = ClosedAs(Job(t), reservations[Job(t).id])
    OBVIOUS
  <2>1. /\ Written(t) = {ReservationRow(Job(t).id), AccountRow}
        /\ writes[t][ReservationRow(Job(t).id)] = ClosedAs(Job(t), reservations[Job(t).id])
    BY <1>4 DEF Ends
  <2>2. reservations' = [reservations EXCEPT ![Job(t).id] = writes[t][ReservationRow(Job(t).id)]]
    BY <1>4, <2>1, CommitTables, RowsDiffer
  <2> QED
    BY <1>4, <2>1, <2>2 DEF CA!TypeOK, CA!ReservationIds, ReservationIds
<1>6. /\ Job(t).op = "settle" /\ Done(t) => reservations'[Job(t).id].status = "settled"
      /\ Job(t).op = "release" /\ Done(t) => reservations'[Job(t).id].status = "released"
  BY <1>4, <1>5 DEF Ending, ClosedAs, CA!TypeOK, CA!ReservationIds, ReservationIds, CA!Reservation
<1>7. Job(t).op \in Ending /\ Undone(t) => reservations'[Job(t).id].status \in CA!Terminal
  BY <1>4, NeverBack DEF Ends
<1>8. Job(t).op = "apply" /\ (Done(t) \/ Undone(t)) => events'[Job(t).event] # "unseen"
  <2>1. Job(t).op = "apply" /\ Undone(t) => events[Job(t).event] # "unseen"
    BY <1>4 DEF Applies, Delivers
  <2>2. Job(t).op = "apply" /\ Done(t) => events'[Job(t).event] = "processed"
    BY <1>4, CommitTables, RowsDiffer DEF Applies, Delivers, CA!TypeOK
  <2> QED
    BY <1>4, <2>1, <2>2, NeverBack
<1>9. /\ outcome = "done" => Done(t)
      /\ outcome = "undefined" => Undone(t)
  BY <1>1, <1>2 DEF Done, Undone
<1>10. Told(t)'
  BY <1>3, <1>6, <1>7, <1>8, <1>9 DEF Told
<1> QED
  BY <1>1, <1>3, <1>10 DEF Honest

AllHonest == \A t \in Tx : Honest(t)

LEMMA NextHonest == Sound /\ AllHonest /\ [Next]_vars => AllHonest'
<1> SUFFICES ASSUME Sound, AllHonest, [Next]_vars, NEW u \in Tx PROVE Honest(u)'
  BY DEF AllHonest
<1>1. Isolated /\ CA!TypeOK /\ CA!RefundCovered /\ Honest(u) /\ Typed
  BY BalancedIs DEF Sound, AllHonest, Isolated
<1>2. ASSUME NEW t \in Tx, NEW outcome \in {"lost", "threw"}, Rollback(t, outcome),
             outcome = "threw" => Job(t).op = "apply", Job(t) \in Jobs
      PROVE  Honest(u)'
  <2>1. Moves(t, "over", outcome, NoEntry) /\ UNCHANGED rows
    BY <1>1, <1>2, EndRows, Vocabulary DEF Rollback
  <2>2. CASE u = t
    BY <1>2, <2>1, <2>2 DEF Moves, Honest, Told, Job, Ending
  <2>3. CASE u # t
    BY <1>1, <2>1, <2>3, HonestStays DEF Moves
  <2> QED
    BY <2>2, <2>3
<1>3. ASSUME NEW t \in Tx, Commit(t) PROVE Honest(u)'
  <2>1. CASE u # t
    <3>1. tx'[u] = tx[u]
      BY <1>3, <2>1 DEF Commit, End
    <3> QED
      BY <1>1, <1>3, <3>1, HonestStays
  <2> QED
    BY <1>1, <1>3, <2>1, CommitHonest
<1>4. ASSUME NEW t \in Tx, Statement(t), ~ Commit(t) PROVE Honest(u)'
  <2>1. Job(t) \in Jobs
    BY <1>1, <1>4, Senders, Vocabulary
       DEF Running, At, Statement, Debit, InsertReservation, LockReservation,
           CloseReservation, Refund, InsertPurchase, InsertEvent, FindPurchase,
           CompletePurchase, Credit, MarkProcessed, InsertLedger
  <2>2. CASE Answers(t, {"none", "done", "undefined"})
    <3>1. UNCHANGED rows
      BY <1>4, StatementsCommitNothing
    <3>2. u # t => tx'[u] = tx[u]
      BY <2>2 DEF Answers
    <3>3. u = t => Honest(u)'
      BY <2>2, Vocabulary DEF Answers, Honest, At
    <3> QED
      BY <1>1, <3>1, <3>2, <3>3, HonestStays
  <2> QED
    BY <1>1, <1>2, <1>4, <2>1, <2>2, StatementAnswers
<1>5. ASSUME NEW t \in Tx, Fail(t) PROVE Honest(u)'
  <2>1. Job(t) \in Jobs
    BY <1>1, <1>5, Senders DEF Fail, Running
  <2> QED
    BY <1>2, <1>5, <2>1 DEF Fail
<1>6. ASSUME NEW t \in Tx, NEW job \in Jobs, Begin(t, job) PROVE Honest(u)'
  <2>1. UNCHANGED rows /\ (u # t => tx'[u] = tx[u])
    BY <1>1, <1>6 DEF Begin, Typed
  <2>2. tx[t] = Idle
    BY <1>1, <1>6 DEF Isolated, Proper, Begin
  <2>3. tx'[t].pc # "over" /\ tx'[t].outcome = "none"
    <3>1. FirstStatement(job.op) # "over"
      BY JobFields DEF FirstStatement
    <3> QED
      BY <1>1, <1>6, <2>2, <3>1 DEF Begin, Typed, Idle
  <2> QED
    BY <1>1, <2>1, <2>3, HonestStays DEF Honest, At
<1>7. ASSUME NEW t \in Tx, ReleaseClient(t) PROVE Honest(u)'
  <2>1. UNCHANGED rows /\ (u # t => tx'[u] = tx[u])
    BY <1>1, <1>7 DEF ReleaseClient, Typed
  <2>2. tx'[t] = Idle
    BY <1>1, <1>7 DEF ReleaseClient, Typed
  <2>3. u = t => Honest(u)'
    BY <2>2 DEF Honest, At, Job, Idle
  <2> QED
    BY <1>1, <2>1, <2>3, HonestStays
<1>8. CASE UNCHANGED vars
  BY <1>1, <1>8, HonestStays DEF vars
<1> QED
  BY <1>3, <1>4, <1>5, <1>6, <1>7, <1>8 DEF Next

LEMMA SpecHonest == Spec => []AllHonest
<1>1. Init => AllHonest
  <2>1. Init => \A t \in Tx : tx[t] = Idle
    BY DEF Init
  <2> QED
    BY <2>1 DEF AllHonest, Honest, At, Idle
<1> QED
  BY <1>1, NextHonest, SpecSound, PTL DEF Spec

(* Neither of the exceptions a settlement, a release or an expiry may throw *)
(* is ever thrown.                                                          *)
THEOREM ClosingDoesNotThrow == Spec => []ClosingNeverThrows
<1>1. AllHonest => ClosingNeverThrows
  BY DEF AllHonest, Honest, ClosingNeverThrows, Ending, Job
<1> QED
  BY <1>1, SpecHonest, PTL

(* A caller who is told that a reservation was settled or released finds it *)
(* so, one who is told nothing was done finds it ended, and a delivery that *)
(* was answered finds its event recorded, at the answer and ever after.     *)
THEOREM AnswersAreTrue == Spec => []OutcomeIsTrue
<1>1. AllHonest => OutcomeIsTrue
  BY DEF AllHonest, Honest, Told, OutcomeIsTrue, Ending, Job, At
<1> QED
  BY <1>1, SpecHonest, PTL

-----------------------------------------------------------------------------
(* A connection that waits does not hold the row it waits for. *)
LEMMA WaitsAt ==
  ASSUME Isolated, NEW t \in Tx, NEW u \in Tx, WaitsFor(t, u)
  PROVE  /\ Job(t) \in Jobs /\ NextRow(t) \in Rows /\ locks[NextRow(t)] = u
         /\ \/ tx[t].pc \in {"debit", "refund", "credit"} /\ NextRow(t) = AccountRow
            \/ tx[t].pc = "lockReservation" /\ NextRow(t) = ReservationRow(Job(t).id)
            \/ tx[t].pc = "completePurchase" /\ NextRow(t) = PurchaseRow(Job(t).id)
            \/ tx[t].pc = "insertEvent" /\ NextRow(t) = EventRow(Job(t).event)
<1>1. Running(t) /\ t # u /\ NextRow(t) # <<>> /\ locks[NextRow(t)] = u /\ Locked(t)
  BY DEF WaitsFor, Running, Isolated
<1>2. Job(t) \in Jobs
  BY <1>1, Senders
<1>3. /\ tx[t].pc \in {"debit", "refund", "credit"} => NextRow(t) = AccountRow
      /\ tx[t].pc \in {"lockReservation", "closeReservation"}
           => NextRow(t) = ReservationRow(Job(t).id) /\ Job(t).op \in Ending
      /\ tx[t].pc \in {"insertEvent", "markProcessed"}
           => NextRow(t) = EventRow(Job(t).event) /\ Job(t).op \in {"apply", "orphan"}
      /\ tx[t].pc = "completePurchase"
           => NextRow(t) = PurchaseRow(Job(t).id) /\ Job(t).op = "apply"
      /\ tx[t].pc \in {"debit", "refund", "credit", "lockReservation", "closeReservation",
                       "insertEvent", "markProcessed", "completePurchase"}
  BY <1>1, Senders DEF NextRow
<1>4. tx[t].pc # "closeReservation"
  BY <1>1, <1>3, Senders DEF Ends, At
<1>5. tx[t].pc # "markProcessed"
  <2> SUFFICES ASSUME tx[t].pc = "markProcessed" PROVE FALSE
    OBVIOUS
  <2>1. EventRow(Job(t).event) \in Written(t)
    BY <1>1, Senders DEF Applies, At
  <2> QED
    BY <1>1, <1>3, <2>1 DEF Locked
<1>6. NextRow(t) \in Rows
  BY <1>2, <1>3, JobFields, RowsExist DEF Ending
<1> QED
  BY <1>1, <1>2, <1>3, <1>4, <1>5, <1>6

(* Rows are locked in one order, so who is waited for and waits itself      *)
(* waits for a row further on.                                              *)
LEMMA WaitsFurtherOn ==
  ASSUME Isolated, NEW t \in Tx, NEW u \in Tx, NEW v \in Tx, WaitsFor(t, u), WaitsFor(u, v)
  PROVE  /\ tx[t].pc \notin {"debit", "refund", "credit"}
         /\ tx[t].pc \in {"lockReservation", "completePurchase"}
              => tx[u].pc \in {"debit", "refund", "credit"}
         /\ tx[t].pc = "insertEvent"
              => tx[u].pc \in {"debit", "refund", "credit", "lockReservation", "completePurchase"}
<1>1. Orderly(u) /\ NextRow(t) \in Rows /\ locks[NextRow(t)] = u
  BY WaitsAt DEF Isolated
<1>2. /\ tx[u].pc \in {"debit", "lockReservation", "insertEvent"} => NextRow(t) \in {}
      /\ tx[u].pc = "refund" => NextRow(t) = ReservationRow(Job(u).id)
      /\ tx[u].pc = "completePurchase" => NextRow(t) = EventRow(Job(u).event)
      /\ tx[u].pc = "credit" => NextRow(t) \in {EventRow(Job(u).event), PurchaseRow(Job(u).id)}
  BY <1>1 DEF Orderly, HoldsOnly
<1>3. tx[u].pc \in {"debit", "refund", "credit", "lockReservation", "completePurchase",
                    "insertEvent"}
  BY WaitsAt
<1> QED
  BY <1>2, <1>3, WaitsAt, RowsDiffer

(* No set of transactions waits for itself, however many they are: nobody   *)
(* who waits holds the account, hence nobody who waits for a reservation or *)
(* a purchase is waited for by a waiter, hence nobody who waits for an      *)
(* event either.                                                            *)
THEOREM NeverDeadlocked == Spec => []NoLockCycle
<1>1. Isolated => NoLockCycle
  <2> SUFFICES ASSUME Isolated, NEW waiting \in SUBSET Tx, waiting # {},
                      \A t \in waiting : \E u \in waiting : WaitsFor(t, u)
               PROVE  FALSE
    BY DEF NoLockCycle
  <2>1. \A t \in waiting : tx[t].pc \notin {"debit", "refund", "credit"}
    BY WaitsFurtherOn
  <2>2. \A t \in waiting : tx[t].pc \notin {"lockReservation", "completePurchase"}
    BY <2>1, WaitsFurtherOn
  <2>3. \A t \in waiting : tx[t].pc # "insertEvent"
    BY <2>1, <2>2, WaitsFurtherOn
  <2> QED
    BY <2>1, <2>2, <2>3, WaitsAt
<1> QED
  BY <1>1, SpecSound, PTL DEF Sound
=============================================================================
