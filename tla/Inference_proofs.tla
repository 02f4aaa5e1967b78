--------------------------- MODULE Inference_proofs ---------------------------
(***************************************************************************)
(* What Inference promises for every number of requests, keys and bodies:  *)
(* its credits are those of CreditAccount, a key has one owner, a client   *)
(* is told the truth, and who was charged can fetch the answer.            *)
(***************************************************************************)
EXTENDS Inference, TLAPS

Request == [pc : Places, key : Keys \cup {"none"}, body : Tokens \cup {0},
            owner : BOOLEAN, called : BOOLEAN, answer : Answers]
Key == [status : {"free", "pending", "completed", "failed"}, body : Tokens \cup {0},
        response : Responses \cup {"none"}, reservation : Requests \cup {0}]

Sweeps == [phase : {"idle", "reservations", "clock", "list", "keys"},
           waited : 0..MaxSweepStall, overdue : SUBSET Keys, stale : SUBSET Keys]

Early == {"admit", "reserve", "note402"}
Late == {"decrypt", "calling", "settle"}
Past == {"release", "respond", "answered", "dead"}

(* What a request is at a place. *)
PlacedAt(x) ==
  /\ x.pc # "idle" => x.key \in Keys /\ x.body \in Tokens
  /\ x.pc \in {"idle", "claim", "lookup"} => ~ x.owner /\ x.answer = "none"
  /\ x.pc \in Early \cup Late \cup {"release"} => x.owner
  /\ x.called => x.owner /\ x.pc \notin Early \cup {"decrypt"}
  /\ x.owner => x.answer \notin {"conflict", "inProgress"}
  /\ x.pc \in {"respond", "answered"} => x.answer # "none"
  /\ x.pc = "release" => x.answer \in {"modelError", "internalError"}
  /\ x.pc = "note402" => x.answer = "insufficient"

Placed == \A q \in Requests : PlacedAt(requests[q])

(* What a request and the status of its reservation are together. *)
HoldsAt(x, status) ==
  /\ status # "none" => x.owner
  /\ x.pc \in Early => status = "none"
  /\ x.pc \in Late \cup {"release"} \/ x.called => status # "none"
  /\ status = "settled" => x.pc \in Past

Holding == \A q \in Requests : HoldsAt(requests[q], reservations[q].status)

(* A key that was claimed has one owner at most and stays claimed; it is   *)
(* linked to a reservation only with its answer.                           *)
OneOwner ==
  /\ \A q \in Requests :
       requests[q].owner \/ At(q, "lookup") => keys[KeyOf(q)].status # "free"
  /\ \A p, q \in Requests :
       requests[p].owner /\ requests[q].owner /\ KeyOf(p) = KeyOf(q) => p = q
  /\ \A k \in Keys : keys[k].status = "pending" => keys[k].reservation = 0

(* What an answer says of the owner of its key, x, whose reservation has    *)
(* the status; it says so for good.                                         *)
Telling == {"settled", "unsettled", "modelError", "insufficient", "rejected"}

TrueOf(answer, x, status) ==
  /\ answer = "settled" => status = "settled"
  /\ answer \in {"unsettled", "modelError"} => status # "settled" /\ x.pc \in Past
  /\ answer \in {"insufficient", "rejected"} => status = "none" /\ x.pc \in Past \cup {"note402"}

TrueFor(answer, k) ==
  answer \in Telling =>
    /\ keys[k].status # "free"
    /\ answer = "settled" => \E p \in Requests : requests[p].owner /\ KeyOf(p) = k
    /\ \A p \in Requests :
         requests[p].owner /\ KeyOf(p) = k
           => TrueOf(answer, requests[p], reservations[p].status)

Told ==
  /\ \A k \in Keys : TrueFor(keys[k].response, k)
  /\ \A q \in Requests : TrueFor(requests[q].answer, KeyOf(q))

(* The inductive invariant. *)
Sound == TypeOK /\ Placed /\ Holding /\ OneOwner /\ Told

(* What the code's three and five minutes leave for a handler between its   *)
(* claim and its reservation and for a sweep between its last list of       *)
(* reservations and its reading of the clock.  No timeout enforces it.      *)
Prompt == ReservationTTL > 0 /\ ReservationTTL + MaxStall + MaxSweepStall <= KeyTTL

(* A handler that reserves in time holds its credits for less long than its *)
(* key waits, by as much as a sweep may stall.                              *)
Deadlines ==
  /\ \A q \in Requests : Unreserved(q) => KeyTTL - keyLeft[KeyOf(q)] <= MaxStall
  /\ \A q \in Requests :
       reservations[q].status = "reserved" /\ left[q] > 0
         => left[q] + MaxSweepStall <= keyLeft[KeyOf(q)]

(* A key that a sweep has listed, or will find overdue when it reads the    *)
(* clock at the latest moment, has no reservation that could be settled,    *)
Doomed(k) ==
  \/ k \in sweep.overdue \cup sweep.stale
  \/ /\ sweep.phase = "clock" /\ keys[k].status # "free"
     /\ keyLeft[k] + sweep.waited <= MaxSweepStall

Listed ==
  \A k \in Keys : Doomed(k) =>
    /\ keys[k].status # "free" /\ keyLeft[k] <= MaxSweepStall
    /\ \A q \in Requests : KeyOf(q) = k => reservations[q].status # "reserved"

(* and so the key of a reservation that may yet be made or settled waits.   *)
WillSettle(q) ==
  Unreserved(q) \/ (reservations[q].status = "reserved" /\ requests[q].pc \in Late)

Waiting == \A q \in Requests : WillSettle(q) => keys[KeyOf(q)].status = "pending"

Timely == Sound /\ Deadlines /\ Listed /\ Waiting /\ ChargeIsReplayed

-----------------------------------------------------------------------------
(* The operations on the credits keep the tables' types and change one row. *)
LEMMA CreditsType ==
  ASSUME NEW t \in Nat PROVE CA!calculateCreditsFromTokens(t) \in Nat
<1>1. CA!StartedThousands(t) \in Int
  BY DEF CA!StartedThousands, CA!TokensPerCredit
<1> QED
  BY <1>1 DEF CA!calculateCreditsFromTokens

LEMMA MoveTyped ==
  ASSUME CA!TypeOK, NEW kind \in CA!MovementKinds, NEW row \in Nat, NEW a \in Int, NEW b \in Int,
         CA!Move(CA!Entry(kind, row, a, b)),
         account.available + a >= 0, account.reserved + b >= 0
  PROVE  account' \in CA!Account /\ ledger' \in Seq(CA!Movement)
<1> DEFINE entry == CA!Entry(kind, row, a, b)
<1>1. entry \in CA!Movement /\ entry.delta_available = a /\ entry.delta_reserved = b
  BY DEF CA!Movement, CA!Entry
<1>2. account.available \in Nat /\ account.reserved \in Nat /\ ledger \in Seq(CA!Movement)
  BY DEF CA!TypeOK, CA!Account
<1>3. ledger' = Append(ledger, entry)
  BY DEF CA!Move
<1>4. account' = [available |-> account.available + a, reserved |-> account.reserved + b]
  BY <1>1 DEF CA!Move
<1>5. account' \in CA!Account
  BY <1>2, <1>4 DEF CA!Account
<1> HIDE DEF entry
<1>6. ledger' \in Seq(CA!Movement)
  BY <1>1, <1>2, <1>3
<1> QED
  BY <1>5, <1>6

(* The row of one reservation is another one, and nothing else is. *)
RowBecomes(q, status) ==
  /\ reservations' \in [Requests -> CA!Reservation]
  /\ reservations'[q].status = status
  /\ \A p \in Requests : p # q => reservations'[p] = reservations[p]

LEMMA ReserveRow ==
  ASSUME CA!TypeOK, NEW q \in Requests, NEW t \in Tokens, CA!Reserve(q, t)
  PROVE  CA!TypeOK' /\ RowBecomes(q, "reserved") /\ reservations[q].status = "none"
<1> DEFINE credits == CA!calculateCreditsFromTokens(t)
<1>1. credits \in Nat
  BY CreditsType, BoundsAssumption
<1>2. /\ reservations[q].status = "none" /\ account.available >= credits
      /\ CA!Move(CA!Entry("reservation", q, -credits, credits))
      /\ reservations' = [reservations EXCEPT ![q] =
           [status |-> "reserved", reserved_credits |-> credits, settled_credits |-> 0]]
      /\ UNCHANGED <<purchases, events>>
  BY DEF CA!Reserve
<1> HIDE DEF credits
<1>3. /\ reservations \in [Requests -> CA!Reservation] /\ q \in Nat
      /\ account.available \in Nat /\ account.reserved \in Nat
  BY BoundsAssumption DEF CA!TypeOK, CA!ReservationIds, Requests, CA!Account
<1>4. "reservation" \in CA!MovementKinds
  BY DEF CA!MovementKinds
<1>5. account' \in CA!Account /\ ledger' \in Seq(CA!Movement)
  BY <1>1, <1>2, <1>3, <1>4, MoveTyped
<1>6. RowBecomes(q, "reserved")
  BY <1>1, <1>2, <1>3 DEF RowBecomes, CA!Reservation
<1> QED
  BY <1>2, <1>5, <1>6 DEF CA!TypeOK, CA!ReservationIds, Requests, RowBecomes

LEMMA SettleRow ==
  ASSUME CA!TypeOK, NEW q \in Requests, NEW t \in Tokens, CA!Settle(q, t)
  PROVE  CA!TypeOK' /\ RowBecomes(q, "settled") /\ reservations[q].status = "reserved"
<1> DEFINE held == reservations[q].reserved_credits
           settled == CA!SettledCredits(q, t)
<1>1. /\ reservations \in [Requests -> CA!Reservation] /\ q \in Nat /\ held \in Nat
      /\ account.available \in Nat /\ account.reserved \in Nat
  BY BoundsAssumption DEF CA!TypeOK, CA!ReservationIds, Requests, CA!Account, CA!Reservation
<1>2. settled \in Nat /\ settled <= held
  <2>1. CA!calculateCreditsFromTokens(t) \in Nat
    BY CreditsType, BoundsAssumption
  <2> QED
    BY <1>1, <2>1 DEF CA!SettledCredits, CA!Lesser
<1>3. /\ reservations[q].status = "reserved" /\ account.reserved >= held
      /\ CA!Move(CA!Entry("settlement", q, held - settled, -held))
      /\ reservations' = [reservations EXCEPT ![q].status = "settled",
                                              ![q].settled_credits = settled]
      /\ UNCHANGED <<purchases, events>>
  BY DEF CA!Settle
<1> HIDE DEF held, settled
<1>4. "settlement" \in CA!MovementKinds
  BY DEF CA!MovementKinds
<1>5. /\ held - settled \in Int /\ -held \in Int
      /\ account.available + (held - settled) >= 0 /\ account.reserved + (-held) >= 0
  BY <1>1, <1>2, <1>3
<1>6. account' \in CA!Account /\ ledger' \in Seq(CA!Movement)
  BY <1>1, <1>3, <1>4, <1>5, MoveTyped
<1>7. RowBecomes(q, "settled")
  BY <1>1, <1>2, <1>3 DEF RowBecomes, CA!Reservation, CA!Terminal
<1> QED
  BY <1>3, <1>6, <1>7 DEF CA!TypeOK, CA!ReservationIds, Requests, RowBecomes

LEMMA GiveBackRow ==
  ASSUME CA!TypeOK, NEW q \in Requests, NEW status \in {"released", "expired"},
         NEW kind \in CA!MovementKinds, CA!GiveBack(q, status, kind)
  PROVE  CA!TypeOK' /\ RowBecomes(q, status) /\ reservations[q].status = "reserved"
<1> DEFINE held == reservations[q].reserved_credits
<1>1. /\ reservations \in [Requests -> CA!Reservation] /\ q \in Nat /\ held \in Nat
      /\ account.available \in Nat /\ account.reserved \in Nat
  BY BoundsAssumption DEF CA!TypeOK, CA!ReservationIds, Requests, CA!Account, CA!Reservation
<1>2. /\ reservations[q].status = "reserved" /\ account.reserved >= held
      /\ CA!Move(CA!Entry(kind, q, held, -held))
      /\ reservations' = [reservations EXCEPT ![q].status = status]
      /\ UNCHANGED <<purchases, events>>
  BY DEF CA!GiveBack
<1> HIDE DEF held
<1>3. held \in Int /\ -held \in Int /\ account.available + held >= 0 /\ account.reserved + (-held) >= 0
  BY <1>1, <1>2
<1>4. account' \in CA!Account /\ ledger' \in Seq(CA!Movement)
  BY <1>1, <1>2, <1>3, MoveTyped
<1>5. RowBecomes(q, status)
  BY <1>1, <1>2 DEF RowBecomes, CA!Reservation, CA!Terminal
<1> QED
  BY <1>2, <1>4, <1>5 DEF CA!TypeOK, CA!ReservationIds, Requests, RowBecomes

LEMMA ReleaseRow ==
  ASSUME CA!TypeOK, NEW q \in Requests, CA!Release(q)
  PROVE  CA!TypeOK' /\ RowBecomes(q, "released") /\ reservations[q].status = "reserved"
BY GiveBackRow DEF CA!Release, CA!MovementKinds

LEMMA ExpireRow ==
  ASSUME CA!TypeOK, NEW q \in Requests, CA!Expire(q)
  PROVE  CA!TypeOK' /\ RowBecomes(q, "expired") /\ reservations[q].status = "reserved"
BY GiveBackRow DEF CA!Expire, CA!MovementKinds

-----------------------------------------------------------------------------
(* A key, k, that waits may get its answer; every other key stays as it is. *)
KeysKept(k) ==
  /\ keys' \in [Keys -> Key]
  /\ \A j \in Keys : KeyEnded(j)' <=> keys'[j].response # "none"
  /\ \A j \in Keys :
       keys'[j] # keys[j] =>
         j = k /\ keys[k].status = "pending" /\ keys'[k].status \in {"completed", "failed"}

LEMMA KeysUnchanged == ASSUME TypeOK, UNCHANGED keys, NEW k PROVE KeysKept(k)
BY DEF TypeOK, KeysKept, KeyEnded, Key

LEMMA FinishKey ==
  ASSUME TypeOK, NEW k \in Keys, NEW status \in {"completed", "failed"},
         NEW response \in Responses, NEW reservation \in Requests \cup {0},
         Finish(k, status, response, reservation)
  PROVE  /\ KeysKept(k)
         /\ keys[k].status # "pending" => keys' = keys
         /\ keys[k].status = "pending"
              => /\ keys'[k].status = status /\ keys'[k].response = response
                 /\ keys'[k].reservation = reservation
<1>1. keys \in [Keys -> Key] /\ \A j \in Keys : KeyEnded(j) <=> keys[j].response # "none"
  BY DEF TypeOK, Key
<1>2. CASE keys[k].status = "pending"
  <2> DEFINE row == [keys[k] EXCEPT !.status = status, !.response = response,
                                    !.reservation = reservation]
  <2>1. keys' = [keys EXCEPT ![k] = row]
    BY <1>1, <1>2 DEF Finish, Unfinished, Key
  <2>2. /\ row \in Key
        /\ row.status = status /\ row.response = response /\ row.reservation = reservation
    BY <1>1 DEF Key
  <2> HIDE DEF row
  <2>3. response # "none"
    BY DEF Responses, Ok, ClientErrors, ServerErrors
  <2>4. /\ keys' \in [Keys -> Key] /\ keys'[k] = row
        /\ \A j \in Keys : j # k => keys'[j] = keys[j]
    BY <1>1, <2>1, <2>2
  <2> QED
    BY <1>1, <1>2, <2>2, <2>3, <2>4 DEF KeysKept, KeyEnded
<1>3. CASE keys[k].status # "pending"
  <2>1. keys' = keys
    BY <1>3 DEF Finish, Unfinished
  <2> QED
    BY <1>3, <2>1, KeysUnchanged
<1> QED
  BY <1>2, <1>3

-----------------------------------------------------------------------------
LEMMA NoRequestTyped == NoRequest \in Request /\ PlacedAt(NoRequest) /\ HoldsAt(NoRequest, "none")
BY DEF NoRequest, Request, PlacedAt, HoldsAt, Places, Answers, Responses, Early, Late, Past

LEMMA InitSound == Init => Sound
<1> SUFFICES ASSUME Init PROVE Sound
  OBVIOUS
<1>1. \A q \in Requests : requests[q] = NoRequest /\ reservations[q] = CA!NoReservation
  BY DEF Init
<1>2. \A k \in Keys : keys[k] = NoKey
  BY DEF Init
<1>3. CA!TypeOK
  <2>1. PICK bought \in PurchaseSizes :
          /\ account = [available |-> bought, reserved |-> 0]
          /\ purchases = [p \in 1..1 |-> [status |-> "completed", credits |-> bought]]
          /\ ledger = <<CA!Entry("purchase", 1, bought, 0)>>
    BY DEF Init
  <2>2. bought \in Nat
    BY PurchaseSizesAssumption
  <2>3. account \in CA!Account /\ purchases \in [CA!PurchaseIds -> CA!Purchase]
    BY <2>1, <2>2 DEF CA!Account, CA!PurchaseIds, CA!Purchase
  <2>4. CA!Entry("purchase", 1, bought, 0) \in CA!Movement
    BY <2>2 DEF CA!Entry, CA!Movement, CA!MovementKinds
  <2>5. ledger \in Seq(CA!Movement)
    BY <2>1, <2>4
  <2>6. reservations \in [CA!ReservationIds -> CA!Reservation]
    BY DEF Init, CA!ReservationIds, Requests, CA!NoReservation, CA!Reservation
  <2>7. events \in [{"bought"} -> {"unseen", "recorded", "processed"}]
    BY DEF Init
  <2> QED
    BY <2>3, <2>5, <2>6, <2>7 DEF CA!TypeOK
<1>4. NoKey \in Key
  BY DEF NoKey, Key
<1>5. /\ keys \in [Keys -> Key] /\ requests \in [Requests -> Request]
      /\ sweep \in Sweeps
  <2>1. sweep = NoSweep /\ NoSweep \in Sweeps
    BY BoundsAssumption DEF Init, NoSweep, Sweeps
  <2> QED
    BY <1>4, <2>1, NoRequestTyped DEF Init
<1>6. /\ left \in [Requests -> 0..ReservationTTL]
      /\ keyLeft \in [Keys -> 0..KeyTTL]
  BY BoundsAssumption DEF Init
<1>7. \A k \in Keys : KeyEnded(k) <=> keys[k].response # "none"
  BY <1>2 DEF KeyEnded, NoKey
<1>8. TypeOK
  BY <1>3, <1>5, <1>6, <1>7 DEF TypeOK, Key, Request, Sweeps
<1>9. Placed /\ Holding
  BY <1>1, NoRequestTyped DEF Placed, Holding, CA!NoReservation
<1>10. OneOwner
  BY <1>1, <1>2 DEF OneOwner, NoRequest, NoKey, At, KeyOf
<1>11. Told
  BY <1>1, <1>2 DEF Told, TrueFor, Telling, NoRequest, NoKey
<1> QED
  BY <1>8, <1>9, <1>10, <1>11 DEF Sound

(* An answer that is true of the owner of a key is true for the key. *)
LEMMA OwnAnswer ==
  ASSUME OneOwner, NEW q \in Requests, requests[q].owner, NEW answer,
         TrueOf(answer, requests[q], reservations[q].status)
  PROVE  TrueFor(answer, KeyOf(q))
BY DEF OneOwner, TrueFor

(* A request that owns no key and tells nothing becomes x, and it may claim its key. *)
LEMMA EntryKeeps ==
  ASSUME Sound, NEW q \in Requests, NEW x \in Request, ~ requests[q].owner,
         requests' = [requests EXCEPT ![q] = x], UNCHANGED <<credit, left, sweep>>,
         \/ UNCHANGED <<keys, keyLeft>> /\ ~ x.owner
         \/ /\ x.key \in Keys /\ keys[x.key].status = "free"
            /\ keys' = [keys EXCEPT ![x.key] = [NoKey EXCEPT !.status = "pending", !.body = x.body]]
            /\ keyLeft' = [keyLeft EXCEPT ![x.key] = KeyTTL],
         PlacedAt(x), HoldsAt(x, "none"), x.answer \notin Telling,
         x.pc = "lookup" => keys'[x.key].status # "free"
  PROVE  Sound'
<1> USE DEF Sound
<1>1. /\ requests'[q] = x
      /\ \A p \in Requests : p # q => requests'[p] = requests[p]
      /\ requests' \in [Requests -> Request]
  BY DEF TypeOK, Request
<1>2. reservations' = reservations /\ reservations[q].status = "none"
  BY DEF credit, Holding, HoldsAt
<1>3. /\ keys' \in [Keys -> Key]
      /\ \A k \in Keys : \/ keys'[k] = keys[k]
                         \/ /\ k = x.key /\ keys[k].status = "free"
                            /\ keys'[k].status = "pending" /\ keys'[k].response = "none"
                            /\ keys'[k].reservation = 0
      /\ x.owner => x.key \in Keys /\ keys[x.key].status = "free" /\ keys'[x.key].status = "pending"
  <2>1. keys \in [Keys -> Key]
    BY DEF TypeOK, Key
  <2> DEFINE row == [NoKey EXCEPT !.status = "pending", !.body = x.body]
  <2>2. /\ row \in Key /\ row.status = "pending" /\ row.response = "none"
        /\ row.reservation = 0
    BY DEF NoKey, Key, Request
  <2>3. CASE UNCHANGED keys /\ ~ x.owner
    BY <2>1, <2>3
  <2>4. CASE x.key \in Keys /\ keys[x.key].status = "free" /\ keys' = [keys EXCEPT ![x.key] = row]
    <3> HIDE DEF row
    <3>1. keys'[x.key] = row /\ \A k \in Keys : k # x.key => keys'[k] = keys[k]
      BY <2>1, <2>4
    <3> QED
      BY <2>1, <2>2, <2>4, <3>1
  <2> QED
    BY <2>3, <2>4
<1>4. TypeOK'
  <2>1. \A k \in Keys : KeyEnded(k)' <=> keys'[k].response # "none"
    BY <1>3 DEF TypeOK, KeyEnded
  <2>2. keyLeft' \in [Keys -> 0..KeyTTL]
    BY BoundsAssumption DEF TypeOK
  <2>3. CA!TypeOK'
    BY DEF TypeOK, credit, CA!TypeOK
  <2> QED
    BY <1>1, <1>3, <2>1, <2>2, <2>3 DEF TypeOK, Key, Request
<1>5. Placed' /\ Holding'
  BY <1>1, <1>2 DEF Placed, Holding
<1>6. OneOwner'
  <2>1. x.owner => x.key \in Keys /\ keys[x.key].status = "free" /\ keys'[x.key].status = "pending"
    BY <1>3
  <2>2. \A p \in Requests : requests[p].owner \/ At(p, "lookup")
          => KeyOf(p) \in Keys /\ keys[KeyOf(p)].status # "free"
    BY DEF OneOwner, Placed, PlacedAt, At, KeyOf
  <2>3. ASSUME NEW p \in Requests, requests'[p].owner \/ At(p, "lookup")'
        PROVE  keys'[requests'[p].key].status # "free"
    <3>1. CASE p = q
      BY <1>1, <2>1, <2>3, <3>1 DEF At
    <3>2. CASE p # q
      BY <1>1, <1>3, <2>2, <2>3, <3>2 DEF At, KeyOf
    <3> QED
      BY <3>1, <3>2
  <2>4. ASSUME NEW p \in Requests, NEW r \in Requests, requests'[p].owner, requests'[r].owner,
               requests'[p].key = requests'[r].key
        PROVE  p = r
    BY <1>1, <2>1, <2>2, <2>4 DEF OneOwner, KeyOf
  <2>5. \A k \in Keys : keys'[k].status = "pending" => keys'[k].reservation = 0
    BY <1>3 DEF OneOwner
  <2> QED
    BY <2>3, <2>4, <2>5 DEF OneOwner, KeyOf
<1>7. ASSUME NEW answer, NEW k \in Keys, TrueFor(answer, k) PROVE TrueFor(answer, k)'
  <2> SUFFICES ASSUME answer \in Telling PROVE TrueFor(answer, k)'
    BY DEF TrueFor
  <2>1. /\ keys[k].status # "free" /\ keys'[k] = keys[k]
        /\ answer = "settled" => \E p \in Requests : requests[p].owner /\ KeyOf(p) = k
        /\ \A p \in Requests :
             requests[p].owner /\ KeyOf(p) = k => TrueOf(answer, requests[p], reservations[p].status)
    BY <1>3, <1>7 DEF TrueFor
  <2>2. x.owner => x.key # k
    BY <2>1
  <2>3. answer = "settled" => \E p \in Requests : requests'[p].owner /\ requests'[p].key = k
    BY <1>1, <2>1 DEF KeyOf
  <2>4. ASSUME NEW p \in Requests, requests'[p].owner, requests'[p].key = k
        PROVE  TrueOf(answer, requests'[p], reservations'[p].status)
    BY <1>1, <1>2, <2>1, <2>2, <2>4 DEF KeyOf
  <2> QED
    BY <2>1, <2>3, <2>4 DEF TrueFor, KeyOf
<1>8. Told'
  <2>1. \A k \in Keys : TrueFor(keys[k].response, k)'
    <3> SUFFICES ASSUME NEW k \in Keys PROVE TrueFor(keys[k].response, k)'
      OBVIOUS
    <3>1. CASE keys'[k] = keys[k]
      <4>1. TrueFor(keys[k].response, k)
        BY DEF Told
      <4>2. PICK answer : answer = keys[k].response
        OBVIOUS
      <4>3. TrueFor(answer, k)'
        BY <1>7, <4>1, <4>2
      <4> QED
        BY <3>1, <4>2, <4>3 DEF TrueFor
    <3>2. CASE keys'[k].response = "none"
      BY <3>2 DEF TrueFor, Telling
    <3> QED
      BY <1>3, <3>1, <3>2
  <2>2. \A p \in Requests : TrueFor(requests[p].answer, KeyOf(p))'
    <3> SUFFICES ASSUME NEW p \in Requests, requests'[p].answer \in Telling
                 PROVE  TrueFor(requests[p].answer, KeyOf(p))'
      BY DEF TrueFor
    <3>1. p # q /\ requests'[p] = requests[p]
      BY <1>1
    <3>2. KeyOf(p) \in Keys
      BY <3>1 DEF Placed, PlacedAt, Telling, KeyOf
    <3>3. PICK k \in Keys : k = requests[p].key
      BY <3>2 DEF KeyOf
    <3>4. PICK answer \in Telling : answer = requests[p].answer
      BY <3>1
    <3>5. TrueFor(answer, k)'
      BY <1>7, <3>3, <3>4 DEF Told, KeyOf
    <3> QED
      BY <3>1, <3>3, <3>4, <3>5 DEF TrueFor, KeyOf
  <2> QED
    BY <2>1, <2>2 DEF Told
<1> QED
  BY <1>4, <1>5, <1>6, <1>8

-----------------------------------------------------------------------------
(* What is true of an owner stays true of it from one state to the next. *)
Advances(q, x) ==
  \A answer : requests[q].owner /\ TrueOf(answer, requests[q], reservations[q].status)
                => TrueOf(answer, x, reservations'[q].status)

(* A request becomes x; what it did to its key and to its reservation is   *)
(* consistent with x, and so is the answer x has.                          *)
LEMMA StepKeeps ==
  ASSUME Sound, NEW q \in Requests, NEW x \in Request, ~ At(q, "idle"),
         requests' = [requests EXCEPT ![q] = x], x.key = KeyOf(q), x.owner = requests[q].owner,
         CA!TypeOK', left' \in [Requests -> 0..ReservationTTL], UNCHANGED <<keyLeft, sweep>>,
         \A p \in Requests : p # q => reservations'[p] = reservations[p],
         KeysKept(KeyOf(q)), PlacedAt(x), HoldsAt(x, reservations'[q].status),
         x.pc = "lookup" => At(q, "lookup"),
         Advances(q, x),
         \/ x.answer \in {requests[q].answer, keys[KeyOf(q)].response}
         \/ x.answer \notin Telling
         \/ x.owner /\ TrueOf(x.answer, x, reservations'[q].status),
         \/ keys'[KeyOf(q)] = keys[KeyOf(q)]
         \/ keys'[KeyOf(q)].response \notin Telling
         \/ x.owner /\ TrueOf(keys'[KeyOf(q)].response, x, reservations'[q].status)
  PROVE  Sound'
<1> USE DEF Sound
<1>1. /\ requests'[q] = x
      /\ \A p \in Requests : p # q => requests'[p] = requests[p]
      /\ requests' \in [Requests -> Request]
  BY DEF TypeOK, Request
<1>2. /\ \A p \in Requests : /\ requests'[p].owner = requests[p].owner
                             /\ requests'[p].key = requests[p].key
      /\ KeyOf(q) \in Keys
  BY <1>1 DEF KeyOf, Placed, PlacedAt, At
<1>3. \A k \in Keys : keys[k].status # "free" => keys'[k].status # "free"
  BY <1>2 DEF KeysKept
<1>4. TypeOK'
  BY <1>1 DEF TypeOK, KeysKept, Key, Request
<1>5. Placed' /\ Holding'
  BY <1>1 DEF Placed, Holding
<1>6. OneOwner'
  <2>1. \A p \in Requests : At(p, "lookup")' => At(p, "lookup")
    BY <1>1 DEF At
  <2>2. \A p \in Requests : requests[p].owner \/ At(p, "lookup") => requests[p].key \in Keys
    BY DEF Placed, PlacedAt, At
  <2>3. \A k \in Keys : keys'[k].status = "pending" => keys'[k].reservation = 0
    BY DEF OneOwner, KeysKept
  <2> QED
    BY <1>2, <1>3, <2>1, <2>2, <2>3 DEF OneOwner, KeyOf
<1>7. ASSUME NEW answer, NEW k \in Keys, TrueFor(answer, k) PROVE TrueFor(answer, k)'
  <2> SUFFICES ASSUME answer \in Telling PROVE TrueFor(answer, k)'
    BY DEF TrueFor
  <2>1. /\ keys[k].status # "free"
        /\ answer = "settled" => \E p \in Requests : requests[p].owner /\ requests[p].key = k
        /\ \A p \in Requests :
             requests[p].owner /\ requests[p].key = k
               => TrueOf(answer, requests[p], reservations[p].status)
    BY <1>7 DEF TrueFor, KeyOf
  <2>2. \A p \in Requests :
          requests[p].owner /\ requests[p].key = k
            => TrueOf(answer, requests'[p], reservations'[p].status)
    BY <1>1, <2>1 DEF Advances
  <2> QED
    BY <1>2, <1>3, <2>1, <2>2 DEF TrueFor, KeyOf
<1>8. ASSUME NEW answer, x.owner, TrueOf(answer, x, reservations'[q].status)
      PROVE  TrueFor(answer, KeyOf(q))'
  <2>1. requests'[q].owner /\ TrueOf(answer, requests'[q], reservations'[q].status)
    BY <1>1, <1>8
  <2>2. keys'[KeyOf(q)'].status # "free"
    BY <1>2, <1>3, <1>8 DEF OneOwner, KeyOf
  <2>3. \A p \in Requests : requests'[p].owner /\ KeyOf(p)' = KeyOf(q)' => p = q
    BY <1>2, <1>8 DEF OneOwner, KeyOf
  <2> QED
    BY <2>1, <2>2, <2>3 DEF TrueFor
<1>9. PICK key \in Keys : key = requests[q].key /\ key = requests'[q].key
  BY <1>2 DEF KeyOf
<1>10. \A k \in Keys : TrueFor(keys[k].response, k)'
  <2> SUFFICES ASSUME NEW k \in Keys PROVE TrueFor(keys[k].response, k)'
    OBVIOUS
  <2>1. PICK answer : answer = keys'[k].response
    OBVIOUS
  <2>2. CASE keys'[k] = keys[k]
    <3>1. TrueFor(answer, k)'
      BY <1>7, <2>1, <2>2 DEF Told
    <3> QED
      BY <2>1, <3>1 DEF TrueFor
  <2>3. CASE answer \notin Telling
    BY <2>1, <2>3 DEF TrueFor
  <2>4. CASE k = key /\ x.owner /\ TrueOf(answer, x, reservations'[q].status)
    <3>1. TrueFor(answer, KeyOf(q))'
      BY <1>8, <2>4
    <3> QED
      BY <1>9, <2>1, <2>4, <3>1 DEF TrueFor, KeyOf
  <2> QED
    BY <1>9, <2>1, <2>2, <2>3, <2>4 DEF KeysKept, KeyOf
<1>11. \A p \in Requests : TrueFor(requests[p].answer, KeyOf(p))'
  <2> SUFFICES ASSUME NEW p \in Requests, requests'[p].answer \in Telling
               PROVE  TrueFor(requests[p].answer, KeyOf(p))'
    BY DEF TrueFor
  <2>1. PICK answer \in Telling : answer = requests'[p].answer
    OBVIOUS
  <2>2. requests'[p].key \in Keys
    <3>1. PlacedAt(requests'[p])
      BY <1>5 DEF Placed
    <3> QED
      BY <3>1, <2>1 DEF PlacedAt, Telling
  <2>3. PICK k \in Keys : k = requests[p].key /\ k = requests'[p].key
    BY <1>2, <2>2
  <2>4. CASE answer \in {requests[p].answer, keys[k].response}
    <3>1. TrueFor(answer, k)
      BY <2>3, <2>4 DEF Told, KeyOf
    <3>2. TrueFor(answer, k)'
      BY <1>7, <3>1
    <3> QED
      BY <2>1, <2>3, <3>2 DEF TrueFor, KeyOf
  <2>5. CASE p = q /\ x.owner /\ TrueOf(answer, x, reservations'[q].status)
    <3>1. TrueFor(answer, KeyOf(q))'
      BY <1>8, <2>5
    <3> QED
      BY <2>1, <2>5, <3>1 DEF TrueFor, KeyOf
  <2> QED
    BY <1>1, <2>1, <2>3, <2>4, <2>5 DEF KeyOf
<1> QED
  BY <1>4, <1>5, <1>6, <1>10, <1>11 DEF Told

-----------------------------------------------------------------------------
(* Goto and Conclude change the place and the answer. *)
Becomes(q, x) ==
  /\ x \in Request /\ requests' = [requests EXCEPT ![q] = x]
  /\ x.key = KeyOf(q) /\ x.body = requests[q].body /\ x.owner = requests[q].owner

LEMMA GotoBecomes ==
  ASSUME TypeOK, NEW q \in Requests, NEW pc \in Places, Goto(q, pc)
  PROVE  \E x : /\ Becomes(q, x) /\ x.pc = pc
                /\ x.called = requests[q].called /\ x.answer = requests[q].answer
<1> DEFINE x == [requests[q] EXCEPT !.pc = pc]
<1>1. requests \in [Requests -> Request]
  BY DEF TypeOK, Request
<1>2. /\ x \in Request /\ x.pc = pc /\ x.called = requests[q].called
      /\ x.answer = requests[q].answer /\ x.key = KeyOf(q) /\ x.body = requests[q].body
      /\ x.owner = requests[q].owner
  BY <1>1 DEF Request, KeyOf
<1>3. requests' = [requests EXCEPT ![q] = x]
  BY <1>1 DEF Goto, Request
<1> QED
  BY <1>2, <1>3 DEF Becomes

LEMMA ConcludeBecomes ==
  ASSUME TypeOK, NEW q \in Requests, NEW pc \in Places, NEW answer \in Answers,
         Conclude(q, answer, pc)
  PROVE  \E x : /\ Becomes(q, x) /\ x.pc = pc
                /\ x.called = requests[q].called /\ x.answer = answer
<1> DEFINE x == [requests[q] EXCEPT !.pc = pc, !.answer = answer]
<1>1. requests \in [Requests -> Request]
  BY DEF TypeOK, Request
<1>2. /\ x \in Request /\ x.pc = pc /\ x.called = requests[q].called
      /\ x.answer = answer /\ x.key = KeyOf(q) /\ x.body = requests[q].body
      /\ x.owner = requests[q].owner
  BY <1>1 DEF Request, KeyOf
<1>3. requests' = [requests EXCEPT ![q] = x]
  BY <1>1 DEF Conclude, Request
<1> QED
  BY <1>2, <1>3 DEF Becomes

(* A request goes on and only its own record changes: nothing about a      *)
(* reservation or a key has to be said again.                              *)
LEMMA MoveKeeps ==
  ASSUME Sound, NEW q \in Requests, NEW x, Becomes(q, x), ~ At(q, "idle"),
         UNCHANGED <<credit, left, keys, keyLeft, sweep>>,
         PlacedAt(x), HoldsAt(x, reservations[q].status),
         x.pc # "lookup",
         requests[q].owner /\ requests[q].pc \in Past \cup {"note402"} => x.pc \in Past,
         \/ x.answer \in {requests[q].answer, keys[KeyOf(q)].response}
         \/ x.answer \notin Telling
         \/ x.owner /\ TrueOf(x.answer, x, reservations[q].status)
  PROVE  Sound'
<1>1. TypeOK
  BY DEF Sound
<1>2. reservations' = reservations /\ keys' = keys
  BY DEF credit
<1>3. CA!TypeOK' /\ left' \in [Requests -> 0..ReservationTTL]
  BY <1>1 DEF TypeOK, CA!TypeOK, credit
<1>4. KeysKept(KeyOf(q))
  BY <1>1, KeysUnchanged
<1>5. Advances(q, x)
  BY <1>2 DEF Advances, TrueOf
<1> QED
  BY <1>2, <1>3, <1>4, <1>5, StepKeeps DEF Becomes

LEMMA RequestFacts ==
  ASSUME Sound, NEW q \in Requests
  PROVE  /\ TypeOK /\ CA!TypeOK /\ requests[q] \in Request
         /\ PlacedAt(requests[q]) /\ HoldsAt(requests[q], reservations[q].status)
         /\ ~ At(q, "idle") => KeyOf(q) \in Keys /\ requests[q].body \in Tokens
         /\ TrueFor(requests[q].answer, KeyOf(q))
         /\ left \in [Requests -> 0..ReservationTTL]
BY DEF Sound, TypeOK, Placed, PlacedAt, Holding, Told, Request, At, KeyOf

LEMMA SubmitKeeps ==
  ASSUME Sound, NEW q \in Requests, NEW k \in Keys, NEW body \in Tokens, Submit(q, k, body)
  PROVE  Sound'
<1> DEFINE x == [NoRequest EXCEPT !.pc = "claim", !.key = k, !.body = body]
<1>1. x \in Request /\ PlacedAt(x) /\ HoldsAt(x, "none") /\ x.answer = "none" /\ ~ x.owner
      /\ x.pc = "claim"
  BY DEF NoRequest, Request, PlacedAt, HoldsAt, Places, Answers, Responses, Early, Late, Past
<1>2. ~ requests[q].owner
  BY RequestFacts DEF PlacedAt, Submit, At
<1>3. requests' = [requests EXCEPT ![q] = x] /\ UNCHANGED <<credit, left, keys, keyLeft, sweep>>
  BY DEF Submit
<1> HIDE DEF x
<1> QED
  BY <1>1, <1>2, <1>3, EntryKeeps DEF Telling

LEMMA ClaimKeeps == ASSUME Sound, NEW q \in Requests, Claim(q) PROVE Sound'
<1>1. /\ TypeOK /\ requests[q] \in Request /\ PlacedAt(requests[q]) /\ At(q, "claim")
      /\ KeyOf(q) \in Keys /\ requests[q].body \in Tokens
      /\ ~ requests[q].owner /\ requests[q].answer = "none" /\ ~ requests[q].called
      /\ UNCHANGED <<credit, left, sweep>>
  BY RequestFacts DEF Claim, At, PlacedAt
<1>2. requests \in [Requests -> Request]
  BY <1>1 DEF TypeOK, Request
<1> DEFINE claimed ==
             /\ keys[KeyOf(q)].status = "free"
             /\ keys' = [keys EXCEPT ![KeyOf(q)] = [NoKey EXCEPT !.status = "pending",
                                                                 !.body = requests[q].body]]
             /\ keyLeft' = [keyLeft EXCEPT ![KeyOf(q)] = KeyTTL]
<1>3. CASE claimed /\ requests' = [requests EXCEPT ![q].pc = "admit", ![q].owner = TRUE]
  <2> DEFINE x == [requests[q] EXCEPT !.pc = "admit", !.owner = TRUE]
  <2>1. /\ x \in Request /\ x.pc = "admit" /\ x.owner /\ x.key = KeyOf(q)
        /\ x.body = requests[q].body /\ x.answer = "none" /\ ~ x.called
    BY <1>1 DEF Request, Places, KeyOf
  <2>2. requests' = [requests EXCEPT ![q] = x]
    BY <1>2, <1>3 DEF Request
  <2> HIDE DEF x
  <2>3. PlacedAt(x) /\ HoldsAt(x, "none") /\ x.answer \notin Telling
    BY <1>1, <2>1 DEF PlacedAt, HoldsAt, Early, Late, Past, Telling
  <2> QED
    BY <1>1, <1>3, <2>1, <2>2, <2>3, EntryKeeps
<1>4. CASE /\ claimed \/ UNCHANGED <<keys, keyLeft>>
           /\ Conclude(q, "internalError", "respond")
  <2>1. "internalError" \in Answers /\ "respond" \in Places
    BY DEF Answers, Responses, ServerErrors, Places
  <2>2. PICK x : Becomes(q, x) /\ x.pc = "respond" /\ x.answer = "internalError"
                 /\ x.called = requests[q].called
    BY <1>1, <1>4, <2>1, ConcludeBecomes
  <2>3. PlacedAt(x) /\ HoldsAt(x, "none") /\ x.answer \notin Telling
    BY <1>1, <2>2 DEF Becomes, PlacedAt, HoldsAt, Early, Late, Past, Telling
  <2> QED
    BY <1>1, <1>4, <2>2, <2>3, EntryKeeps DEF Becomes
<1>5. CASE keys[KeyOf(q)].status # "free" /\ UNCHANGED <<keys, keyLeft>> /\ Goto(q, "lookup")
  <2>1. "lookup" \in Places
    BY DEF Places
  <2>2. PICK x : Becomes(q, x) /\ x.pc = "lookup" /\ x.answer = "none"
                 /\ x.called = requests[q].called
    BY <1>1, <1>5, <2>1, GotoBecomes
  <2>3. PlacedAt(x) /\ HoldsAt(x, "none") /\ x.answer \notin Telling
    BY <1>1, <2>2 DEF Becomes, PlacedAt, HoldsAt, Early, Late, Past, Telling
  <2> QED
    BY <1>1, <1>5, <2>2, <2>3, EntryKeeps DEF Becomes
<1> QED
  BY <1>3, <1>4, <1>5 DEF Claim, Claimable

LEMMA LookupKeeps == ASSUME Sound, NEW q \in Requests, Lookup(q) PROVE Sound'
<1>1. /\ TypeOK /\ requests[q] \in Request /\ PlacedAt(requests[q]) /\ At(q, "lookup")
      /\ HoldsAt(requests[q], reservations[q].status)
      /\ KeyOf(q) \in Keys /\ requests[q].body \in Tokens /\ ~ requests[q].owner
      /\ ~ At(q, "idle") /\ UNCHANGED <<credit, left, keys, keyLeft, sweep>>
  BY RequestFacts DEF Lookup, At, PlacedAt
<1>2. PICK answer \in {AnswerFor(KeyOf(q), requests[q].body), "internalError"} :
        Conclude(q, answer, "respond")
  BY DEF Lookup
<1>3. /\ answer \in Answers /\ answer # "none"
      /\ answer = keys[KeyOf(q)].response \/ answer \notin Telling
  <2>1. keys[KeyOf(q)].status # "free" /\ keys[KeyOf(q)].status \in {"free", "pending", "completed", "failed"}
    BY <1>1 DEF Sound, OneOwner, TypeOK
  <2>2. /\ keys[KeyOf(q)].response \in Responses \cup {"none"}
        /\ keys[KeyOf(q)].status \in {"completed", "failed"} <=> keys[KeyOf(q)].response # "none"
    BY <1>1 DEF TypeOK, KeyEnded
  <2>3. {"internalError", "conflict", "inProgress"} \cap Telling = {}
        /\ "internalError" \in Responses
    BY DEF Telling, Responses, ServerErrors
  <2> QED
    BY <2>1, <2>2, <2>3 DEF AnswerFor, Answers
<1>4. "respond" \in Places
  BY DEF Places
<1>5. PICK x : Becomes(q, x) /\ x.pc = "respond" /\ x.answer = answer
               /\ x.called = requests[q].called
  BY <1>1, <1>2, <1>3, <1>4, ConcludeBecomes
<1>6. PlacedAt(x) /\ HoldsAt(x, reservations[q].status)
  BY <1>1, <1>3, <1>5 DEF Becomes, PlacedAt, HoldsAt, Early, Late, Past
<1> QED
  BY <1>1, <1>3, <1>5, <1>6, MoveKeeps DEF Past

(* The places and answers of the handler are places and answers. *)
LEMMA Vocabulary ==
  /\ Early \cup Late \cup Past \subseteq Places
  /\ Responses \subseteq Answers /\ "none" \notin Responses
  /\ Ok \cup ClientErrors \cup ServerErrors \subseteq Responses
  /\ Telling \subseteq Responses
  /\ {"insufficient", "rejected", "modelError", "internalError", "inferenceFailed",
      "requestTimeout", "settled", "unsettled"} \subseteq Responses \cap Answers
  /\ {"internalError", "inferenceFailed", "requestTimeout", "none"} \cap Telling = {}
BY DEF Early, Late, Past, Places, Responses, Answers, Ok, ClientErrors, ServerErrors, Telling

LEMMA AdmitKeeps == ASSUME Sound, NEW q \in Requests, Admit(q) PROVE Sound'
<1>1. /\ TypeOK /\ requests[q] \in Request /\ PlacedAt(requests[q]) /\ At(q, "admit")
      /\ HoldsAt(requests[q], reservations[q].status) /\ ~ At(q, "idle")
      /\ UNCHANGED <<credit, left, keys, keyLeft, sweep>>
  BY RequestFacts DEF Admit, At
<1>2. /\ reservations[q].status = "none" /\ requests[q].owner /\ ~ requests[q].called
      /\ requests[q].pc \notin Past \cup {"note402"}
  BY <1>1 DEF HoldsAt, PlacedAt, At, Early, Past
<1>3. CASE Goto(q, "reserve")
  <2>1. PICK x : Becomes(q, x) /\ x.pc = "reserve" /\ x.answer = requests[q].answer
                 /\ x.called = requests[q].called
    BY <1>1, <1>3, GotoBecomes, Vocabulary DEF Early
  <2>2. PlacedAt(x) /\ HoldsAt(x, reservations[q].status)
    BY <1>1, <1>2, <2>1 DEF Becomes, PlacedAt, HoldsAt, At, KeyOf, Early, Late, Past
  <2> QED
    BY <1>1, <1>2, <2>1, <2>2, MoveKeeps
<1>4. ASSUME NEW answer \in {"rejected", "internalError"}, Conclude(q, answer, "respond")
      PROVE  Sound'
  <2>1. PICK x : Becomes(q, x) /\ x.pc = "respond" /\ x.answer = answer
                 /\ x.called = requests[q].called
    BY <1>1, <1>4, ConcludeBecomes, Vocabulary DEF Past
  <2>2. PlacedAt(x) /\ HoldsAt(x, reservations[q].status)
    BY <1>1, <1>2, <2>1 DEF Becomes, PlacedAt, HoldsAt, At, KeyOf, Early, Late, Past
  <2>3. x.owner /\ TrueOf(x.answer, x, reservations[q].status)
    BY <1>2, <2>1 DEF Becomes, TrueOf, Past
  <2> QED
    BY <1>1, <1>2, <2>1, <2>2, <2>3, MoveKeeps
<1> QED
  BY <1>3, <1>4 DEF Admit

LEMMA ReserveKeeps == ASSUME Sound, NEW q \in Requests, Reserve(q) PROVE Sound'
<1>1. /\ TypeOK /\ CA!TypeOK /\ requests[q] \in Request /\ PlacedAt(requests[q])
      /\ At(q, "reserve") /\ HoldsAt(requests[q], reservations[q].status) /\ ~ At(q, "idle")
      /\ KeyOf(q) \in Keys /\ requests[q].body \in Tokens
      /\ left \in [Requests -> 0..ReservationTTL] /\ UNCHANGED <<keys, keyLeft, sweep>>
  BY RequestFacts DEF Reserve, At
<1>2. /\ reservations[q].status = "none" /\ requests[q].owner /\ ~ requests[q].called
      /\ requests[q].pc \notin Past \cup {"note402"}
  BY <1>1 DEF HoldsAt, PlacedAt, At, Early, Past
<1>3. ASSUME CA!Reserve(q, requests[q].body), left' = [left EXCEPT ![q] = ReservationTTL],
             Goto(q, "decrypt") \/ Conclude(q, "internalError", "respond")
      PROVE  Sound'
  <2>1. PICK x : /\ Becomes(q, x) /\ x.called = requests[q].called
                 /\ \/ x.pc = "decrypt" /\ x.answer = requests[q].answer
                    \/ x.pc = "respond" /\ x.answer = "internalError"
    <3>1. CASE Goto(q, "decrypt")
      BY <1>1, <3>1, GotoBecomes, Vocabulary DEF Late
    <3>2. CASE Conclude(q, "internalError", "respond")
      <4>1. "internalError" \in Answers /\ "respond" \in Places
        BY Vocabulary DEF Past
      <4>2. PICK x : Becomes(q, x) /\ x.called = requests[q].called
                     /\ x.pc = "respond" /\ x.answer = "internalError"
        BY <1>1, <3>2, <4>1, ConcludeBecomes
      <4> QED
        BY <4>2
    <3> QED
      BY <1>3, <3>1, <3>2
  <2>2. CA!TypeOK' /\ RowBecomes(q, "reserved")
    BY <1>1, <1>3, ReserveRow
  <2>3. left' \in [Requests -> 0..ReservationTTL]
    BY <1>1, <1>3, BoundsAssumption
  <2>4. KeysKept(KeyOf(q)) /\ keys' = keys
    BY <1>1, KeysUnchanged
  <2>5. PlacedAt(x) /\ HoldsAt(x, "reserved")
    BY <1>1, <1>2, <2>1 DEF Becomes, PlacedAt, HoldsAt, At, KeyOf, Early, Late, Past
  <2>6. Advances(q, x)
    BY <1>2 DEF Advances, TrueOf
  <2>7. x.answer = requests[q].answer \/ x.answer \notin Telling
    BY <2>1, Vocabulary
  <2> QED
    BY <1>1, <2>1, <2>2, <2>3, <2>4, <2>5, <2>6, <2>7, StepKeeps DEF Becomes, RowBecomes
<1>4. ASSUME UNCHANGED <<credit, left>>,
             \/ Conclude(q, "insufficient", "note402")
             \/ Conclude(q, "internalError", "respond")
      PROVE  Sound'
  <2>1. PICK x : /\ Becomes(q, x) /\ x.called = requests[q].called
                 /\ \/ x.pc = "note402" /\ x.answer = "insufficient"
                    \/ x.pc = "respond" /\ x.answer = "internalError"
    <3>1. CASE Conclude(q, "insufficient", "note402")
      BY <1>1, <3>1, ConcludeBecomes, Vocabulary DEF Early
    <3>2. CASE Conclude(q, "internalError", "respond")
      BY <1>1, <3>2, ConcludeBecomes, Vocabulary DEF Past
    <3> QED
      BY <1>4, <3>1, <3>2
  <2>2. PlacedAt(x) /\ HoldsAt(x, reservations[q].status)
    BY <1>1, <1>2, <2>1 DEF Becomes, PlacedAt, HoldsAt, At, KeyOf, Early, Late, Past
  <2>3. x.owner /\ TrueOf(x.answer, x, reservations[q].status)
    BY <1>2, <2>1 DEF Becomes, TrueOf, Past
  <2> QED
    BY <1>1, <1>2, <1>4, <2>1, <2>2, <2>3, MoveKeeps
<1> QED
  BY <1>3, <1>4 DEF Reserve

LEMMA Note402Keeps == ASSUME Sound, NEW q \in Requests, Note402(q) PROVE Sound'
<1>1. /\ TypeOK /\ CA!TypeOK /\ requests[q] \in Request /\ PlacedAt(requests[q])
      /\ At(q, "note402") /\ HoldsAt(requests[q], reservations[q].status) /\ ~ At(q, "idle")
      /\ KeyOf(q) \in Keys /\ UNCHANGED <<credit, left, keyLeft, sweep>>
      /\ left \in [Requests -> 0..ReservationTTL]
  BY RequestFacts DEF Note402, At
<1>2. /\ reservations[q].status = "none" /\ requests[q].owner /\ ~ requests[q].called
      /\ requests[q].answer = "insufficient" /\ reservations' = reservations
  BY <1>1 DEF HoldsAt, PlacedAt, At, Early, Past, credit
<1>3. PICK x : /\ Becomes(q, x) /\ x.called = requests[q].called /\ x.pc = "respond"
               /\ x.answer \in {"insufficient", "internalError"}
  <2>1. CASE Goto(q, "respond")
    BY <1>1, <1>2, <2>1, GotoBecomes, Vocabulary DEF Past
  <2>2. ASSUME NEW answer \in {"insufficient", "internalError"}, Conclude(q, answer, "respond")
        PROVE  \E x : /\ Becomes(q, x) /\ x.called = requests[q].called /\ x.pc = "respond"
                      /\ x.answer \in {"insufficient", "internalError"}
    <3>1. answer \in Answers /\ "respond" \in Places
      BY Vocabulary DEF Past
    <3>2. PICK x : Becomes(q, x) /\ x.called = requests[q].called
                   /\ x.pc = "respond" /\ x.answer = answer
      BY <1>1, <2>2, <3>1, ConcludeBecomes
    <3> QED
      BY <3>2
  <2> QED
    BY <2>1, <2>2 DEF Note402
<1>4. PlacedAt(x) /\ HoldsAt(x, reservations'[q].status)
  BY <1>1, <1>2, <1>3 DEF Becomes, PlacedAt, HoldsAt, At, KeyOf, Early, Late, Past
<1>5. /\ Advances(q, x) /\ x.owner
      /\ \A answer \in {"insufficient", "internalError"} :
           TrueOf(answer, x, reservations'[q].status)
  BY <1>2, <1>3 DEF Becomes, Advances, TrueOf, Past
<1>6. /\ KeysKept(KeyOf(q))
      /\ keys'[KeyOf(q)] = keys[KeyOf(q)] \/ keys'[KeyOf(q)].response = "insufficient"
  <2>1. CASE Finish(KeyOf(q), "completed", "insufficient", 0)
    BY <1>1, <2>1, FinishKey, Vocabulary
  <2>2. CASE UNCHANGED keys
    BY <1>1, <2>2, KeysUnchanged
  <2> QED
    BY <2>1, <2>2 DEF Note402
<1>7. CA!TypeOK' /\ left' = left
  BY <1>1 DEF credit, CA!TypeOK
<1> QED
  BY <1>1, <1>2, <1>3, <1>4, <1>5, <1>6, <1>7, StepKeeps DEF Becomes

LEMMA CallModelKeeps == ASSUME Sound, NEW q \in Requests, CallModel(q) PROVE Sound'
<1>1. /\ TypeOK /\ requests[q] \in Request /\ PlacedAt(requests[q])
      /\ At(q, "decrypt") /\ HoldsAt(requests[q], reservations[q].status) /\ ~ At(q, "idle")
      /\ UNCHANGED <<credit, left, keys, keyLeft, sweep>>
  BY RequestFacts DEF CallModel, At
<1>2. /\ reservations[q].status \notin {"none", "settled"} /\ requests[q].owner
      /\ requests[q].pc \notin Past \cup {"note402"}
  BY <1>1 DEF HoldsAt, PlacedAt, At, Late, Past
<1>3. PICK x : /\ Becomes(q, x)
               /\ \/ x.pc = "calling" /\ x.answer = requests[q].answer
                  \/ x.pc = "release" /\ x.answer = "internalError"
  <2>1. CASE requests' = [requests EXCEPT ![q].pc = "calling", ![q].called = TRUE]
    <3> DEFINE x == [requests[q] EXCEPT !.pc = "calling", !.called = TRUE]
    <3>1. requests \in [Requests -> Request]
      BY <1>1 DEF TypeOK, Request
    <3>2. /\ x \in Request /\ x.pc = "calling" /\ x.answer = requests[q].answer
          /\ x.key = KeyOf(q) /\ x.body = requests[q].body /\ x.owner = requests[q].owner
      BY <1>1 DEF Request, Places, KeyOf
    <3>3. requests' = [requests EXCEPT ![q] = x]
      BY <2>1, <3>1 DEF Request
    <3> QED
      BY <3>2, <3>3 DEF Becomes
  <2>2. CASE Conclude(q, "internalError", "release")
    BY <1>1, <2>2, ConcludeBecomes, Vocabulary DEF Past
  <2> QED
    BY <2>1, <2>2 DEF CallModel
<1>4. PlacedAt(x) /\ HoldsAt(x, reservations[q].status)
  BY <1>1, <1>2, <1>3 DEF Becomes, PlacedAt, HoldsAt, At, KeyOf, Early, Late, Past
<1> QED
  BY <1>1, <1>2, <1>3, <1>4, MoveKeeps, Vocabulary

LEMMA ModelReturnsKeeps == ASSUME Sound, NEW q \in Requests, ModelReturns(q) PROVE Sound'
<1>1. /\ TypeOK /\ requests[q] \in Request /\ PlacedAt(requests[q])
      /\ At(q, "calling") /\ HoldsAt(requests[q], reservations[q].status) /\ ~ At(q, "idle")
      /\ UNCHANGED <<credit, left, keys, keyLeft, sweep>>
  BY RequestFacts DEF ModelReturns, At
<1>2. /\ reservations[q].status \notin {"none", "settled"} /\ requests[q].owner
      /\ requests[q].pc \notin Past \cup {"note402"}
  BY <1>1 DEF HoldsAt, PlacedAt, At, Late, Past
<1>3. PICK x : /\ Becomes(q, x) /\ x.called = requests[q].called
               /\ \/ x.pc = "settle" /\ x.answer = requests[q].answer
                  \/ x.pc = "release" /\ x.answer \in {"modelError", "internalError"}
  <2>1. CASE Goto(q, "settle")
    BY <1>1, <2>1, GotoBecomes, Vocabulary DEF Late
  <2>2. ASSUME NEW answer \in {"modelError", "internalError"}, Conclude(q, answer, "release")
        PROVE  \E x : /\ Becomes(q, x) /\ x.called = requests[q].called
                      /\ x.pc = "release" /\ x.answer = answer
    BY <1>1, <2>2, ConcludeBecomes, Vocabulary DEF Past
  <2> QED
    BY <2>1, <2>2 DEF ModelReturns
<1>4. PlacedAt(x) /\ HoldsAt(x, reservations[q].status)
  BY <1>1, <1>2, <1>3 DEF Becomes, PlacedAt, HoldsAt, At, KeyOf, Early, Late, Past
<1>5. x.pc = "release" => x.owner /\ TrueOf(x.answer, x, reservations[q].status)
  BY <1>2, <1>3 DEF Becomes, TrueOf, Past
<1> QED
  BY <1>1, <1>2, <1>3, <1>4, <1>5, MoveKeeps

LEMMA SettleKeeps == ASSUME Sound, NEW q \in Requests, Settle(q) PROVE Sound'
<1>1. /\ TypeOK /\ CA!TypeOK /\ requests[q] \in Request /\ PlacedAt(requests[q])
      /\ At(q, "settle") /\ HoldsAt(requests[q], reservations[q].status) /\ ~ At(q, "idle")
      /\ KeyOf(q) \in Keys /\ UNCHANGED <<left, keyLeft, sweep>>
      /\ left \in [Requests -> 0..ReservationTTL]
  BY RequestFacts DEF Settle, At
<1>2. /\ reservations[q].status \notin {"none", "settled"} /\ requests[q].owner
      /\ requests[q].pc \notin Past \cup {"note402"}
  BY <1>1 DEF HoldsAt, PlacedAt, At, Late, Past
<1>3. ASSUME \/ \E usage \in Tokens : CA!Settle(q, usage)
             \/ reservations[q].status # "reserved" /\ UNCHANGED credit,
             Finish(KeyOf(q), "completed", SettledOr(q), q),
             Conclude(q, SettledOr(q), "respond") \/ Conclude(q, "internalError", "release")
      PROVE  Sound'
  <2>1. PICK a \in {"settled", "unsettled"} : a = SettledOr(q)
    BY DEF SettledOr
  <2>2. /\ CA!TypeOK' /\ \A p \in Requests : p # q => reservations'[p] = reservations[p]
        /\ reservations'[q].status # "none"
        /\ a = "settled" <=> reservations'[q].status = "settled"
    <3>1. ASSUME NEW usage \in Tokens, CA!Settle(q, usage)
          PROVE  /\ CA!TypeOK' /\ RowBecomes(q, "settled") /\ a = "settled"
      BY <1>1, <2>1, <3>1, SettleRow DEF SettledOr
    <3>2. CASE reservations[q].status # "reserved" /\ UNCHANGED credit
      BY <1>1, <1>2, <2>1, <3>2 DEF credit, CA!TypeOK, SettledOr
    <3> QED
      BY <1>3, <3>1, <3>2 DEF RowBecomes
  <2>3. PICK x : /\ Becomes(q, x) /\ x.called = requests[q].called
                 /\ \/ x.pc = "respond" /\ x.answer = a
                    \/ x.pc = "release" /\ x.answer = "internalError"
    <3>1. CASE Conclude(q, a, "respond")
      BY <1>1, <3>1, ConcludeBecomes, Vocabulary DEF Past
    <3>2. CASE Conclude(q, "internalError", "release")
      BY <1>1, <3>2, ConcludeBecomes, Vocabulary DEF Past
    <3> QED
      BY <1>3, <2>1, <3>1, <3>2
  <2>4. /\ KeysKept(KeyOf(q))
        /\ keys'[KeyOf(q)] = keys[KeyOf(q)] \/ keys'[KeyOf(q)].response = a
    BY <1>1, <1>3, <2>1, FinishKey, Vocabulary
  <2>5. PlacedAt(x) /\ HoldsAt(x, reservations'[q].status)
    BY <1>1, <1>2, <2>1, <2>2, <2>3 DEF Becomes, PlacedAt, HoldsAt, At, KeyOf, Early, Late, Past
  <2>6. /\ Advances(q, x) /\ x.owner
        /\ TrueOf(a, x, reservations'[q].status)
    BY <1>2, <2>1, <2>2, <2>3 DEF Becomes, Advances, TrueOf, Past
  <2>7. x.answer = a \/ x.answer \notin Telling
    BY <2>3, Vocabulary
  <2> QED
    BY <1>1, <2>2, <2>3, <2>4, <2>5, <2>6, <2>7, StepKeeps DEF Becomes
<1>4. ASSUME Conclude(q, "internalError", "release"), UNCHANGED <<credit, keys>>
      PROVE  Sound'
  <2>1. PICK x : Becomes(q, x) /\ x.called = requests[q].called
                 /\ x.pc = "release" /\ x.answer = "internalError"
    BY <1>1, <1>4, ConcludeBecomes, Vocabulary DEF Past
  <2>2. PlacedAt(x) /\ HoldsAt(x, reservations[q].status)
    BY <1>1, <1>2, <2>1 DEF Becomes, PlacedAt, HoldsAt, At, KeyOf, Early, Late, Past
  <2> QED
    BY <1>1, <1>2, <1>4, <2>1, <2>2, MoveKeeps, Vocabulary
<1> QED
  BY <1>3, <1>4 DEF Settle

LEMMA ReleaseKeeps == ASSUME Sound, NEW q \in Requests, Release(q) PROVE Sound'
<1>1. /\ TypeOK /\ CA!TypeOK /\ requests[q] \in Request /\ PlacedAt(requests[q])
      /\ At(q, "release") /\ HoldsAt(requests[q], reservations[q].status) /\ ~ At(q, "idle")
      /\ KeyOf(q) \in Keys /\ UNCHANGED <<left, keyLeft, sweep>>
      /\ left \in [Requests -> 0..ReservationTTL] /\ Goto(q, "respond")
      /\ TrueFor(requests[q].answer, KeyOf(q))
  BY RequestFacts DEF Release, At
<1>2. /\ reservations[q].status # "none" /\ requests[q].owner
      /\ requests[q].pc \in Past /\ requests[q].answer \in {"modelError", "internalError"}
  BY <1>1 DEF HoldsAt, PlacedAt, At, Past
<1>3. PICK x : Becomes(q, x) /\ x.called = requests[q].called
               /\ x.pc = "respond" /\ x.answer = requests[q].answer
  BY <1>1, GotoBecomes, Vocabulary DEF Past
<1>4. /\ CA!TypeOK' /\ \A p \in Requests : p # q => reservations'[p] = reservations[p]
      /\ \/ reservations'[q].status = reservations[q].status
         \/ reservations'[q].status = "released" /\ reservations[q].status = "reserved"
  <2>1. CASE CA!Release(q)
    BY <1>1, <2>1, ReleaseRow DEF RowBecomes
  <2>2. CASE UNCHANGED credit
    BY <1>1, <2>2 DEF credit, CA!TypeOK
  <2> QED
    BY <2>1, <2>2 DEF Release
<1>5. PICK a \in {"modelError", "inferenceFailed"} : a = Stored(requests[q].answer)
  BY DEF Stored
<1>6. /\ KeysKept(KeyOf(q))
      /\ keys'[KeyOf(q)] = keys[KeyOf(q)] \/ keys'[KeyOf(q)].response = a
  <2>1. CASE Finish(KeyOf(q), "failed", a, 0)
    BY <1>1, <2>1, FinishKey, Vocabulary
  <2>2. CASE UNCHANGED keys
    BY <1>1, <2>2, KeysUnchanged
  <2> QED
    BY <1>5, <2>1, <2>2 DEF Release
<1>7. PlacedAt(x) /\ HoldsAt(x, reservations'[q].status)
  BY <1>1, <1>2, <1>3, <1>4 DEF Becomes, PlacedAt, HoldsAt, At, KeyOf, Early, Late, Past
<1>8. Advances(q, x) /\ x.owner
  BY <1>2, <1>3, <1>4 DEF Becomes, Advances, TrueOf, Past
<1>9. a \notin Telling \/ TrueOf(a, x, reservations'[q].status)
  <2>1. CASE requests[q].answer = "modelError"
    <3>1. TrueOf("modelError", requests[q], reservations[q].status)
      BY <1>1, <1>2, <2>1 DEF TrueFor, Telling
    <3> QED
      BY <1>2, <1>5, <1>8, <2>1, <3>1 DEF Advances, Stored
  <2>2. CASE requests[q].answer # "modelError"
    BY <1>5, <2>2, Vocabulary DEF Stored
  <2> QED
    BY <2>1, <2>2
<1> QED
  BY <1>1, <1>3, <1>4, <1>6, <1>7, <1>8, <1>9, StepKeeps DEF Becomes

LEMMA RespondKeeps == ASSUME Sound, NEW q \in Requests, Respond(q) PROVE Sound'
<1>1. /\ TypeOK /\ CA!TypeOK /\ requests[q] \in Request /\ PlacedAt(requests[q])
      /\ At(q, "respond") /\ HoldsAt(requests[q], reservations[q].status) /\ ~ At(q, "idle")
      /\ KeyOf(q) \in Keys /\ UNCHANGED <<credit, left, keyLeft, sweep>>
      /\ left \in [Requests -> 0..ReservationTTL]
      /\ TrueFor(requests[q].answer, KeyOf(q))
  BY RequestFacts DEF Respond, At
<1>2. requests[q].pc \in Past /\ requests[q].answer # "none" /\ requests[q].answer \in Answers
  BY <1>1 DEF PlacedAt, At, Past, Request
<1>3. PICK x : /\ Becomes(q, x) /\ x.called = requests[q].called
               /\ x.pc \in {"answered", "dead"} /\ x.answer = requests[q].answer
  <2>1. CASE Goto(q, "answered")
    BY <1>1, <2>1, GotoBecomes, Vocabulary DEF Past
  <2>2. CASE Goto(q, "dead")
    BY <1>1, <2>2, GotoBecomes, Vocabulary DEF Past
  <2> QED
    BY <2>1, <2>2 DEF Respond
<1>4. /\ KeysKept(KeyOf(q))
      /\ \/ keys'[KeyOf(q)] = keys[KeyOf(q)]
         \/ requests[q].owner /\ keys'[KeyOf(q)].response = requests[q].answer
  <2>1. CASE keys' # keys /\ requests[q].owner
    <3>1. PICK status \in {"completed", "failed"}, reservation \in Requests \cup {0} :
            Finish(KeyOf(q), status, requests[q].answer, reservation)
      <4>1. CASE Finish(KeyOf(q), "failed", requests[q].answer, 0)
        BY <4>1
      <4>2. CASE Finish(KeyOf(q), "completed", requests[q].answer, q)
        BY <4>2
      <4>3. CASE Finish(KeyOf(q), "completed", requests[q].answer, 0)
        BY <4>3
      <4> QED
        BY <2>1, <4>1, <4>2, <4>3 DEF Respond
    <3>2. requests[q].answer \in Responses
      BY <1>1, <1>2, <2>1 DEF PlacedAt, Answers
    <3> QED
      BY <1>1, <2>1, <3>1, <3>2, FinishKey
  <2>2. CASE UNCHANGED keys
    BY <1>1, <2>2, KeysUnchanged
  <2> QED
    BY <2>1, <2>2 DEF Respond
<1>5. reservations' = reservations /\ CA!TypeOK' /\ left' = left
  BY <1>1 DEF credit, CA!TypeOK
<1>6. PlacedAt(x) /\ HoldsAt(x, reservations'[q].status)
  BY <1>1, <1>3, <1>5 DEF Becomes, PlacedAt, HoldsAt, At, KeyOf, Early, Late, Past
<1>7. Advances(q, x)
  BY <1>2, <1>3, <1>5 DEF Advances, TrueOf, Past
<1>8. requests[q].owner /\ x.answer \in Telling => x.owner /\ TrueOf(x.answer, x, reservations'[q].status)
  BY <1>1, <1>3, <1>7 DEF TrueFor, Advances, Becomes
<1> QED
  BY <1>1, <1>3, <1>4, <1>5, <1>6, <1>7, <1>8, StepKeeps DEF Becomes

LEMMA DieKeeps == ASSUME Sound, NEW q \in Requests, Die(q) PROVE Sound'
<1>1. /\ TypeOK /\ requests[q] \in Request /\ PlacedAt(requests[q])
      /\ HoldsAt(requests[q], reservations[q].status) /\ ~ At(q, "idle")
      /\ UNCHANGED <<credit, left, keys, keyLeft, sweep>> /\ Goto(q, "dead")
  BY RequestFacts DEF Die, At
<1>2. PICK x : Becomes(q, x) /\ x.pc = "dead" /\ x.answer = requests[q].answer
               /\ x.called = requests[q].called
  BY <1>1, GotoBecomes, Vocabulary DEF Past
<1>3. PlacedAt(x) /\ HoldsAt(x, reservations[q].status)
  BY <1>1, <1>2 DEF Becomes, PlacedAt, HoldsAt, At, KeyOf, Early, Late, Past
<1> QED
  BY <1>1, <1>2, <1>3, MoveKeeps DEF Past

-----------------------------------------------------------------------------
(* The sweeper touches no handler: it expires or releases a reservation    *)
(* that is held, or ends a key that waits.                                 *)
LEMMA SweepKeeps ==
  ASSUME Sound, UNCHANGED <<requests, left, keyLeft>>, CA!TypeOK',
         \A q \in Requests :
           \/ reservations'[q].status = reservations[q].status
           \/ reservations[q].status = "reserved" /\ reservations'[q].status \in {"released", "expired"},
         NEW k \in Keys, KeysKept(k),
         keys'[k] = keys[k] \/ keys'[k].response \notin Telling,
         sweep' \in Sweeps
  PROVE  Sound'
<1> USE DEF Sound
<1>1. TypeOK'
  BY DEF TypeOK, KeysKept, Key, Sweeps
<1>2. Placed'
  BY DEF Placed
<1>3. Holding'
  BY DEF Holding, HoldsAt
<1>4. \A j \in Keys : keys[j].status # "free" => keys'[j].status # "free"
  BY DEF KeysKept
<1>5. OneOwner'
  <2>1. \A p \in Requests : requests[p].owner \/ At(p, "lookup") => requests[p].key \in Keys
    BY DEF Placed, PlacedAt, At
  <2>2. \A j \in Keys : keys'[j].status = "pending" => keys'[j].reservation = 0
    BY DEF OneOwner, KeysKept
  <2> QED
    BY <1>4, <2>1, <2>2 DEF OneOwner, KeyOf, At
<1>6. ASSUME NEW answer, NEW j \in Keys, TrueFor(answer, j) PROVE TrueFor(answer, j)'
  <2>1. \A p \in Requests : TrueOf(answer, requests[p], reservations[p].status)
                              => TrueOf(answer, requests[p], reservations'[p].status)
    BY DEF TrueOf
  <2> QED
    BY <1>4, <1>6, <2>1 DEF TrueFor, KeyOf
<1>7. \A j \in Keys : TrueFor(keys[j].response, j)'
  <2> SUFFICES ASSUME NEW j \in Keys PROVE TrueFor(keys[j].response, j)'
    OBVIOUS
  <2>1. PICK answer : answer = keys'[j].response
    OBVIOUS
  <2>2. CASE answer \notin Telling
    BY <2>1, <2>2 DEF TrueFor
  <2>3. CASE keys'[j] = keys[j]
    <3>1. TrueFor(answer, j)'
      BY <1>6, <2>1, <2>3 DEF Told
    <3> QED
      BY <2>1, <3>1 DEF TrueFor
  <2> QED
    BY <2>1, <2>2, <2>3 DEF KeysKept
<1>8. \A p \in Requests : TrueFor(requests[p].answer, KeyOf(p))'
  <2> SUFFICES ASSUME NEW p \in Requests, requests[p].answer \in Telling
               PROVE  TrueFor(requests[p].answer, KeyOf(p))'
    BY DEF TrueFor
  <2>1. PICK j \in Keys : j = requests[p].key
    BY DEF Placed, PlacedAt, Telling
  <2>2. PICK answer : answer = requests[p].answer
    OBVIOUS
  <2>3. TrueFor(answer, j)'
    BY <1>6, <2>1, <2>2 DEF Told, KeyOf
  <2> QED
    BY <2>1, <2>2, <2>3 DEF TrueFor, KeyOf
<1> QED
  BY <1>1, <1>2, <1>3, <1>5, <1>7, <1>8 DEF Told

LEMMA SweepTyped ==
  ASSUME TypeOK, Tick \/ Sweeper
  PROVE  sweep' \in Sweeps
<1>1. sweep \in Sweeps /\ NoSweep \in Sweeps /\ MaxSweepStall \in Nat
  BY BoundsAssumption DEF TypeOK, Sweeps, NoSweep
<1>2. CASE Tick
  <2>1. CASE sweep.phase = "clock" /\ sweep' = [sweep EXCEPT !.waited = @ + 1]
    <3>1. sweep.waited + 1 \in 0..MaxSweepStall
      BY <1>1, <1>2, <2>1 DEF Tick, Sweeps
    <3> QED
      BY <1>1, <2>1, <3>1 DEF Sweeps
  <2> QED
    BY <1>1, <1>2, <2>1 DEF Tick
<1>3. CASE SweepStart \/ SweepReservationsEnd \/ SweepListKeys \/ SweepEnd \/ SweepAborts
  BY <1>1, <1>3 DEF SweepStart, SweepReservationsEnd, SweepListKeys, SweepEnd, SweepAborts,
                    Sweeps, NoSweep
<1>4. CASE SweepReadClock
  BY <1>1, <1>4 DEF SweepReadClock, Sweeps, NoSweep
<1>5. ASSUME NEW r \in Requests, SweepReservation(r) PROVE sweep' \in Sweeps
  BY <1>1, <1>5 DEF SweepReservation
<1>6. ASSUME NEW k \in Keys, SweepKey(k) PROVE sweep' \in Sweeps
  BY <1>1, <1>6 DEF SweepKey, Sweeps
<1> QED
  BY <1>2, <1>3, <1>4, <1>5, <1>6 DEF Sweeper

LEMMA SweepReservationKeeps ==
  ASSUME Sound, NEW r \in Requests, SweepReservation(r) PROVE Sound'
<1>1. /\ TypeOK /\ CA!TypeOK /\ CA!Expire(r)
      /\ UNCHANGED <<left, keys, keyLeft, requests, sweep>>
  BY DEF Sound, TypeOK, SweepReservation
<1>2. CA!TypeOK' /\ RowBecomes(r, "expired") /\ reservations[r].status = "reserved"
  BY <1>1, ExpireRow
<1>4. CASE Keys = {}
  <2>1. \A q \in Requests : requests[q].pc = "idle"
    BY <1>4 DEF Sound, Placed, PlacedAt
  <2>2. FALSE
    BY <1>2, <2>1, RequestFacts DEF HoldsAt, PlacedAt
  <2> QED
    BY <2>2
<1>5. CASE Keys # {}
  <2>1. PICK k : k \in Keys
    BY <1>5
  <2>2. KeysKept(k)
    BY <1>1, KeysUnchanged
  <2>3. sweep' \in Sweeps
    BY <1>1, SweepTyped DEF Sweeper
  <2> QED
    BY <1>1, <1>2, <2>1, <2>2, <2>3, SweepKeeps DEF RowBecomes
<1> QED
  BY <1>4, <1>5

LEMMA SweepKeyKeeps ==
  ASSUME Sound, NEW k \in Keys, SweepKey(k) PROVE Sound'
<1>1. /\ TypeOK /\ CA!TypeOK /\ UNCHANGED <<left, keyLeft, requests>>
      /\ Finish(k, "failed", "requestTimeout", 0)
  BY DEF Sound, TypeOK, SweepKey
<1>2. UNCHANGED credit
  BY DEF Sound, OneOwner, SweepKey, Unfinished
<1>3. CA!TypeOK' /\ reservations' = reservations
  BY <1>1, <1>2 DEF credit, CA!TypeOK
<1>4. /\ KeysKept(k)
      /\ keys'[k] = keys[k] \/ keys'[k].response = "requestTimeout"
  BY <1>1, FinishKey, Vocabulary
<1>5. sweep' \in Sweeps
  BY SweepTyped DEF Sound, Sweeper
<1> QED
  BY <1>1, <1>3, <1>4, <1>5, SweepKeeps, Vocabulary

(* Steps that leave the credits, the keys and the handlers alone. *)
LEMMA ClockKeeps ==
  ASSUME Sound, UNCHANGED <<credit, keys, requests>>,
         left' \in [Requests -> 0..ReservationTTL], keyLeft' \in [Keys -> 0..KeyTTL],
         sweep' \in Sweeps
  PROVE  Sound'
<1> USE DEF Sound
<1>1. TypeOK'
  BY DEF TypeOK, credit, CA!TypeOK, KeyEnded, Sweeps
<1>2. reservations' = reservations
  BY DEF credit
<1>3. Placed' /\ Holding' /\ OneOwner'
  BY <1>2 DEF Placed, Holding, OneOwner, At, KeyOf
<1>4. Told'
  BY <1>2 DEF Told, TrueFor, KeyOf
<1> QED
  BY <1>1, <1>3, <1>4

LEMMA TickTyped ==
  ASSUME TypeOK, Tick
  PROVE  left' \in [Requests -> 0..ReservationTTL] /\ keyLeft' \in [Keys -> 0..KeyTTL]
<1>1. /\ \A q \in Requests : left[q] \in 0..ReservationTTL
      /\ \A k \in Keys : keyLeft[k] \in 0..KeyTTL
      /\ ReservationTTL \in Nat /\ KeyTTL \in Nat
  BY BoundsAssumption DEF TypeOK
<1>2. \A q \in Requests : (IF left[q] > 0 THEN left[q] - 1 ELSE 0) \in 0..ReservationTTL
  BY <1>1
<1>3. \A k \in Keys : (IF keyLeft[k] > 0 THEN keyLeft[k] - 1 ELSE 0) \in 0..KeyTTL
  BY <1>1
<1> QED
  BY <1>2, <1>3 DEF Tick

LEMMA NextSound == ASSUME Sound, [Next]_vars PROVE Sound'
<1>1. ASSUME NEW q \in Requests, Handler(q) PROVE Sound'
  BY <1>1, SubmitKeeps, ClaimKeeps, LookupKeeps, AdmitKeeps, ReserveKeeps, Note402Keeps,
     CallModelKeeps, ModelReturnsKeeps, SettleKeeps, ReleaseKeeps, RespondKeeps, DieKeeps
     DEF Handler
<1>2. sweep \in Sweeps
      /\ left \in [Requests -> 0..ReservationTTL] /\ keyLeft \in [Keys -> 0..KeyTTL]
  BY DEF Sound, TypeOK, Sweeps
<1>3. CASE SweepStart \/ SweepReservationsEnd \/ SweepReadClock \/ SweepListKeys
           \/ SweepEnd \/ SweepAborts
  <2>1. sweep' \in Sweeps
    BY <1>3, SweepTyped DEF Sweeper, Sound
  <2> QED
    BY <1>2, <1>3, <2>1, ClockKeeps DEF SweepStart, SweepReservationsEnd, SweepReadClock,
                                       SweepListKeys, SweepEnd, SweepAborts
<1>4. ASSUME NEW r \in Requests, SweepReservation(r) PROVE Sound'
  BY <1>4, SweepReservationKeeps
<1>5. ASSUME NEW k \in Keys, SweepKey(k) PROVE Sound'
  BY <1>5, SweepKeyKeeps
<1>6. CASE Tick
  <2>1. /\ left' \in [Requests -> 0..ReservationTTL] /\ keyLeft' \in [Keys -> 0..KeyTTL]
        /\ sweep' \in Sweeps
    BY <1>6, TickTyped, SweepTyped DEF Sound
  <2> QED
    BY <1>2, <1>6, <2>1, ClockKeeps DEF Tick
<1>7. CASE UNCHANGED vars
  BY <1>2, <1>7, ClockKeeps DEF vars
<1> QED
  BY <1>1, <1>3, <1>4, <1>5, <1>6, <1>7 DEF Next, Sweeper

LEMMA SpecSound == Spec => []Sound
<1>1. Sound /\ [Next]_vars => Sound'
  BY NextSound
<1> QED
  BY <1>1, InitSound, PTL DEF Spec

-----------------------------------------------------------------------------
(* The tables, the keys and the handlers keep their types. *)
THEOREM TypeCorrect == Spec => []TypeOK
<1>1. Sound => TypeOK
  BY DEF Sound
<1> QED
  BY <1>1, SpecSound, PTL

(* Duplicates of a request cause neither a second model call nor a second   *)
(* reservation, and the model is only called with credits held.             *)
THEOREM AlwaysOneCallPerKey == Spec => []OneCallPerKey
<1>1. Sound => OneCallPerKey
  BY DEF Sound, OneCallPerKey, OneOwner, Holding, HoldsAt, Placed, PlacedAt
<1> QED
  BY <1>1, SpecSound, PTL

(* What a client is told of its credits is so, whoever stored the answer.   *)
THEOREM AnswersAreTrue == Spec => []AnswerIsTrue
<1>1. Sound => AnswerIsTrue
  <2> SUFFICES ASSUME Sound, NEW q \in Requests, At(q, "answered")
               PROVE  LET answer == requests[q].answer
                          mine == {p \in Requests : KeyOf(p) = KeyOf(q)
                                                       /\ reservations[p].status # "none"}
                      IN /\ answer = "settled"
                              => \E p \in mine : reservations[p].status = "settled"
                         /\ answer \in {"unsettled", "modelError"}
                              => \A p \in mine : reservations[p].status # "settled"
                         /\ answer \in {"insufficient", "rejected"} => mine = {}
    BY DEF AnswerIsTrue
  <2>1. \A p \in Requests : reservations[p].status # "none" => requests[p].owner
    BY DEF Sound, Holding, HoldsAt
  <2>2. TrueFor(requests[q].answer, KeyOf(q))
    BY DEF Sound, Told
  <2> QED
    BY <2>1, <2>2 DEF TrueFor, TrueOf, Telling
<1> QED
  BY <1>1, SpecSound, PTL

-----------------------------------------------------------------------------
LEMMA FinishIsFinal ==
  ASSUME TypeOK, NEW k \in Keys, NEW status, NEW response, NEW reservation,
         Finish(k, status, response, reservation), NEW j \in Keys, KeyEnded(j)
  PROVE  keys'[j] = keys[j]
BY DEF TypeOK, Finish, Unfinished, KeyEnded

LEMMA NextIsFinal ==
  ASSUME Sound, [Next]_vars, NEW j \in Keys, KeyEnded(j) PROVE keys'[j] = keys[j]
<1>1. TypeOK
  BY DEF Sound
<1>2. ASSUME NEW q \in Requests, Handler(q) PROVE keys'[j] = keys[j]
  <2>1. CASE At(q, "idle")
    BY <1>2, <2>1 DEF Handler, Submit, Claim, Lookup, Admit, Reserve, Note402, CallModel,
                      ModelReturns, Settle, Release, Respond, Die, At
  <2>2. CASE ~ At(q, "idle")
    <3>1. KeyOf(q) \in Keys
      BY <2>2, RequestFacts
    <3>2. CASE Claim(q)
      BY <1>1, <3>1, <3>2 DEF Claim, Claimable, KeyEnded, TypeOK
    <3>3. CASE Note402(q) \/ Settle(q) \/ Release(q) \/ Respond(q)
      BY <1>1, <3>1, <3>3, FinishIsFinal DEF Note402, Settle, Release, Respond
    <3>4. CASE UNCHANGED keys
      BY <3>4
    <3> QED
      BY <1>2, <3>2, <3>3, <3>4 DEF Handler, Submit, Lookup, Admit, Reserve, CallModel,
                                    ModelReturns, Die
  <2> QED
    BY <2>1, <2>2
<1>3. ASSUME NEW k \in Keys, SweepKey(k) PROVE keys'[j] = keys[j]
  BY <1>1, <1>3, FinishIsFinal DEF SweepKey
<1>4. CASE UNCHANGED keys
  BY <1>4
<1> QED
  BY <1>2, <1>3, <1>4 DEF Next, Sweeper, Tick, SweepStart, SweepReservationsEnd,
                          SweepReadClock, SweepListKeys, SweepEnd, SweepAborts,
                          SweepReservation, vars

(* The answer a key has got is the answer it keeps: no step of a handler or *)
(* of the sweeper writes over it.                                           *)
THEOREM StoredAnswersAreFinal == Spec => StoredAnswerIsFinal
<1>1. Sound /\ [Next]_vars => [\A k \in Keys : KeyEnded(k) => keys'[k] = keys[k]]_vars
  BY NextIsFinal
<1> QED
  BY <1>1, SpecSound, PTL DEF Spec, StoredAnswerIsFinal

-----------------------------------------------------------------------------
(* A handler goes to a place. *)
GoesTo(q, pc) ==
  /\ \A p \in Requests : p # q => requests'[p] = requests[p]
  /\ requests'[q].pc = pc
  /\ requests'[q].key = requests[q].key /\ requests'[q].owner = requests[q].owner

LEMMA HandlerGoes ==
  ASSUME TypeOK, NEW q \in Requests, NEW pc, NEW answer,
         \/ Goto(q, pc) \/ Conclude(q, answer, pc)
         \/ requests' = [requests EXCEPT ![q].pc = pc, ![q].called = TRUE]
  PROVE  GoesTo(q, pc)
<1>1. requests \in [Requests -> Request]
  BY DEF TypeOK, Request
<1>2. CASE Goto(q, pc)
  BY <1>1, <1>2 DEF Goto, Request, GoesTo
<1>3. CASE Conclude(q, answer, pc)
  BY <1>1, <1>3 DEF Conclude, Request, GoesTo
<1>4. CASE requests' = [requests EXCEPT ![q].pc = pc, ![q].called = TRUE]
  BY <1>1, <1>4 DEF Request, GoesTo
<1> QED
  BY <1>2, <1>3, <1>4

(* A handler whose key is claimed goes on: it makes a reservation only      *)
(* while nothing has been reserved, ends its own key only once it is past   *)
(* the settlement, and settles only together with its key.                  *)
LEMMA StepTimely ==
  ASSUME Prompt, Timely, NEW q \in Requests, NEW pc, KeyOf(q) \in Keys, GoesTo(q, pc),
         \A p \in Requests : p # q => reservations'[p] = reservations[p] /\ left'[p] = left[p],
         UNCHANGED <<keyLeft, sweep>>, KeysKept(KeyOf(q)),
         pc \in {"admit", "reserve"} => Unreserved(q),
         reservations'[q].status = "reserved"
           => \/ reservations[q].status = "reserved" /\ left'[q] = left[q]
              \/ Unreserved(q) /\ left'[q] = ReservationTTL,
         pc \in Late /\ reservations'[q].status = "reserved" => WillSettle(q),
         keys'[KeyOf(q)] # keys[KeyOf(q)] => requests[q].owner /\ pc \in Past,
         reservations'[q].status = "settled"
           => \/ reservations[q].status = "settled"
              \/ /\ keys'[KeyOf(q)].status = "completed" /\ keys'[KeyOf(q)].response = "settled"
                 /\ keys'[KeyOf(q)].reservation = q
  PROVE  Deadlines' /\ Listed' /\ Waiting' /\ ChargeIsReplayed'
<1> USE DEF Timely
<1>1. /\ \A p \in Requests : KeyOf(p)' = KeyOf(p)
      /\ \A p \in Requests : Unreserved(p)' => Unreserved(p)
  BY DEF GoesTo, KeyOf, Unreserved
<1>2. /\ \A p \in Requests : Unreserved(p) => KeyOf(p) \in Keys
      /\ \A p \in Requests : reservations[p].status # "none" => KeyOf(p) \in Keys /\ requests[p].owner
      /\ \A p \in Requests : requests[p].owner => KeyOf(p) \in Keys
  BY DEF Unreserved, KeyOf, Sound, Placed, PlacedAt, Holding, HoldsAt
<1>3. ASSUME NEW p \in Requests, Unreserved(p)
      PROVE  /\ keyLeft[KeyOf(p)] >= ReservationTTL + MaxSweepStall
             /\ keyLeft[KeyOf(p)] > MaxSweepStall
  <2>1. /\ {ReservationTTL, KeyTTL, MaxStall, MaxSweepStall} \subseteq Nat /\ keyLeft[KeyOf(p)] \in 0..KeyTTL
        /\ KeyTTL - keyLeft[KeyOf(p)] <= MaxStall
    BY <1>2, <1>3, BoundsAssumption DEF Sound, TypeOK, Deadlines
  <2> QED
    BY <2>1 DEF Prompt
<1>4. Deadlines'
  <2>1. \A p \in Requests : Unreserved(p)' => KeyTTL - keyLeft'[KeyOf(p)'] <= MaxStall
    BY <1>1 DEF Deadlines
  <2>2. ASSUME NEW p \in Requests, reservations'[p].status = "reserved", left'[p] > 0
        PROVE  left'[p] + MaxSweepStall <= keyLeft'[KeyOf(p)']
    <3>1. CASE reservations[p].status = "reserved" /\ left'[p] = left[p]
      BY <1>1, <2>2, <3>1 DEF Deadlines
    <3>2. CASE Unreserved(p) /\ left'[p] = ReservationTTL
      <4>1. left'[p] + MaxSweepStall <= keyLeft[KeyOf(p)]
        <5>1. keyLeft[KeyOf(p)] \in 0..KeyTTL
          BY <1>2, <3>2 DEF Sound, TypeOK
        <5> QED
          BY <1>3, <3>2, <5>1, BoundsAssumption
      <4> QED
        BY <1>1, <4>1
    <3> QED
      BY <2>2, <3>1, <3>2
  <2> QED
    BY <2>1, <2>2 DEF Deadlines
<1>5. Listed'
  <2> SUFFICES ASSUME NEW k \in Keys, Doomed(k)'
               PROVE  /\ keys'[k].status # "free" /\ keyLeft'[k] <= MaxSweepStall
                      /\ \A p \in Requests : KeyOf(p)' = k => reservations'[p].status # "reserved"
    BY DEF Listed
  <2>1. (keys'[k].status = "free") <=> (keys[k].status = "free")
    BY DEF KeysKept
  <2>2. Doomed(k)
    BY <2>1 DEF Doomed
  <2>3. keys[k].status # "free" /\ keyLeft[k] <= MaxSweepStall
        /\ \A p \in Requests : KeyOf(p) = k => reservations[p].status # "reserved"
    BY <2>2 DEF Listed
  <2>4. \A p \in Requests : KeyOf(p) = k => ~ Unreserved(p)
    <3>1. keyLeft[k] \in Nat /\ MaxSweepStall \in Nat
      BY BoundsAssumption DEF Sound, TypeOK
    <3> QED
      BY <1>3, <2>3, <3>1
  <2> QED
    BY <1>1, <2>1, <2>3, <2>4
<1>6. Waiting'
  <2> SUFFICES ASSUME NEW p \in Requests, WillSettle(p)' PROVE keys'[KeyOf(p)'].status = "pending"
    BY DEF Waiting
  <2>1. WillSettle(p)
    BY <1>1 DEF WillSettle, GoesTo
  <2>2. keys[KeyOf(p)].status = "pending" /\ KeyOf(p) \in Keys /\ requests[p].owner
    BY <1>2, <2>1 DEF Waiting, WillSettle, Unreserved
  <2>3. CASE keys'[KeyOf(p)] = keys[KeyOf(p)]
    BY <1>1, <2>2, <2>3
  <2>4. CASE keys'[KeyOf(p)] # keys[KeyOf(p)]
    <3>1. KeyOf(p) = KeyOf(q) /\ requests[q].owner /\ pc \in Past
      BY <2>2, <2>4 DEF KeysKept
    <3>2. p = q
      BY <2>2, <3>1 DEF Sound, OneOwner
    <3> QED
      BY <3>1, <3>2 DEF WillSettle, Unreserved, GoesTo, Past, Late
  <2> QED
    BY <2>3, <2>4
<1>7. ChargeIsReplayed'
  <2> SUFFICES ASSUME NEW p \in Requests, reservations'[p].status = "settled"
               PROVE  /\ keys'[KeyOf(p)'].status = "completed"
                      /\ keys'[KeyOf(p)'].response = "settled"
                      /\ keys'[KeyOf(p)'].reservation = p
    BY DEF ChargeIsReplayed
  <2>1. CASE reservations[p].status = "settled"
    <3>1. /\ KeyOf(p) \in Keys /\ keys[KeyOf(p)].status = "completed"
          /\ keys[KeyOf(p)].response = "settled" /\ keys[KeyOf(p)].reservation = p
      BY <1>2, <2>1 DEF ChargeIsReplayed
    <3>2. keys'[KeyOf(p)] = keys[KeyOf(p)]
      BY <3>1 DEF KeysKept
    <3> QED
      BY <1>1, <3>1, <3>2
  <2>2. CASE reservations[p].status # "settled"
    BY <1>1, <2>2
  <2> QED
    BY <2>1, <2>2
<1> QED
  BY <1>4, <1>5, <1>6, <1>7

(* A handler that owns no key neither reserves nor ends a key. *)
LEMMA EntryTimely ==
  ASSUME Prompt, Timely, NEW q \in Requests, ~ requests[q].owner,
         \A p \in Requests : p # q => requests'[p] = requests[p],
         UNCHANGED <<credit, left, sweep>>,
         \/ UNCHANGED <<keys, keyLeft>> /\ ~ requests'[q].owner
         \/ /\ requests'[q].key \in Keys /\ keys[requests'[q].key].status = "free"
            /\ keys' = [keys EXCEPT ![requests'[q].key] =
                          [NoKey EXCEPT !.status = "pending", !.body = requests[q].body]]
            /\ keyLeft' = [keyLeft EXCEPT ![requests'[q].key] = KeyTTL]
  PROVE  Deadlines' /\ Listed' /\ Waiting' /\ ChargeIsReplayed'
<1> USE DEF Timely
<1>1. reservations' = reservations /\ reservations[q].status = "none"
  BY DEF credit, Sound, Holding, HoldsAt
<1>2. /\ \A p \in Requests : Unreserved(p) => KeyOf(p) \in Keys /\ requests[p].owner
      /\ \A p \in Requests : reservations[p].status # "none" => KeyOf(p) \in Keys /\ requests[p].owner
      /\ \A p \in Requests : requests[p].owner => keys[KeyOf(p)].status # "free"
  BY DEF Unreserved, KeyOf, Sound, Placed, PlacedAt, Holding, HoldsAt, OneOwner
<1>3. PICK key : key = requests'[q].key
  OBVIOUS
<1>4. /\ \A k \in Keys : keys[k].status # "free" => keys'[k] = keys[k] /\ keyLeft'[k] = keyLeft[k]
      /\ requests'[q].owner => keys'[key].status = "pending" /\ keyLeft'[key] = KeyTTL
  <2>1. keys \in [Keys -> Key] /\ keyLeft \in [Keys -> 0..KeyTTL]
    BY DEF Sound, TypeOK, Key
  <2>2. CASE UNCHANGED <<keys, keyLeft>> /\ ~ requests'[q].owner
    BY <2>2
  <2> DEFINE row == [NoKey EXCEPT !.status = "pending", !.body = requests[q].body]
  <2>3. CASE /\ key \in Keys /\ keys[key].status = "free"
             /\ keys' = [keys EXCEPT ![key] = row] /\ keyLeft' = [keyLeft EXCEPT ![key] = KeyTTL]
    <3>1. row.status = "pending"
      BY DEF NoKey
    <3> HIDE DEF row
    <3> QED
      BY <2>1, <2>3, <3>1
  <2> QED
    BY <1>3, <2>2, <2>3
<1>5. \A p \in Requests : p # q => /\ KeyOf(p)' = KeyOf(p) /\ requests'[p] = requests[p]
                                   /\ Unreserved(p)' <=> Unreserved(p)
  BY DEF KeyOf, Unreserved
<1>6. Deadlines'
  <2>1. ASSUME NEW p \in Requests, Unreserved(p)'
        PROVE  KeyTTL - keyLeft'[KeyOf(p)'] <= MaxStall
    <3>1. CASE p = q
      BY <1>3, <1>4, <2>1, <3>1, BoundsAssumption DEF Unreserved, KeyOf
    <3>2. CASE p # q
      BY <1>2, <1>4, <1>5, <2>1, <3>2 DEF Deadlines
    <3> QED
      BY <3>1, <3>2
  <2>2. ASSUME NEW p \in Requests, reservations[p].status = "reserved", left[p] > 0
        PROVE  left[p] + MaxSweepStall <= keyLeft'[KeyOf(p)']
    BY <1>1, <1>2, <1>4, <1>5, <2>2 DEF Deadlines
  <2> QED
    BY <1>1, <2>1, <2>2 DEF Deadlines
<1>7. Listed'
  <2> SUFFICES ASSUME NEW k \in Keys, Doomed(k)'
               PROVE  /\ keys'[k].status # "free" /\ keyLeft'[k] <= MaxSweepStall
                      /\ \A p \in Requests : KeyOf(p)' = k => reservations[p].status # "reserved"
    BY <1>1 DEF Listed
  <2>1. /\ {ReservationTTL, KeyTTL, MaxStall, MaxSweepStall} \subseteq Nat
        /\ KeyTTL > MaxSweepStall
    <3>1. {ReservationTTL, KeyTTL, MaxStall, MaxSweepStall} \subseteq Nat
      BY BoundsAssumption
    <3> QED
      BY <3>1 DEF Prompt
  <2>2. keys[k].status # "free" /\ Doomed(k)
    <3>1. CASE keys[k].status # "free"
      BY <1>4, <3>1 DEF Doomed
    <3>2. CASE keys[k].status = "free" /\ k \in sweep.overdue \cup sweep.stale
      BY <3>2 DEF Doomed, Listed
    <3>3. CASE keys[k].status = "free" /\ k \notin sweep.overdue \cup sweep.stale
      <4>1. /\ keys'[k].status # "free" /\ keyLeft'[k] + sweep.waited <= MaxSweepStall
            /\ sweep.waited \in Nat
        <5>1. keys'[k].status # "free" /\ keyLeft'[k] + sweep.waited <= MaxSweepStall
          BY <3>3 DEF Doomed
        <5>2. sweep.waited \in 0..MaxSweepStall
          BY DEF Sound, TypeOK
        <5> QED
          BY <2>1, <5>1, <5>2
      <4>2. keyLeft'[k] = KeyTTL
        <5>1. keys \in [Keys -> Key] /\ keyLeft \in [Keys -> 0..KeyTTL]
          BY DEF Sound, TypeOK, Key
        <5> QED
          BY <3>3, <4>1, <5>1
      <4> QED
        BY <2>1, <4>1, <4>2
    <3> QED
      BY <3>1, <3>2, <3>3
  <2>3. keyLeft[k] <= MaxSweepStall
        /\ \A p \in Requests : KeyOf(p) = k => reservations[p].status # "reserved"
    BY <2>2 DEF Listed
  <2> QED
    BY <1>1, <1>4, <1>5, <2>2, <2>3
<1>8. Waiting'
  <2> SUFFICES ASSUME NEW p \in Requests, WillSettle(p)' PROVE keys'[KeyOf(p)'].status = "pending"
    BY DEF Waiting
  <2>1. CASE p = q
    <3>1. requests'[q].owner
      BY <1>1, <2>1 DEF WillSettle, Unreserved
    <3> QED
      BY <1>3, <1>4, <2>1, <3>1 DEF KeyOf
  <2>2. CASE p # q
    <3>1. WillSettle(p)
      BY <1>1, <1>5, <2>2 DEF WillSettle
    <3>2. KeyOf(p) \in Keys /\ keys[KeyOf(p)].status = "pending"
      BY <1>2, <3>1 DEF Waiting, WillSettle
    <3> QED
      BY <1>4, <1>5, <2>2, <3>2
  <2> QED
    BY <2>1, <2>2
<1>9. ChargeIsReplayed'
  BY <1>1, <1>2, <1>4, <1>5 DEF ChargeIsReplayed
<1> QED
  BY <1>6, <1>7, <1>8, <1>9

LEMMA StartsTimely ==
  ASSUME Prompt, Timely, NEW q \in Requests,
         (\E k \in Keys, body \in Tokens : Submit(q, k, body)) \/ Claim(q) \/ Lookup(q)
  PROVE  Deadlines' /\ Listed' /\ Waiting' /\ ChargeIsReplayed'
<1>1. /\ Sound /\ TypeOK /\ requests \in [Requests -> Request]
      /\ ~ requests[q].owner
      /\ ~ At(q, "idle") => KeyOf(q) \in Keys
  BY RequestFacts DEF Timely, Sound, TypeOK, Request, Submit, Claim, Lookup, At, PlacedAt
<1>2. ASSUME NEW k \in Keys, NEW body \in Tokens, Submit(q, k, body)
      PROVE  Deadlines' /\ Listed' /\ Waiting' /\ ChargeIsReplayed'
  <2>1. /\ ~ requests'[q].owner /\ \A p \in Requests : p # q => requests'[p] = requests[p]
        /\ UNCHANGED <<credit, left, keys, keyLeft, sweep>>
    BY <1>1, <1>2 DEF Submit, NoRequest
  <2> QED
    BY <1>1, <2>1, EntryTimely
<1>3. CASE Lookup(q)
  <2>1. PICK answer : Conclude(q, answer, "respond")
    BY <1>3 DEF Lookup
  <2>2. GoesTo(q, "respond")
    BY <1>1, <2>1, HandlerGoes
  <2> QED
    BY <1>1, <1>3, <2>2, EntryTimely DEF Lookup, GoesTo
<1>4. CASE Claim(q)
  <2> DEFINE claimed ==
        /\ keys[KeyOf(q)].status = "free"
        /\ keys' = [keys EXCEPT ![KeyOf(q)] = [NoKey EXCEPT !.status = "pending",
                                                            !.body = requests[q].body]]
        /\ keyLeft' = [keyLeft EXCEPT ![KeyOf(q)] = KeyTTL]
  <2>1. KeyOf(q) \in Keys /\ UNCHANGED <<credit, left, sweep>>
    BY <1>1, <1>4 DEF Claim, At
  <2>2. CASE claimed /\ requests' = [requests EXCEPT ![q].pc = "admit", ![q].owner = TRUE]
    <3>1. /\ \A p \in Requests : p # q => requests'[p] = requests[p]
          /\ requests'[q].key = KeyOf(q)
      BY <1>1, <2>2 DEF Request, KeyOf
    <3> QED
      BY <1>1, <2>1, <2>2, <3>1, EntryTimely
  <2>3. CASE /\ claimed \/ UNCHANGED <<keys, keyLeft>>
             /\ Goto(q, "lookup") \/ Conclude(q, "internalError", "respond")
    <3>1. GoesTo(q, "lookup") \/ GoesTo(q, "respond")
      BY <1>1, <2>3, HandlerGoes
    <3>2. /\ \A p \in Requests : p # q => requests'[p] = requests[p]
          /\ requests'[q].key = KeyOf(q) /\ ~ requests'[q].owner
      BY <1>1, <3>1 DEF GoesTo, KeyOf
    <3> QED
      BY <1>1, <2>1, <2>3, <3>2, EntryTimely
  <2> QED
    BY <1>4, <2>2, <2>3 DEF Claim, Claimable
<1> QED
  BY <1>2, <1>3, <1>4

(* Steps of a handler that leave the credits alone. *)
LEMMA QuietTimely ==
  ASSUME Prompt, Timely, NEW q \in Requests, NEW pc, KeyOf(q) \in Keys, GoesTo(q, pc),
         UNCHANGED <<credit, left, keyLeft, sweep>>, KeysKept(KeyOf(q)),
         pc \in Past \/ UNCHANGED keys,
         pc \in {"admit", "reserve"} => Unreserved(q),
         pc \in Late => requests[q].pc \in Late,
         keys'[KeyOf(q)] # keys[KeyOf(q)] => requests[q].owner
  PROVE  Deadlines' /\ Listed' /\ Waiting' /\ ChargeIsReplayed'
<1>1. reservations' = reservations
  BY DEF credit
<1> QED
  BY <1>1, StepTimely DEF WillSettle

LEMMA HandlerTimely ==
  ASSUME Prompt, Timely, NEW q \in Requests, Handler(q)
  PROVE  Deadlines' /\ Listed' /\ Waiting' /\ ChargeIsReplayed'
<1>1. Sound /\ TypeOK /\ CA!TypeOK /\ PlacedAt(requests[q])
  BY RequestFacts DEF Timely
<1>2. /\ ~ At(q, "idle") => KeyOf(q) \in Keys /\ requests[q].body \in Tokens
      /\ HoldsAt(requests[q], reservations[q].status)
      /\ WillSettle(q) => keys[KeyOf(q)].status = "pending"
      /\ KeysKept(KeyOf(q)) \/ keys' # keys
  BY <1>1, RequestFacts, KeysUnchanged DEF Timely, Waiting
<1>3. CASE \/ \E k \in Keys, body \in Tokens : Submit(q, k, body)
           \/ Claim(q) \/ Lookup(q)
  BY <1>3, StartsTimely
<1>4. CASE Admit(q)
  <2>1. PICK pc \in {"reserve", "respond"} : GoesTo(q, pc)
    <3>1. GoesTo(q, "reserve") \/ GoesTo(q, "respond")
      BY <1>1, <1>4, HandlerGoes DEF Admit
    <3> QED
      BY <3>1
  <2>2. Unreserved(q)
    BY <1>1, <1>4 DEF Admit, At, Unreserved, PlacedAt, Early
  <2> QED
    BY <1>2, <1>4, <2>1, <2>2, QuietTimely DEF Admit, At, Past, Late
<1>5. CASE Reserve(q)
  <2>1. /\ KeyOf(q) \in Keys /\ requests[q].body \in Tokens /\ Unreserved(q)
        /\ KeysKept(KeyOf(q)) /\ UNCHANGED <<keys, keyLeft, sweep>>
    BY <1>1, <1>2, <1>5 DEF Reserve, At, Unreserved, PlacedAt, Early
  <2>2. CASE /\ CA!Reserve(q, requests[q].body) /\ left' = [left EXCEPT ![q] = ReservationTTL]
             /\ Goto(q, "decrypt") \/ Conclude(q, "internalError", "respond")
    <3>1. RowBecomes(q, "reserved")
      BY <1>1, <2>1, <2>2, ReserveRow
    <3>2. PICK pc \in {"decrypt", "respond"} : GoesTo(q, pc)
      <4>1. GoesTo(q, "decrypt") \/ GoesTo(q, "respond")
        BY <1>1, <2>2, HandlerGoes
      <4> QED
        BY <4>1
    <3>3. left'[q] = ReservationTTL /\ \A p \in Requests : p # q => left'[p] = left[p]
      BY <1>1, <2>2 DEF TypeOK
    <3> QED
      BY <2>1, <3>1, <3>2, <3>3, StepTimely DEF RowBecomes, WillSettle
  <2>3. CASE /\ UNCHANGED <<credit, left>>
             /\ Conclude(q, "insufficient", "note402") \/ Conclude(q, "internalError", "respond")
    <3>1. PICK pc \in {"note402", "respond"} : GoesTo(q, pc)
      <4>1. GoesTo(q, "note402") \/ GoesTo(q, "respond")
        BY <1>1, <2>3, HandlerGoes
      <4> QED
        BY <4>1
    <3> QED
      BY <2>1, <2>3, <3>1, QuietTimely DEF Late
  <2> QED
    BY <1>5, <2>2, <2>3 DEF Reserve
<1>6. CASE Note402(q)
  <2>1. GoesTo(q, "respond")
    BY <1>1, <1>6, HandlerGoes DEF Note402
  <2>2. KeyOf(q) \in Keys /\ requests[q].owner
    BY <1>1, <1>2, <1>6 DEF Note402, At, PlacedAt, Early
  <2>3. KeysKept(KeyOf(q))
    BY <1>1, <1>6, <2>2, FinishKey, KeysUnchanged, Vocabulary DEF Note402
  <2> QED
    BY <1>6, <2>1, <2>2, <2>3, QuietTimely DEF Note402, Past, Late
<1>7. CASE CallModel(q) \/ ModelReturns(q)
  <2>1. PICK pc \in {"calling", "settle", "release"} : GoesTo(q, pc)
    <3>1. GoesTo(q, "calling") \/ GoesTo(q, "settle") \/ GoesTo(q, "release")
      BY <1>1, <1>7, HandlerGoes DEF CallModel, ModelReturns
    <3> QED
      BY <3>1
  <2> QED
    BY <1>2, <1>7, <2>1, QuietTimely DEF CallModel, ModelReturns, At, Past, Late
<1>8. CASE Settle(q)
  <2>1. PICK pc \in {"respond", "release"} : GoesTo(q, pc)
    <3>1. GoesTo(q, "respond") \/ GoesTo(q, "release")
      BY <1>1, <1>8, HandlerGoes DEF Settle
    <3> QED
      BY <3>1
  <2>2. KeyOf(q) \in Keys /\ requests[q].owner
    BY <1>1, <1>2, <1>8 DEF Settle, At, PlacedAt, Late
  <2>3. CASE UNCHANGED <<credit, keys>>
    BY <1>2, <1>8, <2>1, <2>2, <2>3, QuietTimely DEF Settle, Past, Late
  <2>4. ASSUME NEW usage \in Tokens, CA!Settle(q, usage),
               Finish(KeyOf(q), "completed", SettledOr(q), q)
        PROVE  Deadlines' /\ Listed' /\ Waiting' /\ ChargeIsReplayed'
    <3>1. RowBecomes(q, "settled") /\ reservations[q].status = "reserved"
      BY <1>1, <2>4, SettleRow
    <3>2. Finish(KeyOf(q), "completed", "settled", q) /\ WillSettle(q)
      BY <1>8, <2>4, <3>1 DEF SettledOr, WillSettle, Settle, At, Late
    <3>3. /\ KeysKept(KeyOf(q))
          /\ keys'[KeyOf(q)].status = "completed" /\ keys'[KeyOf(q)].response = "settled"
          /\ keys'[KeyOf(q)].reservation = q
      BY <1>1, <1>2, <2>2, <3>2, FinishKey, Vocabulary
    <3> QED
      BY <1>8, <2>1, <2>2, <3>1, <3>3, StepTimely DEF RowBecomes, Settle, Past, Late
  <2>5. CASE /\ reservations[q].status # "reserved" /\ UNCHANGED credit
             /\ Finish(KeyOf(q), "completed", SettledOr(q), q)
    <3>1. Finish(KeyOf(q), "completed", "unsettled", q)
      BY <2>5 DEF SettledOr
    <3>2. KeysKept(KeyOf(q))
      BY <1>1, <2>2, <3>1, FinishKey, Vocabulary
    <3> QED
      BY <1>8, <2>1, <2>2, <2>5, <3>2, QuietTimely DEF Settle, Past, Late
  <2> QED
    BY <1>8, <2>3, <2>4, <2>5 DEF Settle
<1>9. CASE Release(q)
  <2>1. GoesTo(q, "respond")
    BY <1>1, <1>9, HandlerGoes DEF Release
  <2>2. KeyOf(q) \in Keys /\ requests[q].owner
    BY <1>1, <1>2, <1>9 DEF Release, At, PlacedAt
  <2>3. KeysKept(KeyOf(q))
    <3>1. Stored(requests[q].answer) \in Responses
      BY Vocabulary DEF Stored
    <3>2. CASE Finish(KeyOf(q), "failed", Stored(requests[q].answer), 0)
      BY <1>1, <2>2, <3>1, <3>2, FinishKey
    <3> QED
      BY <1>1, <1>9, <3>2, KeysUnchanged DEF Release
  <2>4. CASE UNCHANGED credit
    BY <1>9, <2>1, <2>2, <2>3, <2>4, QuietTimely DEF Release, Past, Late
  <2>5. CASE CA!Release(q)
    <3>1. RowBecomes(q, "released")
      BY <1>1, <2>5, ReleaseRow
    <3> QED
      BY <1>9, <2>1, <2>2, <2>3, <3>1, StepTimely DEF RowBecomes, Release, Past, Late
  <2> QED
    BY <1>9, <2>4, <2>5 DEF Release
<1>10. CASE Respond(q)
  <2>1. PICK pc \in {"answered", "dead"} : GoesTo(q, pc)
    <3>1. GoesTo(q, "answered") \/ GoesTo(q, "dead")
      BY <1>1, <1>10, HandlerGoes DEF Respond
    <3> QED
      BY <3>1
  <2>2. KeyOf(q) \in Keys /\ requests[q].answer # "none" /\ requests[q].answer \in Answers
    BY <1>1, <1>2, <1>10 DEF Respond, At, PlacedAt, TypeOK
  <2>3. /\ KeysKept(KeyOf(q))
        /\ requests[q].owner \/ keys' = keys
    <3>1. CASE requests[q].owner /\ ~ UNCHANGED keys
      <4>1. requests[q].answer \in Responses
        BY <1>1, <2>2, <3>1 DEF PlacedAt, Answers
      <4>2. ASSUME NEW status \in {"completed", "failed"}, NEW reservation \in Requests \cup {0},
                   Finish(KeyOf(q), status, requests[q].answer, reservation)
            PROVE  KeysKept(KeyOf(q))
        BY <1>1, <2>2, <4>1, <4>2, FinishKey
      <4> QED
        BY <1>10, <3>1, <4>2 DEF Respond
    <3> QED
      BY <1>1, <1>10, <3>1, KeysUnchanged DEF Respond
  <2> QED
    BY <1>10, <2>1, <2>2, <2>3, QuietTimely DEF Respond, Past, Late
<1>11. CASE Die(q)
  <2>1. GoesTo(q, "dead")
    BY <1>1, <1>11, HandlerGoes DEF Die
  <2> QED
    BY <1>2, <1>11, <2>1, QuietTimely DEF Die, At, Past, Late
<1> QED
  BY <1>3, <1>4, <1>5, <1>6, <1>7, <1>8, <1>9, <1>10, <1>11 DEF Handler

(* The sweeper expires what is expired, and ends a listed key. *)
LEMMA SweepTimely ==
  ASSUME Prompt, Timely, UNCHANGED <<requests, left, keyLeft>>,
         \A q \in Requests : \/ reservations'[q].status = reservations[q].status
                             \/ reservations'[q].status \notin {"reserved", "settled"}
                                /\ reservations[q].status # "settled",
         \A k \in Keys : Doomed(k)' => Doomed(k),
         \A k \in Keys : \/ keys'[k] = keys[k]
                         \/ k \in sweep.stale /\ keys[k].status = "pending" /\ keys'[k].status # "free"
  PROVE  Deadlines' /\ Listed' /\ Waiting' /\ ChargeIsReplayed'
<1> USE DEF Timely
<1>1. /\ \A p \in Requests : KeyOf(p)' = KeyOf(p) /\ (Unreserved(p)' <=> Unreserved(p))
      /\ \A p \in Requests : WillSettle(p)' => WillSettle(p)
  BY DEF KeyOf, Unreserved, WillSettle
<1>2. \A p \in Requests : Unreserved(p) \/ reservations[p].status # "none" => KeyOf(p) \in Keys
  BY DEF Unreserved, KeyOf, Sound, Placed, PlacedAt, Holding, HoldsAt
<1>3. Deadlines'
  BY <1>1 DEF Deadlines
<1>4. Listed'
  <2> SUFFICES ASSUME NEW k \in Keys, Doomed(k)
               PROVE  /\ keys'[k].status # "free" /\ keyLeft'[k] <= MaxSweepStall
                      /\ \A p \in Requests : KeyOf(p)' = k => reservations'[p].status # "reserved"
    BY DEF Listed
  <2>1. keys[k].status # "free" /\ keyLeft[k] <= MaxSweepStall
        /\ \A p \in Requests : KeyOf(p) = k => reservations[p].status # "reserved"
    BY DEF Listed
  <2> QED
    BY <1>1, <2>1
<1>5. Waiting'
  <2> SUFFICES ASSUME NEW p \in Requests, WillSettle(p) PROVE keys'[KeyOf(p)].status = "pending"
    BY <1>1 DEF Waiting
  <2>1. KeyOf(p) \in Keys /\ keys[KeyOf(p)].status = "pending"
    BY <1>2 DEF Waiting, WillSettle
  <2>2. KeyOf(p) \notin sweep.stale
    <3>1. CASE Unreserved(p)
      <4>1. /\ {ReservationTTL, KeyTTL, MaxStall, MaxSweepStall} \subseteq Nat
            /\ keyLeft[KeyOf(p)] \in 0..KeyTTL /\ KeyTTL - keyLeft[KeyOf(p)] <= MaxStall
        BY <2>1, <3>1, BoundsAssumption DEF Sound, TypeOK, Deadlines
      <4>2. ~ (keyLeft[KeyOf(p)] <= MaxSweepStall)
        BY <4>1 DEF Prompt
      <4> QED
        BY <2>1, <4>2 DEF Listed, Doomed
    <3>2. CASE reservations[p].status = "reserved"
      BY <2>1, <3>2 DEF Listed, Doomed
    <3> QED
      BY <3>1, <3>2 DEF WillSettle
  <2> QED
    BY <2>1, <2>2
<1>6. ChargeIsReplayed'
  <2> SUFFICES ASSUME NEW p \in Requests, reservations'[p].status = "settled"
               PROVE  /\ keys'[KeyOf(p)].status = "completed"
                      /\ keys'[KeyOf(p)].response = "settled"
                      /\ keys'[KeyOf(p)].reservation = p
    BY <1>1 DEF ChargeIsReplayed
  <2>1. reservations[p].status = "settled" /\ KeyOf(p) \in Keys
    BY <1>2
  <2> QED
    BY <2>1 DEF ChargeIsReplayed
<1> QED
  BY <1>3, <1>4, <1>5, <1>6

(* When the list of expired reservations is empty, a key that may run out   *)
(* before the sweep reads the clock has none that is held: the              *)
(* reservation's time was up before.                                        *)
LEMMA ReservationsEndTimely ==
  ASSUME Prompt, Timely, SweepReservationsEnd
  PROVE  Deadlines' /\ Listed' /\ Waiting' /\ ChargeIsReplayed'
<1> USE DEF Timely
<1>1. /\ UNCHANGED <<reservations, left, keys, keyLeft, requests>>
      /\ sweep' = [sweep EXCEPT !.phase = "clock"]
      /\ \A r \in Requests : ~ Expired(r)
      /\ sweep \in Sweeps /\ MaxSweepStall \in Nat
  BY BoundsAssumption DEF SweepReservationsEnd, NoneExpired, credit, Sound, TypeOK, Sweeps
<1>2. Deadlines' /\ Waiting' /\ ChargeIsReplayed'
  BY <1>1 DEF Deadlines, Waiting, WillSettle, ChargeIsReplayed, Unreserved, KeyOf
<1>3. Listed'
  <2> SUFFICES ASSUME NEW k \in Keys, Doomed(k)'
               PROVE  /\ keys[k].status # "free" /\ keyLeft[k] <= MaxSweepStall
                      /\ \A p \in Requests : KeyOf(p) = k => reservations[p].status # "reserved"
    BY <1>1 DEF Listed, KeyOf
  <2>1. CASE k \in sweep.overdue \cup sweep.stale
    BY <2>1 DEF Listed, Doomed
  <2>2. CASE keys[k].status # "free" /\ keyLeft[k] + sweep.waited <= MaxSweepStall
    <3>1. keyLeft[k] \in Nat /\ sweep.waited \in Nat
      BY <1>1, BoundsAssumption DEF Sound, TypeOK, Sweeps
    <3>2. keyLeft[k] <= MaxSweepStall
      BY <1>1, <2>2, <3>1
    <3>3. ASSUME NEW p \in Requests, KeyOf(p) = k, reservations[p].status = "reserved"
          PROVE  FALSE
      <4>1. left[p] \in Nat
        BY BoundsAssumption DEF Sound, TypeOK
      <4>2. ~ (left[p] > 0)
        BY <1>1, <3>1, <3>2, <3>3, <4>1 DEF Deadlines
      <4> QED
        BY <1>1, <3>3, <4>1, <4>2 DEF Expired
    <3> QED
      BY <2>2, <3>2, <3>3
  <2> QED
    BY <1>1, <2>1, <2>2 DEF Doomed, Sweeps
<1> QED
  BY <1>2, <1>3

LEMMA TickTimely ==
  ASSUME Prompt, Timely, Tick
  PROVE  Deadlines' /\ Listed' /\ Waiting' /\ ChargeIsReplayed'
<1> USE DEF Timely
<1>1. /\ UNCHANGED <<reservations, keys, requests>>
      /\ \A q \in Requests : Unreserved(q) => KeyTTL - keyLeft[KeyOf(q)] < MaxStall
      /\ \A q \in Requests : left'[q] = IF left[q] > 0 THEN left[q] - 1 ELSE 0
      /\ \A k \in Keys : keyLeft'[k] = IF keyLeft[k] > 0 THEN keyLeft[k] - 1 ELSE 0
  BY DEF Tick, credit
<1>2. /\ \A q \in Requests : left[q] \in Nat
      /\ \A k \in Keys : keyLeft[k] \in Nat
      /\ KeyTTL \in Nat /\ MaxStall \in Nat /\ MaxSweepStall \in Nat
      /\ \A q \in Requests : Unreserved(q) \/ reservations[q].status # "none" => KeyOf(q) \in Keys
  <2>1. KeyTTL \in Nat /\ MaxStall \in Nat /\ ReservationTTL \in Nat /\ MaxSweepStall \in Nat
    BY BoundsAssumption
  <2> QED
    BY <2>1 DEF Sound, TypeOK, Unreserved, KeyOf, Placed, PlacedAt, Holding, HoldsAt
<1>3. Deadlines'
  <2>1. ASSUME NEW q \in Requests, Unreserved(q)
        PROVE  KeyTTL - keyLeft'[KeyOf(q)] <= MaxStall
    <3>1. KeyOf(q) \in Keys /\ KeyTTL - keyLeft[KeyOf(q)] < MaxStall
      BY <1>1, <1>2, <2>1
    <3>2. PICK n \in Nat : n = keyLeft[KeyOf(q)]
      BY <1>2, <3>1
    <3>3. keyLeft'[KeyOf(q)] = IF n > 0 THEN n - 1 ELSE 0
      BY <1>1, <3>1, <3>2
    <3> QED
      BY <1>2, <3>1, <3>2, <3>3
  <2>2. ASSUME NEW q \in Requests, reservations[q].status = "reserved", left'[q] > 0
        PROVE  left'[q] + MaxSweepStall <= keyLeft'[KeyOf(q)]
    <3>1. KeyOf(q) \in Keys /\ left[q] > 0 /\ left[q] + MaxSweepStall <= keyLeft[KeyOf(q)]
      BY <1>1, <1>2, <2>2 DEF Deadlines
    <3>2. PICK m \in Nat, n \in Nat : m = left[q] /\ n = keyLeft[KeyOf(q)]
      BY <1>2, <3>1
    <3>3. /\ left'[q] = IF m > 0 THEN m - 1 ELSE 0
          /\ keyLeft'[KeyOf(q)] = IF n > 0 THEN n - 1 ELSE 0
      BY <1>1, <3>1, <3>2
    <3> QED
      BY <1>2, <3>1, <3>2, <3>3
  <2> QED
    BY <1>1, <2>1, <2>2 DEF Deadlines, Unreserved, KeyOf
<1>4. Listed'
  <2>1. ASSUME NEW k \in Keys
        PROVE  (Doomed(k)' => Doomed(k)) /\ keyLeft'[k] <= keyLeft[k]
    <3>1. PICK n \in Nat : n = keyLeft[k]
      BY <1>2
    <3>2. keyLeft'[k] = IF n > 0 THEN n - 1 ELSE 0
      BY <1>1, <3>1
    <3>3. CASE sweep.phase = "clock"
      <4>1. PICK w \in Nat : w = sweep.waited /\ w < MaxSweepStall
        BY <3>3 DEF Tick, Sound, TypeOK
      <4>2. /\ sweep' = [sweep EXCEPT !.waited = w + 1]
            /\ sweep'.waited = w + 1 /\ sweep'.phase = "clock"
            /\ sweep'.overdue = sweep.overdue /\ sweep'.stale = sweep.stale
        BY <3>3, <4>1 DEF Tick, Sound, TypeOK
      <4>3. keyLeft'[k] + (w + 1) <= MaxSweepStall => n + w <= MaxSweepStall
        BY <1>2, <3>1, <3>2, <4>1
      <4> QED
        BY <1>1, <3>1, <3>2, <3>3, <4>1, <4>2, <4>3 DEF Doomed
    <3>4. CASE sweep.phase # "clock"
      <4>1. sweep' = sweep
        BY <3>4 DEF Tick
      <4> QED
        BY <3>1, <3>2, <3>4, <4>1 DEF Doomed
    <3> QED
      BY <3>3, <3>4
  <2> SUFFICES ASSUME NEW k \in Keys, Doomed(k)
               PROVE  /\ keys[k].status # "free" /\ keyLeft'[k] <= MaxSweepStall
                      /\ \A p \in Requests : KeyOf(p) = k => reservations[p].status # "reserved"
    BY <1>1, <2>1 DEF Listed, KeyOf
  <2>2. PICK m \in Nat, n \in Nat : m = keyLeft'[k] /\ n = keyLeft[k]
    <3>1. keyLeft[k] \in Nat /\ keyLeft'[k] \in Nat
      BY <1>1, <1>2
    <3> QED
      BY <3>1
  <2>3. n <= MaxSweepStall /\ m <= n
    BY <2>1, <2>2 DEF Listed
  <2>4. m <= MaxSweepStall
    BY <1>2, <2>2, <2>3
  <2> QED
    BY <2>2, <2>4 DEF Listed
<1>5. Waiting' /\ ChargeIsReplayed'
  BY <1>1 DEF Waiting, WillSettle, ChargeIsReplayed, Unreserved, KeyOf
<1> QED
  BY <1>3, <1>4, <1>5

LEMMA NextTimely == ASSUME Prompt, Timely, [Next]_vars PROVE Timely'
<1>1. Sound /\ TypeOK /\ Sound'
  BY NextSound DEF Timely, Sound
<1>2. ASSUME NEW q \in Requests, Handler(q)
      PROVE  Deadlines' /\ Listed' /\ Waiting' /\ ChargeIsReplayed'
  BY <1>2, HandlerTimely
<1>3. sweep \in Sweeps /\ MaxSweepStall \in Nat
  BY <1>1, BoundsAssumption DEF TypeOK, Sweeps
<1>4. CASE SweepStart \/ SweepListKeys \/ SweepEnd \/ SweepAborts \/ UNCHANGED vars
  <2>1. UNCHANGED <<requests, left, keyLeft>> /\ UNCHANGED <<reservations, keys>>
    BY <1>4 DEF SweepStart, SweepListKeys, SweepEnd, SweepAborts, vars, credit
  <2>2. /\ sweep'.overdue \cup sweep'.stale \subseteq sweep.overdue \cup sweep.stale
        /\ sweep'.phase = "clock" => UNCHANGED sweep
    <3>1. CASE SweepStart \/ SweepEnd \/ SweepAborts
      BY <3>1 DEF SweepStart, SweepEnd, SweepAborts, NoSweep
    <3>2. CASE SweepListKeys
      BY <1>3, <3>2 DEF SweepListKeys, Stale, Sweeps
    <3> QED
      BY <1>4, <3>1, <3>2 DEF vars
  <2>3. \A k \in Keys : Doomed(k)' => Doomed(k)
    BY <2>1, <2>2 DEF Doomed
  <2> QED
    BY <1>1, <2>1, <2>3, SweepTimely DEF Timely
<1>5. CASE SweepReadClock
  <2>1. /\ UNCHANGED <<requests, left, keyLeft>> /\ UNCHANGED <<reservations, keys>>
        /\ sweep.phase = "clock"
        /\ sweep' = [NoSweep EXCEPT !.phase = "list",
                       !.overdue = {k \in Keys : keys[k].status # "free" /\ keyLeft[k] = 0}]
    BY <1>5 DEF SweepReadClock, credit
  <2>2. /\ sweep'.phase # "clock" /\ sweep'.stale = {}
        /\ sweep'.overdue = {k \in Keys : keys[k].status # "free" /\ keyLeft[k] = 0}
    BY <2>1 DEF NoSweep
  <2>3. 0 + sweep.waited <= MaxSweepStall
    BY <1>3 DEF Sweeps
  <2>4. \A k \in Keys : Doomed(k)' => Doomed(k)
    BY <2>1, <2>2, <2>3 DEF Doomed
  <2> QED
    BY <1>1, <2>1, <2>4, SweepTimely DEF Timely
<1>6. ASSUME NEW r \in Requests, SweepReservation(r)
      PROVE  Deadlines' /\ Listed' /\ Waiting' /\ ChargeIsReplayed'
  <2>1. RowBecomes(r, "expired") /\ reservations[r].status = "reserved"
        /\ UNCHANGED <<left, keys, keyLeft, requests, sweep>>
    BY <1>1, <1>6, ExpireRow DEF SweepReservation, TypeOK
  <2>2. \A k \in Keys : Doomed(k)' => Doomed(k)
    BY <2>1 DEF Doomed
  <2> QED
    BY <2>1, <2>2, SweepTimely DEF RowBecomes
<1>7. ASSUME NEW k \in Keys, SweepKey(k)
      PROVE  Deadlines' /\ Listed' /\ Waiting' /\ ChargeIsReplayed'
  <2>1. UNCHANGED <<reservations, left, keyLeft, requests>> /\ k \in sweep.stale
        /\ Finish(k, "failed", "requestTimeout", 0)
    BY <1>1, <1>7 DEF SweepKey, Sound, OneOwner, Unfinished, credit
  <2>2. /\ sweep'.phase # "clock"
        /\ sweep'.overdue \cup sweep'.stale \subseteq sweep.overdue \cup sweep.stale
    BY <1>3, <1>7 DEF SweepKey, Sweeps
  <2>3. \A j \in Keys : Doomed(j)' => Doomed(j)
    BY <2>2 DEF Doomed
  <2>4. KeysKept(k)
    BY <1>1, <2>1, FinishKey, Vocabulary
  <2> QED
    BY <2>1, <2>3, <2>4, SweepTimely DEF KeysKept
<1> QED
  BY <1>1, <1>2, <1>4, <1>5, <1>6, <1>7, ReservationsEndTimely, TickTimely
     DEF Next, Sweeper, Timely

(* Who was charged can fetch the answer: when a handler reserves soon       *)
(* enough after its claim, and a sweep reads the clock soon enough after it *)
(* has seen no expired reservation, neither the sweeper nor a catch block   *)
(* has stored something else.  Prompt holds of the code's three and five    *)
(* minutes as long as the two delays are together no more than two.         *)
THEOREM ChargesAreReplayed == ASSUME Prompt PROVE Spec => []ChargeIsReplayed
<1>1. Init => Timely
  <2> SUFFICES ASSUME Init PROVE Timely
    OBVIOUS
  <2>1. \A q \in Requests : requests[q] = NoRequest /\ reservations[q] = CA!NoReservation
    BY DEF Init
  <2>2. \A k \in Keys : ~ Doomed(k)
    BY DEF Init, NoSweep, Doomed
  <2>3. Deadlines /\ Listed /\ Waiting /\ ChargeIsReplayed
    BY <2>1, <2>2 DEF Deadlines, Listed, Waiting, WillSettle, ChargeIsReplayed, Unreserved,
                      NoRequest, CA!NoReservation
  <2> QED
    BY <2>3, InitSound DEF Timely
<1>2. Timely /\ [Next]_vars => Timely'
  BY NextTimely
<1>3. Timely => ChargeIsReplayed
  BY DEF Timely
<1> QED
  BY <1>1, <1>2, <1>3, PTL DEF Spec

-----------------------------------------------------------------------------
(* The credits.  What the handlers and the sweeper do to them is what       *)
(* CreditAccount does, and nothing else: what is proved there holds here.   *)
CP == INSTANCE CreditAccount_proofs WITH
        MaxReservations <- MaxRequests, MaxPurchases <- 1, Events <- {"bought"}

LEMMA Assumed == CP!BoundsAssumption /\ CP!TokensAssumption /\ CP!PurchaseSizesAssumption
BY BoundsAssumption, PurchaseSizesAssumption
   DEF CP!BoundsAssumption, CP!TokensAssumption, CP!PurchaseSizesAssumption

-----------------------------------------------------------------------------
(* A hold for q, a settlement, a release or an expiry is a step of the      *)
(* account.                                                                 *)
LEMMA OperationIsStep ==
  ASSUME NEW q \in Requests, NEW t \in Tokens,
         CA!Reserve(q, t) \/ CA!Settle(q, t) \/ CA!Release(q) \/ CA!Expire(q)
  PROVE  CA!Next
BY BoundsAssumption DEF CA!Next, CA!ReservationIds, Requests

LEMMA StepIsOperation == ASSUME Sound, [Next]_vars PROVE [CA!Next]_credit
<1>1. ASSUME NEW q \in Requests, Reserve(q) PROVE [CA!Next]_credit
  <2>1. requests[q].body \in Tokens
    BY <1>1, RequestFacts DEF Reserve, At
  <2> QED
    BY <1>1, <2>1, OperationIsStep DEF Reserve
<1>2. ASSUME NEW q \in Requests, Settle(q) PROVE [CA!Next]_credit
  BY <1>2, OperationIsStep DEF Settle
<1>3. ASSUME NEW q \in Requests, CA!Release(q) \/ CA!Expire(q) PROVE [CA!Next]_credit
  BY <1>3 DEF CA!Next, CA!ReservationIds, Requests
<1>4. ASSUME NEW q \in Requests, Release(q) PROVE [CA!Next]_credit
  BY <1>3, <1>4 DEF Release
<1>5. ASSUME NEW q \in Requests, Handler(q) PROVE [CA!Next]_credit
  BY <1>1, <1>2, <1>4, <1>5 DEF Handler, Submit, Claim, Lookup, Admit, Note402, CallModel,
                               ModelReturns, Respond, Die
<1>6. ASSUME NEW r \in Requests, SweepReservation(r) PROVE [CA!Next]_credit
  BY <1>3, <1>6 DEF SweepReservation
<1>7. ASSUME NEW k \in Keys, SweepKey(k) PROVE [CA!Next]_credit
  BY <1>7 DEF SweepKey, Sound, OneOwner, Unfinished
<1> QED
  BY <1>5, <1>6, <1>7 DEF Next, Sweeper, SweepStart, SweepReservationsEnd, SweepReadClock,
                          SweepListKeys, SweepEnd, SweepAborts, Tick, vars

(* The steps of the handlers and of the sweeper move credits only by the    *)
(* account's operations.                                                    *)
THEOREM OnlyOperations == Spec => [][CA!Next]_credit
<1>1. Sound /\ [Next]_vars => [CA!Next]_credit
  BY StepIsOperation
<1> QED
  BY <1>1, SpecSound, PTL DEF Spec

-----------------------------------------------------------------------------
(* The account starts with one completed purchase. *)
LEMMA StartsBalanced == Init => CP!Balanced
<1> SUFFICES ASSUME Init PROVE CP!Balanced
  OBVIOUS
<1>1. PICK bought \in PurchaseSizes :
        /\ account = [available |-> bought, reserved |-> 0]
        /\ purchases = [p \in 1..1 |-> [status |-> "completed", credits |-> bought]]
        /\ ledger = <<CA!Entry("purchase", 1, bought, 0)>>
  BY DEF Init
<1>2. bought \in Nat
  BY PurchaseSizesAssumption
<1>3. reservations = [q \in Requests |-> CA!NoReservation]
  BY DEF Init
<1>4. CP!TypeOK
  <2>1. CA!TypeOK
    BY InitSound DEF Sound, TypeOK
  <2> QED
    BY <2>1 DEF CA!TypeOK, CP!TypeOK, CA!Account, CP!Account, CA!Purchase, CP!Purchase,
                CA!Movement, CP!Movement, CA!MovementKinds, CP!MovementKinds,
                CA!Reservation, CP!Reservation, CA!Terminal, CP!Terminal,
                CA!ReservationIds, CP!ReservationIds, CA!PurchaseIds, CP!PurchaseIds
<1>5. CP!UnsettledIsFree
  BY <1>3 DEF CP!UnsettledIsFree, CA!NoReservation, CP!ReservationIds, Requests
<1>6. CP!LedgerReconciles
  <2> DEFINE entry == CP!Entry("purchase", 1, bought, 0)
  <2>1. entry \in CP!Movement /\ entry.delta_available = bought /\ entry.delta_reserved = 0
    BY <1>2 DEF CP!Entry, CP!Movement, CP!MovementKinds
  <2>2. ledger = Append(<<>>, entry)
    BY <1>1 DEF CA!Entry, CP!Entry
  <2> HIDE DEF entry
  <2>3. <<>> \in Seq(CP!Movement) /\ Len(<<>>) = 0
    OBVIOUS
  <2>4. /\ CP!Total(CP!DeltaAvailable(ledger), Len(ledger))
             = CP!Total(CP!DeltaAvailable(<<>>), Len(<<>>)) + entry.delta_available
        /\ CP!Total(CP!DeltaReserved(ledger), Len(ledger))
             = CP!Total(CP!DeltaReserved(<<>>), Len(<<>>)) + entry.delta_reserved
    BY <2>1, <2>2, <2>3, Assumed, CP!EntryAdds, Zenon
  <2>5. /\ CP!Total(CP!DeltaAvailable(<<>>), 0) = 0
        /\ CP!Total(CP!DeltaReserved(<<>>), 0) = 0
    BY Assumed, CP!TotalOfNone, Zenon
  <2> QED
    BY <1>1, <1>2, <2>1, <2>3, <2>4, <2>5 DEF CP!LedgerReconciles
<1>7. /\ CP!Total(CP!Held(reservations), MaxRequests) = 0
      /\ CP!Total(CP!Charged(reservations), MaxRequests) = 0
  <2>1. /\ \A i \in 1..MaxRequests : CP!Held(reservations)[i] = 0
        /\ \A i \in 1..MaxRequests : CP!Charged(reservations)[i] = 0
    BY <1>3 DEF CP!Held, CP!Charged, CA!NoReservation, CP!ReservationIds, Requests
  <2>2. MaxRequests \in Nat
    BY BoundsAssumption
  <2> QED
    BY <2>1, <2>2, Assumed, CP!TotalOfZeros, Zenon
<1>8. CP!Total(CP!Bought(purchases), 1) = bought
  <2> DEFINE h == CP!Bought(purchases)
             f == [i \in 1..0 |-> 0]
  <2>1. h[1] = bought /\ h \in [1..1 -> Int]
    BY <1>1, <1>2 DEF CP!Bought, CP!PurchaseIds
  <2>2. f \in [1..0 -> Int] /\ 0 \in Nat /\ 0 + 1 = 1 /\ \A i \in 1..0 : h[i] = f[i]
    OBVIOUS
  <2> HIDE DEF h, f
  <2>3. h \in [1..0 + 1 -> Int]
    BY <2>1, <2>2
  <2>4. CP!Total(h, 0 + 1) = CP!Total(f, 0) + h[0 + 1]
    BY <2>2, <2>3, Assumed, CP!TotalOfInsert, Zenon
  <2>5. CP!Total(f, 0) = 0
    BY Assumed, CP!TotalOfNone, Zenon
  <2>6. CP!Total(h, 1) = 0 + h[1]
    BY <2>2, <2>4, <2>5, Zenon
  <2>7. CP!Total(h, 1) = bought
    BY <1>2, <2>1, <2>6
  <2> QED
    BY <2>7 DEF h
<1>9. CP!ReservedIsHeld /\ CP!CreditsConserved
  <2>1. account.available = bought /\ account.reserved = 0
    BY <1>1
  <2> QED
    BY <1>2, <1>7, <1>8, <2>1 DEF CP!ReservedIsHeld, CP!CreditsConserved
<1> QED
  BY <1>4, <1>5, <1>6, <1>9 DEF CP!Balanced

LEMMA StepBalanced == ASSUME Sound, CP!Balanced, [Next]_vars PROVE CP!Balanced'
<1>1. [CA!Next]_credit
  BY StepIsOperation
<1>2. [CP!Next]_(CP!vars)
  BY <1>1 DEF CA!Next, CP!Next, CP!vars, credit, CA!ReservationIds, CP!ReservationIds,
              CA!PurchaseIds, CP!PurchaseIds, CA!Reserve, CP!Reserve, CA!Settle, CP!Settle,
              CA!SettledCredits, CP!SettledCredits, CA!Lesser, CP!Lesser,
              CA!calculateCreditsFromTokens, CP!calculateCreditsFromTokens,
              CA!StartedThousands, CP!StartedThousands, CA!TokensPerCredit, CP!TokensPerCredit,
              CA!Release, CP!Release, CA!Expire, CP!Expire, CA!GiveBack, CP!GiveBack,
              CA!CreatePurchase, CP!CreatePurchase, CA!ApplyPurchase, CP!ApplyPurchase,
              CA!RecordEvent, CP!RecordEvent, CA!Move, CP!Move, CA!Entry, CP!Entry
<1>3. CP!Balanced /\ [CP!Next]_(CP!vars) => CP!Balanced'
  BY Assumed, CP!NextBalanced, Zenon
<1> QED
  BY <1>2, <1>3

(* However requests are repeated and whatever dies, the ledger adds up to   *)
(* the balances, the reserved balance is what the live reservations hold,   *)
(* no credit appears or vanishes, and the sweeper can always give back what *)
(* it finds expired.                                                        *)
THEOREM RequestsConserveCredits ==
  Spec => [](/\ CP!LedgerReconciles /\ CP!ReservedIsHeld
             /\ CP!CreditsConserved /\ CP!RefundCovered)
<1>1. CP!Balanced => CP!RefundCovered
  BY Assumed, CP!BalancedCoversRefunds, Zenon
<1>2. CP!Balanced => /\ CP!LedgerReconciles /\ CP!ReservedIsHeld
                     /\ CP!CreditsConserved /\ CP!RefundCovered
  BY <1>1 DEF CP!Balanced
<1> QED
  BY <1>2, StartsBalanced, StepBalanced, SpecSound, PTL DEF Spec
=============================================================================
