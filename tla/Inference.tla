------------------------------ MODULE Inference ------------------------------
(***************************************************************************)
(* POST /inference from the claim of its Idempotency-Key to its answer,    *)
(* for several concurrent requests of one organization, some of them       *)
(* repeating a key, beside the reconciliation sweeper.  A request lives in *)
(* one of the API replicas and may die at any point; what it committed     *)
(* stays.                                                                  *)
(*                                                                         *)
(* Every withTransaction is one step; that its statements can be taken     *)
(* together is what CreditTx shows.  Request q inserts reservation q.      *)
(* Time is counted in minutes that deadlines have left, and passes in Tick *)
(* only; the clocks of the replicas and of PostgreSQL agree.               *)
(*                                                                         *)
(* Left out: the session and the body's schema (both only reject), audit   *)
(* rows, metrics, and the attempts inside callChatModel.                   *)
(***************************************************************************)
EXTENDS Pricing, Sequences, FiniteSets

CONSTANTS
  MaxRequests,     \* requests the model may make
  Keys,            \* Idempotency-Key headers
  Tokens,          \* bodies, told apart by max_total_tokens, and reported usages
  PurchaseSizes,   \* credits the organization may have bought beforehand
  ReservationTTL,  \* minutes a reservation lives (3 in the code)
  KeyTTL,          \* minutes a key may stay pending (5 in the code)
  MaxStall,        \* minutes between a handler's claim and its reservation
  MaxSweepStall    \* minutes between a sweep's last list of reservations and new Date()

ASSUME BoundsAssumption ==
  /\ {MaxRequests, ReservationTTL, KeyTTL, MaxStall, MaxSweepStall} \subseteq Nat
  /\ Tokens \subseteq Nat \ {0}
ASSUME PurchaseSizesAssumption == PurchaseSizes \subseteq Nat \ {0}

VARIABLES
  account, reservations, purchases, events, ledger,  \* see CreditAccount
  left,      \* minutes until each reservation's expires_at
  keys,      \* idempotency_keys
  keyLeft,   \* minutes until each key's expires_at
  requests,  \* the handlers
  sweep      \* the sweep that holds the advisory lock: how long it has waited to read
             \* the clock, the keys that were overdue then, those of them it has listed

credit == <<account, reservations, purchases, events, ledger>>
vars == <<credit, left, keys, keyLeft, requests, sweep>>

Requests == 1..MaxRequests

CA == INSTANCE CreditAccount WITH
        MaxReservations <- MaxRequests, MaxPurchases <- 1, Events <- {"bought"}

\* "inferenceFailed" and "requestTimeout" are only ever stored, not sent
Ok == {"settled", "unsettled"}
ClientErrors == {"insufficient", "rejected"}
ServerErrors == {"modelError", "inferenceFailed", "internalError", "requestTimeout"}
Responses == Ok \cup ClientErrors \cup ServerErrors
Answers == Responses \cup {"none", "conflict", "inProgress"}

Places == {"idle", "claim", "lookup", "admit", "reserve", "note402", "decrypt", "calling",
           "settle", "release", "respond", "answered", "dead"}

NoKey == [status |-> "free", body |-> 0, response |-> "none", reservation |-> 0]
NoRequest == [pc |-> "idle", key |-> "none", body |-> 0, owner |-> FALSE,
              called |-> FALSE, answer |-> "none"]
NoSweep == [phase |-> "idle", waited |-> 0, overdue |-> {}, stale |-> {}]

Init ==
  /\ \E bought \in PurchaseSizes :
       /\ account = [available |-> bought, reserved |-> 0]
       /\ purchases = [p \in 1..1 |-> [status |-> "completed", credits |-> bought]]
       /\ ledger = <<CA!Entry("purchase", 1, bought, 0)>>
  /\ reservations = [q \in Requests |-> CA!NoReservation]
  /\ events = [e \in {"bought"} |-> "processed"]
  /\ left = [q \in Requests |-> 0]
  /\ keys = [k \in Keys |-> NoKey]
  /\ keyLeft = [k \in Keys |-> 0]
  /\ requests = [q \in Requests |-> NoRequest]
  /\ sweep = NoSweep

-----------------------------------------------------------------------------
At(q, place) == requests[q].pc = place
KeyOf(q) == requests[q].key

Goto(q, place) == requests' = [requests EXCEPT ![q].pc = place]

\* the handler has its answer and goes on to `place` with it
Conclude(q, answer, place) ==
  requests' = [requests EXCEPT ![q].pc = place, ![q].answer = answer]

\* Two plausible bugs: the UPDATE has lost its status guard, and it leaves out
\* the answer.
Exists(k) == keys[k].status # "free"

\* markCompleted and markFailed: UPDATE ... WHERE status = 'pending'
Unfinished(k) == keys[k].status = "pending"

FinishWithoutAnswer(k, status, response, reservation) ==
  keys' = IF Unfinished(k) THEN [keys EXCEPT ![k].status = status] ELSE keys

Finish(k, status, response, reservation) ==
  keys' = IF Unfinished(k)
            THEN [keys EXCEPT ![k].status = status, ![k].response = response,
                              ![k].reservation = reservation]
            ELSE keys

(* An HTTP client sends a request, possibly a repetition of an earlier one *)
(* whose answer it did not wait for.                                       *)
Submit(q, k, body) ==
  /\ At(q, "idle")
  /\ \A earlier \in 1..q - 1 : ~ At(earlier, "idle")
  /\ requests' = [requests EXCEPT ![q] = [NoRequest EXCEPT !.pc = "claim", !.key = k,
                                                           !.body = body]]
  /\ UNCHANGED <<credit, left, keys, keyLeft, sweep>>

(* idempotencyKeys.claim: INSERT ... ON CONFLICT DO NOTHING.  A claim may  *)
(* take effect although its COMMIT is not acknowledged; the handler then   *)
(* ends with an error and nobody owns the key.                             *)
\* A plausible bug: a failed key may be claimed again.
ClaimableAgain(k) == keys[k].status \in {"free", "failed"}

Claimable(k) == keys[k].status = "free"

Claim(q) ==
  /\ At(q, "claim")
  /\ \/ /\ Claimable(KeyOf(q))
        /\ keys' = [keys EXCEPT ![KeyOf(q)] = [NoKey EXCEPT !.status = "pending",
                                                            !.body = requests[q].body]]
        /\ keyLeft' = [keyLeft EXCEPT ![KeyOf(q)] = KeyTTL]
        /\ \/ requests' = [requests EXCEPT ![q].pc = "admit", ![q].owner = TRUE]
           \/ Conclude(q, "internalError", "respond")
     \/ /\ \/ ~ Claimable(KeyOf(q)) /\ Goto(q, "lookup")
           \/ Conclude(q, "internalError", "respond")
        /\ UNCHANGED <<keys, keyLeft>>
  /\ UNCHANGED <<credit, left, sweep>>

(* The loser of the claim reads the winner's row. *)
AnswerFor(k, body) ==
  IF keys[k].body # body THEN "conflict"
  ELSE IF keys[k].status = "pending" THEN "inProgress"
  ELSE keys[k].response

Lookup(q) ==
  /\ At(q, "lookup")
  /\ \E answer \in {AnswerFor(KeyOf(q), requests[q].body), "internalError"} :
       Conclude(q, answer, "respond")
  /\ UNCHANGED <<credit, left, keys, keyLeft, sweep>>

(* Rate limit and model configuration: go on, or answer 400, 404, 429 or a *)
(* server error.                                                           *)
Admit(q) ==
  /\ At(q, "admit")
  /\ \/ Goto(q, "reserve")
     \/ \E answer \in {"rejected", "internalError"} : Conclude(q, answer, "respond")
  /\ UNCHANGED <<credit, left, keys, keyLeft, sweep>>

(* The reserving transaction.  Until it is known to have committed the     *)
(* handler has no reservationId, and its catch block releases nothing.     *)
Reserve(q) ==
  /\ At(q, "reserve")
  /\ \/ /\ CA!Reserve(q, requests[q].body)
        /\ left' = [left EXCEPT ![q] = ReservationTTL]
        /\ Goto(q, "decrypt") \/ Conclude(q, "internalError", "respond")
     \/ /\ \/ /\ account.available < calculateCreditsFromTokens(requests[q].body)
              /\ Conclude(q, "insufficient", "note402")
           \/ Conclude(q, "internalError", "respond")
        /\ UNCHANGED <<credit, left>>
  /\ UNCHANGED <<keys, keyLeft, sweep>>

(* Not enough credits: the balance is read for the message, and the 402 is *)
(* stored in a transaction whose failure is ignored.                       *)
Note402(q) ==
  /\ At(q, "note402")
  /\ \/ /\ Finish(KeyOf(q), "completed", "insufficient", 0)
        /\ Goto(q, "respond")
     \/ /\ Conclude(q, "insufficient", "respond") \/ Conclude(q, "internalError", "respond")
        /\ UNCHANGED keys
  /\ UNCHANGED <<credit, left, keyLeft, sweep>>

(* decryptCredential, then callChatModel begins. *)
CallModel(q) ==
  /\ At(q, "decrypt")
  /\ \/ requests' = [requests EXCEPT ![q].pc = "calling", ![q].called = TRUE]
     \/ Conclude(q, "internalError", "release")
  /\ UNCHANGED <<credit, left, keys, keyLeft, sweep>>

(* The model reports its usage, or the call ends in a ModelCallError or in *)
(* some other exception.                                                   *)
ModelReturns(q) ==
  /\ At(q, "calling")
  /\ \/ Goto(q, "settle")
     \/ \E answer \in {"modelError", "internalError"} : Conclude(q, answer, "release")
  /\ UNCHANGED <<credit, left, keys, keyLeft, sweep>>

(* The settling transaction charges the reservation if it is still there   *)
(* and stores the answer either way.  An error, or a COMMIT that is not    *)
(* acknowledged, sends the handler to its catch block.                     *)
\* A plausible bug: the result of settle is not looked at.
SettledForSure(q) == "settled"

SettledOr(q) == IF reservations[q].status = "reserved" THEN "settled" ELSE "unsettled"

Settle(q) ==
  /\ At(q, "settle")
  /\ \/ /\ \/ \E usage \in Tokens : CA!Settle(q, usage)
           \/ reservations[q].status # "reserved" /\ UNCHANGED credit
        /\ Finish(KeyOf(q), "completed", SettledOr(q), q)
        /\ Conclude(q, SettledOr(q), "respond") \/ Conclude(q, "internalError", "release")
     \/ /\ Conclude(q, "internalError", "release")
        /\ UNCHANGED <<credit, keys>>
  /\ UNCHANGED <<left, keyLeft, sweep>>

(* The catch block: release what is still held and store the failure; an   *)
(* error of this transaction is swallowed.                                 *)
Stored(answer) == IF answer = "modelError" THEN "modelError" ELSE "inferenceFailed"

Release(q) ==
  /\ At(q, "release")
  /\ \/ /\ \/ CA!Release(q)
           \/ reservations[q].status # "reserved" /\ UNCHANGED credit
        /\ Finish(KeyOf(q), "failed", Stored(requests[q].answer), 0)
     \/ UNCHANGED <<credit, keys>>
  /\ Goto(q, "respond")
  /\ UNCHANGED <<left, keyLeft, sweep>>

(* res.json.  The owner of a key first stores the answer in a transaction  *)
(* of its own whose failure is logged only; then the answer is sent, and   *)
(* may find nobody there.                                                  *)
Respond(q) ==
  LET answer == requests[q].answer IN
  /\ At(q, "respond")
  /\ \/ /\ requests[q].owner
        /\ IF answer \in ServerErrors
             THEN Finish(KeyOf(q), "failed", answer, 0)
             ELSE Finish(KeyOf(q), "completed", answer,
                         IF requests[q].called THEN q ELSE 0)
     \/ UNCHANGED keys
  /\ Goto(q, "answered") \/ Goto(q, "dead")
  /\ UNCHANGED <<credit, left, keyLeft, sweep>>

(* The replica is killed, or the handler hangs for good. *)
Die(q) ==
  /\ requests[q].pc \notin {"idle", "answered", "dead"}
  /\ Goto(q, "dead")
  /\ UNCHANGED <<credit, left, keys, keyLeft, sweep>>

-----------------------------------------------------------------------------
(* A minute passes.  MaxStall bounds how long a living handler has been    *)
(* under way when it reserves, MaxSweepStall how long a sweep waits before *)
(* it reads the clock; nothing bounds the model call.                      *)
Unreserved(q) == requests[q].owner /\ requests[q].pc \in {"admit", "reserve"}

Tick ==
  /\ \A q \in Requests : Unreserved(q) => KeyTTL - keyLeft[KeyOf(q)] < MaxStall
  /\ sweep.phase = "clock" => sweep.waited < MaxSweepStall
  /\ \E q \in Requests : left[q] > 0
     \/ \E k \in Keys : keyLeft[k] > 0
  /\ left' = [q \in Requests |-> IF left[q] > 0 THEN left[q] - 1 ELSE 0]
  /\ keyLeft' = [k \in Keys |-> IF keyLeft[k] > 0 THEN keyLeft[k] - 1 ELSE 0]
  /\ sweep' = IF sweep.phase = "clock" THEN [sweep EXCEPT !.waited = @ + 1] ELSE sweep
  /\ UNCHANGED <<credit, keys, requests>>

(* A sweep: pg_try_advisory_lock lets one replica in at a time. *)
SweepStart ==
  /\ sweep.phase = "idle"
  /\ sweep' = [NoSweep EXCEPT !.phase = "reservations"]
  /\ UNCHANGED <<credit, left, keys, keyLeft, requests>>

\* A plausible bug: the sweeper only clears up after handlers that died.
Abandoned(r) == reservations[r].status = "reserved" /\ left[r] = 0 /\ At(r, "dead")

Expired(r) == reservations[r].status = "reserved" /\ left[r] = 0

SweepReservation(r) ==
  /\ sweep.phase = "reservations"
  /\ Expired(r)
  /\ CA!Expire(r)
  /\ UNCHANGED <<left, keys, keyLeft, requests, sweep>>

\* A plausible bug: one batch of reservations is expired, and not the next.
OneBatch == TRUE

NoneExpired == \A r \in Requests : ~ Expired(r)

(* The list of expired reservations came back empty. *)
SweepReservationsEnd ==
  /\ sweep.phase = "reservations"
  /\ NoneExpired
  /\ sweep' = [sweep EXCEPT !.phase = "clock"]
  /\ UNCHANGED <<credit, left, keys, keyLeft, requests>>

(* new Date(): a key is listed only if it was overdue by now. *)
SweepReadClock ==
  /\ sweep.phase = "clock"
  /\ sweep' = [NoSweep EXCEPT !.phase = "list",
                              !.overdue = {k \in Keys : keys[k].status # "free" /\ keyLeft[k] = 0}]
  /\ UNCHANGED <<credit, left, keys, keyLeft, requests>>

(* The keys that are stale are listed, again after each batch. *)
\* A plausible bug: only keys linked to a reservation are reaped.
StaleAndLinked(k) == k \in sweep.overdue /\ Unfinished(k) /\ keys[k].reservation # 0

Stale(k) == k \in sweep.overdue /\ Unfinished(k)

SweepListKeys ==
  /\ sweep.phase = "list"
  /\ \E k \in Keys : Stale(k)
  /\ sweep' = [sweep EXCEPT !.phase = "keys", !.stale = {k \in Keys : Stale(k)}]
  /\ UNCHANGED <<credit, left, keys, keyLeft, requests>>

(* One transaction per listed key.  The release before markFailed needs a  *)
(* reservation_id in the listed row.                                       *)
SweepKey(k) ==
  /\ sweep.phase = "keys"
  /\ k \in sweep.stale
  /\ IF Unfinished(k) /\ keys[k].reservation # 0
       THEN CA!Release(keys[k].reservation)
       ELSE UNCHANGED credit
  /\ Finish(k, "failed", "requestTimeout", 0)
  /\ sweep' = [sweep EXCEPT !.stale = @ \ {k},
                            !.phase = IF sweep.stale = {k} THEN "list" ELSE "keys"]
  /\ UNCHANGED <<left, keyLeft, requests>>

SweepEnd ==
  /\ sweep.phase = "list"
  /\ \A k \in Keys : ~ Stale(k)
  /\ sweep' = NoSweep
  /\ UNCHANGED <<credit, left, keys, keyLeft, requests>>

(* An exception ends the sweep, or the connection that holds the lock goes *)
(* away with its process.                                                  *)
SweepAborts ==
  /\ sweep.phase # "idle"
  /\ sweep' = NoSweep
  /\ UNCHANGED <<credit, left, keys, keyLeft, requests>>

Handler(q) ==
  \/ \E k \in Keys, body \in Tokens : Submit(q, k, body)
  \/ Claim(q) \/ Lookup(q) \/ Admit(q) \/ Reserve(q) \/ Note402(q)
  \/ CallModel(q) \/ ModelReturns(q) \/ Settle(q) \/ Release(q)
  \/ Respond(q) \/ Die(q)

Sweeper ==
  \/ SweepStart \/ SweepReservationsEnd \/ SweepReadClock \/ SweepListKeys
  \/ SweepEnd \/ SweepAborts
  \/ \E r \in Requests : SweepReservation(r)
  \/ \E k \in Keys : SweepKey(k)

Next == (\E q \in Requests : Handler(q)) \/ Sweeper \/ Tick

Spec == Init /\ [][Next]_vars

(* Time passes, the timer starts sweeps for ever, and a step of the sweeper *)
(* that is reached again and again succeeds.  Handlers, clients and the     *)
(* model owe nothing.                                                       *)
FairSpec ==
  /\ Spec
  /\ WF_vars(Tick)
  /\ WF_vars(SweepStart) /\ SF_vars(SweepReservationsEnd) /\ SF_vars(SweepReadClock)
  /\ SF_vars(SweepListKeys) /\ WF_vars(SweepEnd)
  /\ \A r \in Requests : SF_vars(SweepReservation(r))
  /\ \A k \in Keys : SF_vars(SweepKey(k))

-----------------------------------------------------------------------------
KeyEnded(k) == keys[k].status \in {"completed", "failed"}

TypeOK ==
  /\ CA!TypeOK
  /\ left \in [Requests -> 0..ReservationTTL]
  /\ keyLeft \in [Keys -> 0..KeyTTL]
  /\ keys \in [Keys -> [status : {"free", "pending", "completed", "failed"},
                        body : Tokens \cup {0}, response : Responses \cup {"none"},
                        reservation : Requests \cup {0}]]
  /\ \A k \in Keys : KeyEnded(k) <=> keys[k].response # "none"
  /\ requests \in [Requests -> [pc : Places, key : Keys \cup {"none"}, body : Tokens \cup {0},
                                owner : BOOLEAN, called : BOOLEAN, answer : Answers]]
  /\ sweep \in [phase : {"idle", "reservations", "clock", "list", "keys"},
                waited : 0..MaxSweepStall, overdue : SUBSET Keys, stale : SUBSET Keys]

(* assignment.md 4.2: duplicates of a request, whenever they come, cause   *)
(* neither a second model invocation nor a second reservation, and the     *)
(* model is only ever called with credits held.                            *)
OneCallPerKey ==
  \A p, q \in Requests :
    /\ requests[p].called => reservations[p].status # "none"
    /\ p # q /\ KeyOf(p) = KeyOf(q) => ~ requests[p].called \/ ~ requests[q].called
    /\ p # q /\ KeyOf(p) = KeyOf(q) /\ reservations[p].status # "none"
         => reservations[q].status = "none"

(* What a client is told about its credits is so, for the request it sent  *)
(* or for the one a replay repeats: "settled" was charged, "unsettled" and *)
(* a model error were not, and a 402 held nothing.                         *)
AnswerIsTrue ==
  \A q \in Requests :
    At(q, "answered") =>
      LET answer == requests[q].answer
          mine == {p \in Requests : KeyOf(p) = KeyOf(q) /\ reservations[p].status # "none"}
      IN
      /\ answer = "settled" => \E p \in mine : reservations[p].status = "settled"
      /\ answer \in {"unsettled", "modelError"}
           => \A p \in mine : reservations[p].status # "settled"
      /\ answer \in {"insufficient", "rejected"} => mine = {}

(* Who was charged can fetch the answer that was paid for: the settlement  *)
(* and the stored 200 are one transaction, and neither a handler's catch   *)
(* block nor the sweeper has stored anything else.                         *)
ChargeIsReplayed ==
  \A q \in Requests :
    reservations[q].status = "settled" =>
      /\ keys[KeyOf(q)].status = "completed"
      /\ keys[KeyOf(q)].response = "settled"
      /\ keys[KeyOf(q)].reservation = q

(* A key that has its answer keeps it. *)
StoredAnswerIsFinal ==
  [][\A k \in Keys : KeyEnded(k) => keys'[k] = keys[k]]_vars

(* Whatever dies, held credits do not stay held ... *)
HoldsEnd ==
  \A r \in Requests : reservations[r].status = "reserved" ~> reservations[r].status # "reserved"

(* ... and repetitions of a request are not answered "in progress" for ever. *)
KeysEnd == \A k \in Keys : keys[k].status = "pending" ~> KeyEnded(k)
=============================================================================
