# CraftifAI in TLA+

A verification project for the CraftifAI gateway: an Express API that sells credits to
organizations and spends them on calls to a language model. The modules here are models of the
code under `src/`; TLC checks them on small instances, and the TLA+ proof system (TLAPS) proves their
safety for every instance. `PROJECT.json` maps each definition to the
lines it stands for.

- [The system](#the-system) · [Hard behaviours](#hard-behaviours) · [Modules](#modules)
- [What is checked](#what-is-checked) · [Where code and documents disagree](#where-code-and-documents-disagree)
- [What is proved](#what-is-proved) · [What is not modelled](#what-is-not-modelled) · [Plan](#plan)

To run a check: `tlc -config MCInference.cfg MCInference.tla`; a proof: `tlapm Inference_proofs.tla`.

## The system

Several replicas of `apps/api` share one PostgreSQL database (READ COMMITTED) and one Redis. No
replica keeps state of its own that matters across requests, except while it shuts down, so the
components talk through rows and keys, and every interleaving of their transactions and commands is
possible. `apps/web` reads their lists page by page.

| Component | State | Operations | Talks to |
|---|---|---|---|
| Credit service, `services/credits.ts` | `org_credit_accounts`, `credit_reservations`, `credit_ledger`, `purchases`, `webhook_events` | `reserve`, `settle`, `release`, `expire`, `createPurchase`, `applyPurchase` | called inside the caller's transaction by the inference route, the purchases route, the webhook and the sweeper |
| Transactions, `packages/db/src/transaction.ts`, `dal.ts` | connections of the pool, row locks | `withTransaction`, the guarded statements | PostgreSQL |
| Pricing, `packages/shared/src/pricing.ts` | none | `calculateCreditsFromTokens` | credit service |
| Inference route, `routes/inference.ts` | the handler's local variables | reserve, call the model, settle or release | credit service, idempotency keys, model |
| Idempotency middleware, `middleware/idempotency.ts` | `idempotency_keys` | claim, look-up, replay, terminal record | wraps the inference and purchases routes |
| Sweeper, `services/sweeper.ts` | advisory lock, its batch | expire reservations, reap keys | credit service, idempotency keys; a timer in every replica |
| Sessions, `auth.ts` | `sessions`; Redis `session:<hash>`, `session_revoked:<hash>`, `user_sessions:<user>` | log in, authenticate, log out, evict | every request; members routes |
| Members and invitations, `routes/members.ts` | `memberships`, `invitations`, the row of the organization as a lock | invite, accept, role, status, remove | evictions of the session cache |
| Billing webhook, `services/billing.ts`, `routes/billing.ts` | none | verify, apply | credit service |
| Rate limiter, `services/rateLimit.ts` | Redis counters | `hit`: INCR, EXPIRE, TTL | inference route |
| Model client, `services/modelClient.ts`, `ssrf.ts` | attempt and hop counters of a call | call with retries, time-outs, redirects; check of each address | the organization's endpoint |
| Start and shutdown, `index.ts`, `inflight.ts` | the in-flight counter, the sweeper's timer, the pool | `closeGracefully` for each signal | everything |
| Bootstrap, `bootstrap.ts` | none | the first administrator, once | members |
| Lists, `routes/*.ts`, `dal.ts` | none; the tables | six keyset pages | web application |
| Web pages, `apps/web/src/pages` | the rows shown and a cursor | load, load more, reload, remove | lists, members |

What makes each correct:

- *credits*: balances agree with the ledger and the open holds; nothing is charged, refunded or
  credited twice; a hold can always be closed;
- *transactions*: concurrent ones have the effect of some order of atomic operations, do not
  deadlock, and what callers are told happened;
- *inference and idempotency*: one model call and one charge per key, answers that agree with the
  account, a paid answer that can be fetched again;
- *sweeper*: whatever dies, holds and pending keys end;
- *sessions*: a revocation is noticed, at once or within the cache window;
- *members, bootstrap*: an organization keeps an active administrator, an invitation makes one
  member, bootstrapping twice creates one administrator, and no two requests wait for each other;
- *rate limiter*: a counter runs out;
- *model client*: only permitted addresses, a bounded number of connections, and no repetition of a
  call that the model has served;
- *shutdown*: the counter is true, and nothing that somebody waits for is cut off;
- *lists*: pages neither overlap nor leave a gap.

## Hard behaviours

`PROJECT.json` lists them as hazards, each at its line. In short:

1. Handler and sweeper end the same reservation; two handlers race for the last credit; a webhook
   arrives twice. The code relies on guarded updates re-evaluated after a wait for a row lock.
2. A process dies, a COMMIT is not acknowledged or a transaction fails between the claim of a key,
   the reservation, the model call, the settlement and the answer.
3. A model call outlives its reservation (180 s) or its key (300 s), and the sweeper acts meanwhile.
4. A session is read from PostgreSQL while it is revoked, and reaches the cache after its eviction.
5. A request that failed is repeated with its key, on another replica, with the same or another body.
6. Two administrators remove each other; an invitation is accepted while it is replaced or runs out.
7. INCR and EXPIRE are two commands; a call is repeated after a time-out; a name resolves to another
   address; a process is signalled twice, or killed, with requests and a sweep under way.
8. Rows of a list have equal times, commit out of order and are deleted between two pages.

## Modules

```
Pricing    Totals
    \      /    \
  CreditAccount  Totals_proofs
   |   |     \      |
   |   |   CreditAccount_proofs
   |  CreditTx -- CreditTx_proofs      (CA == INSTANCE CreditAccount, refinement)
  Inference --- Inference_proofs       (CA == INSTANCE CreditAccount, its operations are used)

Organization
     |
Membership -- Membership_proofs        (refinement)

SessionCache -- SessionCache_proofs    Lists -- Lists_proofs

          Slots
        /   |   \
Lifecycle RateLimit ModelClient
        \   |   /
         Replica -- Replica_proofs
```

`CreditTx_proofs` and `Inference_proofs` also take `CP == INSTANCE CreditAccount_proofs`: what is proved
of the account carries over to both along the refinement.

`MC<module>` extends a module with values for its constants; each `.cfg` is one run. Operators
whose comment says "bug" are deliberate mistakes beside the definition they mutate. They are not
part of any specification; `PROJECT.json` names the property that catches each.

**Pricing** is `calculateCreditsFromTokens`: one credit for every started thousand tokens and at
least one, and the lesser of hold and usage that `settle` charges.

**Totals** is the sum of a column of numbered rows, as a recursive function.

**CreditAccount** is what the credit service promises: the five tables as variables and one action
per operation of `credits.ts`, each an atomic transaction. `Move` is the update of the account
together with its ledger row. Guards are the code's (`available >= n`, `status = 'reserved'`,
`reserved >= held`, `ON CONFLICT DO NOTHING` of the event); where the code throws, the rollback
leaves no step. Identifiers are numbers so that a table is a function on an interval.

**CreditTx** runs the same operations as the statements `dal.ts` sends. A connection is a state
machine (`tx`) with private row versions (`writes`) and row locks (`locks`). A statement on a row
that another transaction wrote waits, and then sees what was committed. `Commit` may lose its
acknowledgement, `Fail` rolls back at any statement. `CA!Spec` is its refinement: the committed rows
are the variables of CreditAccount, so every commit must be one of its operations.

**Inference** is the handler of `POST /inference` with the middleware around it, several requests
at a time, and the sweeper. Its places are the awaits of the code: `claim`, `lookup`, `admit` (the
rate limit, the configuration and the body), `reserve`, `note402`, `decrypt`, `calling`, `settle`,
`release`, `respond`. Every transaction may fail, or commit and be reported as failed; the handler
then goes where the `catch` takes it. `Die` ends it anywhere. The sweeper has the awaits of
`sweeper.ts`: it expires one reservation a step until a list of them comes back empty, then reads its clock,
then lists the keys that were overdue by that clock and ends one a step, and it may abort between any
two. Time, and the handlers, go on between the three. Minutes pass in `Tick`, counted down to the deadlines
of reservations and keys.

**SessionCache** is one session. `handlers` authenticate requests command by command
(`EXISTS`, `GET`, two `SELECT`s, `EXISTS`, `SETEX`); `Actors` change the membership or log out and
then evict, command by command, and any Redis command may be rejected. Two history variables count ticks:
`age` since the session was alive and since each role was the member's, in PostgreSQL, and `evicted` since
the first revocation was answered whose Redis commands all succeeded.

**Organization** is what `members.ts`, `registerUser` and the bootstrap command promise together: the tables of
one organization, from its founding on, and one action for each transaction that commits: change of role or
status, removal, invitation, acceptance by somebody signed in or with a new account, registration, bootstrap.
Its guards are conditions at the moment of the COMMIT: a change leaves an active administrator, what an
invitation replaces has run out, who becomes a member is none.

**Membership** has the same tables and gets there statement by statement. A step is a statement that reads
what others may change or waits for a lock; the locks are those of PostgreSQL (`FOR UPDATE` of the
organization, the share a foreign key takes of it, entries of unique indexes). `WaitsFor` says which open
transactions the next statement of a request waits for, and a statement that waits for none is `Ready`.
`OrganizationSpec` is its refinement: the tables are the same variables, and every commit must be an
action of Organization. A transaction keeps `now()` of its BEGIN (`requests[r].over`), while the look-up of
`findByTokenHash` is judged by the clock of the process. `Fail` rolls back anywhere.

**Replica** is a process that serves `POST /inference`, composed of three modules over the same
`Requests`. **Lifecycle** has its connections, the count of `inflight.ts`, the sweeper's timer and one
`closeGracefully` for each signal, which waits for the connections whichever signal it is; **RateLimit** the counters, one Redis command a step, which may be
lost before or after it took effect; **ModelClient** the calls, one await a step, with `ssrf.ts` on
addresses that are words of `AddressBits` bits (`&`, `<<` and `~` bit by bit, a shift modulo the width).
A request passes the limiter, calls the model and is answered; when the
process ends, so do its handlers, and only the counters stay. What a request writes to PostgreSQL is
Inference's matter.

**Lists** is a table that transactions write, the six queries (`Newest`, `Oldest`: `ORDER BY` and the
comparison with the cursor; `Ordered` is the enumeration of a set in an order), the handlers that trim a page and encode its cursor, and the page of the
web application with its requests under way. `created_at` is the time of the BEGIN, so rows commit in
another order than theirs; the cursor is a date in microseconds, of which JavaScript knows only
milliseconds.

## What is checked

| Run | Question | Bounds | Answer |
|---|---|---|---|
| `account` | Does any order of credit operations keep the books? | 2 reservations, 2 purchases, 2 events; token counts 0, 1000, 1001, 2500 | holds |
| `tx` | Do concurrent transactions implement CreditAccount, free of deadlock and lies? | 2 connections, 2 reservations, 1 purchase, 2 events | holds |
| `tx_live` | Does every transaction end? | 2 connections | holds |
| `tx_duplicate` | Is a second event for a completed purchase harmless? | 2 connections, 2 events | **no** |
| `inference` | One call and one charge per key, true and stable answers? | 2 requests with one key or two, 2 bodies, 2 credits, stalls of a minute | holds |
| `inference_live` | Do holds and keys end without the handlers' help? | 2 requests, 1 key, stalls longer than both deadlines | holds |
| `session` | How stale can an accepted session be? | 2 handlers, 2 actors, 2 changes of 6 kinds | below the window plus one load |
| `session_tombstone` | What is a revocation worth among revocations? | 2 handlers, 2 actors, 3 changes | nobody is let in for a window |
| `session_immediate` | Is a revocation immediate when Redis is healthy? | 1 handler, 1 actor | **no** |
| `members` | Do concurrent changes of members implement Organization, leave an administrator, and refuse rightly? | 2 requests, 2 people, 2 invitations | holds |
| `replica` | Is a process right about addresses, retries, counters and its shutdown? | 2 requests, 1 call at a time, 2 signals, addresses of 3 bits | holds |
| `lists` | Do pages show every row once? | 3 rows, pages of 1, 2 writers, 2 requests of the page | holds |

*Why the bounds are enough.* The rules of credits concern one reservation, one purchase or the pair
(two of each let one operation disturb another's books). The token counts cover the least charge, a
full credit, the first token of the next, and usage above and below the hold. Two requests with one
key are the owner and a repetition at every point of the owner's life; a third adds another
repetition, which only reads. Two keys meet only in the account. The deadlines keep the order of the
code (3 minutes before 5; `inference` has 1 and 3, `inference_live` 1 and 2). Two handlers of a session are
one that fills and one that reads, two actors are two evictions that interleave, and a window of two
ticks tells "just evicted", "half run out" and "gone" apart. Two administrators are the last one and
the last but one, and two requests are the pair whose guards race; two invitations are one and the one
that replaces it. Calls of the model share nothing, so `MaxCalls = 1` loses no interleaving of two
calls; a retry and two redirects make every way a call goes on. Two signals are the one that is handled
and the one that disturbs it. Three bits have prefixes of none, some and all of them, and the check of
the masks covers every base, prefix and address; the ranges overlap, so that one private address is
blocked, one allowed, and one blocked although it is in an allowed range. A limit of one hit of the
organization and of the user is exceeded by the second request, the user's when the windows differ. Three rows in pages of one are a first page, one that
starts and ends with a cursor, and a last; two times and two micros in a milli give rows that are
equal in time, in milliseconds only, and not at all.

*Named bounds.* `MaxReservations`, `MaxPurchases`, `MaxRequests`, `MaxChanges` and `MaxInvitations` cap
inserts, `MaxSignals` signals, `MaxTime` the clock of Lists and `MaxShown` what its page goes on to load;
`DrainTicks` and `RateWindow` stand for 10 s and 60 s. A counter of RateLimit stops one above its limit.
`MaxStall` caps the time a live handler may take between two awaits: in Inference from its claim to
its reservation, in SessionCache from the read of the session to the fill. `MaxSweepStall` caps the time from
a sweep's last list of reservations (`sweeper.ts:48`) to its clock (`sweeper.ts:54`). Nothing in the code
enforces them (there is no `statement_timeout`). The runs say what they assume: `inference` has one minute of
each and a key that outlives a reservation by both, because `ChargeIsReplayed` holds only then (`Prompt`,
below; with a key of 2 minutes TLC refutes it); `inference_live` has 3 of each, more than either deadline,
because there nothing may depend on them. `session_tombstone` has a load that takes up to one tick of a window
of two, so that a copy can outlive the tombstone.

*Deadlock* is not checked where the system may stop: the requests, purchases and events of a finite
instance run out, and the rows of a list. SessionCache, Membership and Replica never stop and are
checked; in Membership a failure is always possible, so its `NoLockCycle` asks for more: who waits for whom.

*Fairness.* `CreditTx!FairSpec` has strong fairness of each connection's next statement: PostgreSQL
queues the waiters of a row, so a waiting statement is not overtaken for ever, and Node runs every
pending continuation. `Fail` and the outcome of `Commit` have none. `Inference!FairSpec` has weak
fairness of the clock and of the sweep's start and end (`setInterval` in every replica) and strong
fairness of the sweeper's transactions: a transaction tried in sweep after sweep succeeds at some point.
Handlers, clients and the model owe nothing, which is the point: holds and keys end without them.
The retry of an aborted sweep starts from the oldest row (`ORDER BY expires_at`); that one row cannot
make every sweep abort is what `ClosingNeverThrows` and `RefundCovered` are for.

*The deeper properties.*

- `ImplementsCreditAccount`: statements of concurrent transactions never mix.
- `NoLockCycle`: rows are locked in one order (event, purchase or reservation, account; of Membership:
  organization, pending entry, account, membership), and nobody waits for what an ended request has left.
- `ImplementsOrganization`: what a change, an invitation or an acceptance read several statements before its
  COMMIT is still so, and a transaction that fails anywhere leaves nothing.
- `OutcomeIsTrue` and `AnswerIsTrue`: "settled", "already terminal", "402", "model error" and a
  replayed answer are what the rows say, with lost acknowledgements too.
- `OneCallPerKey`, `ChargeIsReplayed`, `StoredAnswerIsFinal`: retries are safe.
- `ClosedOnce`, `CreditedOnce`: the books record every end once.
- `BoundedStaleness`: nobody is let in with what was last true a window and a load ago, whatever is evicted or
  fails to be.
- `RevocationHoldsForAWindow`: copy and tombstone live equally long, so a load that read the session before its
  revocation and fills the cache after leaves a copy that outlives the tombstone by as much as it came late.
  Until then the tombstone keeps everybody out, and after that copy nothing lets anybody in.
- `AdministratorRemains`, `RefusalIsTrue`: the count of administrators is still true when the change
  commits, and when it is refused. Only the lock of the organization makes it so, since the count and
  the update are two statements, and an acceptance, which may make an administrator, waits for it too.
- `InvitationUsedOnce`: `made` records the membership of every acceptance.
- `BootstrapOnce`: commands that run together may all find no administrator; the unique address decides.
- `CountersRunOut`: whatever fails, a counter without expiry has lost its EXPIRE to a failure; the
  premise names that failure, because the code never repairs it (below).
- `OnlyPermittedAddresses`, `ServedOnce`, `CallsAreBounded`: what is checked is what is called, for the
  endpoint, a retry and a redirect; an answer that has begun is not asked for again; each connection uses
  up retries or hops.
- `InflightIsTrue`, `NothingIsCut`: each `closeGracefully` waits for the connections, also one that finds the
  server closed, so an exit ends no request that somebody waits for, after two signals either. A sweep is
  waited for by `pool.end`, which a second signal cuts short (below).
- `NothingSkipped`, `NoRepeats`: a whole traversal shows what was there when it began. The exceptions are
  in the premises as history variables: a page appended below a newer top, and more asked for twice.

## Where code and documents disagree

Each is a run that TLC refutes, with the sentence it contradicts quoted in `PROJECT.json`.

1. `tx_duplicate`. `purchases.markCompleted` dereferences the row an UPDATE did not return, so a second
   event for a completed purchase is an error on every redelivery; the branch for it in `credits.ts` is
   dead. Credits stay right.
2. `session_immediate`. A role change or a joined organization deletes the set of the user's session
   hashes; the session is cached again without being listed, and a later suspension finds nothing to
   evict. No failure and no race is needed.

Seen on the way, without a run of their own:

- *Inference.* A call that outlives its key is answered 200 while its replay is the sweeper's 504
  (`sweeper.ts:54-87`; docs/assignment.md:163-164 wants the original answer). So is the replay of a call that was
  charged, when a sweep or its handler stalls: a sweep that finds no expired reservation (`sweeper.ts:48`) and reads
  its clock late (`sweeper.ts:54`) may end a key whose reservation has run out meanwhile and is still settled;
  the reservation runs out two minutes before the key, less what the handler took to reserve. A key ends in a
  transaction of its own, with the hold left to the sweeper (`idempotency.ts:123-173`,
  `inference.ts:213-224`; decisions/003:21 has them in one). A call longer than its reservation
  is answered 200 with nothing settled (`inference.ts:177-187`), while README.md:285-286 counts one settlement for
  each 200. The release in the sweeper's second loop (`sweeper.ts:65-67`) is dead, since pending keys name no
  reservation, while ARCHITECTURE.md:156 describes it.
- *Sessions.* A rejected Redis command fails the request (`auth.ts:155`, 158, 176) and is no cache miss,
  as ARCHITECTURE.md:144 has it. A load in flight refills the cache for a full window after the
  revocation, so that the 60 seconds of ARCHITECTURE.md:127 are 60 plus the load. The tombstone does not close
  this: it lives the same 60 seconds as the copy (`auth.ts:84`, 104, 176-180), and a copy filled after the
  eviction outlives it, so a revoked session is refused for 60 seconds and may then be let in for as long as the
  fill was late. For that long even a revocation without the failures of the second finding is not
  "immediate" (README.md:294).
- *Members.* Somebody with an account but without an active membership is told to sign in and then accept
  (`members.ts:137-142`), which needs an active membership (`auth.ts:197-200`). Somebody may become a member
  between the check of an invitation and its insertion (`members.ts:259-263`): the invitation is made and
  cannot be accepted while they are one, as `Invite` and `BecomeMember` of Organization have it.
- *Model client.* Rejections (429, 401, 403 and other 4xx) and spent redirects are retried, since their
  errors do not note that headers arrived (`modelClient.ts:304-307`; docs/known-traps.md:138-139).
  All attempts together may take longer than a reservation lives.
- *Rate limiter.* A failure between INCR and EXPIRE leaves a counter that never runs out
  (`rateLimit.ts:21-23`): the `lost` of RateLimit.
- *Shutdown.* With one signal the drain has nothing to wait for: `server.close` has called back when no
  connection was left (`index.ts:57-66`), however long that took, while OPERATIONS.md:123 says up
  to 10 s. With two it is the same, since the second `server.close` calls back when no connection is left, too:
  the loop and `closeAllConnections` never have anything to do. What a second signal does is that its `pool.end`
  rejects and ends the process, with a sweep that the first waits for. A handler whose client has gone is not
  counted and ends with the process.
- *Web pages.* "Load more" can be pressed again before the answer (rows twice); a purchase that reloads a
  list races with it (a gap, `Credits.tsx:183`); a page that was read before a removal shows the member
  again. A row that commits late with an earlier time is missed by a traversal past it.

## What is proved

Every invariant, every action property and both refinements of the passing runs, for every value of the
constants that satisfies the assumptions stated beside them. These ask no more than the code grants:
bounds and time-outs are naturals, requests, people and row identifiers finitely many, purchases of at
least one credit, ranges at most as long as an address, which has at least one bit; limits, windows and
page sizes are positive. Two theorems have a hypothesis of their own, named below. In each table the left
column is the theorem.

In every module the invariants of the runs are not inductive by themselves. What makes them so is a
conjunction of named parts, shown to hold initially and to be kept by every action; what these state of
the system was tried with TLC on the runs' instances before it was proved.

### The account, `CreditAccount_proofs` and `Totals_proofs`

| Theorem | States |
|---|---|
| `TypeCorrect` | no balance is ever negative; every row keeps its type |
| `LedgerAlwaysReconciles` | balances are the sums of the ledger |
| `ReservedIsAlwaysHeld` | the reserved balance is what open reservations hold |
| `CreditsAlwaysConserved` | bought = available + reserved + charged |
| `RefundAlwaysCovered` | the guard `reserved >= held` never refuses an open reservation |
| `AlwaysClosedOnce` | a reservation that is over has one closing ledger row of its kind |
| `AlwaysCreditedOnce` | a purchase is credited by at most one ledger row, once it is completed |
| `TerminalRowsAreFinal` | no step changes a reservation that is over (`TerminalIsFinal`) |
| `PriceIsLeast` | the price of tokens is the least number of credits that pays for them, and grows with them |

The inductive invariant is `Balanced`: the type invariant, the three sums, and
`UnsettledIsFree` (a reservation that is not settled has no charge). The sums alone are not inductive:
a settlement overwrites `settled_credits`, so the sum of charges grows by the right amount only if it
was zero before. `Balanced` is shown action by action; each case rests on `TotalOfUpdate` of
`Totals_proofs` (one changed row changes the sum by the difference) and `MoveReconciles` (an appended
ledger row changes the ledger's sums by its deltas). `RefundCovered` is not inductive either; it
follows from `ReservedIsHeld`, since a row is at most the sum of a column of naturals
(`TotalBoundsRow`). `ClosedOnce` and `CreditedOnce` are inductive with `TypeOK`: what
closes a reservation or credits a purchase finds it open, so no earlier row can have. `PriceIsLeast` is of
`pricing.ts` alone: `Math.ceil` of a quotient as the least whole number above it.

`Totals_proofs` shows that the recursive sum exists and computes partial sums, by taking a least
counterexample, since the library's induction theorems take an operator as a parameter.

### Transactions, `CreditTx_proofs`

| Theorem | States |
|---|---|
| `TransactionsImplementCreditAccount` | the committed rows follow CreditAccount: `Spec => CA!Spec` |
| `TypeCorrect` | connections, versions and locks keep their types; who has no transaction holds no lock |
| `ClosingDoesNotThrow` | settle, release and expire never throw |
| `AnswersAreTrue` | what a caller is told is what the rows say, then and ever after |
| `NeverDeadlocked` | no set of transactions waits for itself |

`Isolated` says of each connection which statement it has reached, which rows it has written, what it wrote
against the *committed* rows, and that it holds the locks of all it wrote; two transactions never insert the
same identifier. Since only the holder of a row's lock can commit another version of it, what a transaction has
computed from a row is still right when it commits, and the COMMIT is one operation of CreditAccount
(`CommitIsOperation`); no other statement changes a committed row. `Sound` adds `Balanced` of the account,
proved there and carried over along the refinement itself: that is why the guard of the refund is never false
(`RefundFindsItsCredits`) and closing never throws. `AllHonest` is about answers. For deadlock `Orderly` says
what a connection that may wait holds: who waits for an event or a reservation holds nothing, who waits for
a purchase only an event, and who waits for the account no account, so the end of a chain of waiters
does not wait.

### Inference and idempotency, `Inference_proofs`

| Theorem | States |
|---|---|
| `TypeCorrect` | tables, keys, handlers and the sweep keep their types |
| `AlwaysOneCallPerKey` | one reservation and one model call for each key |
| `AnswersAreTrue` | what a client is told of its credits agrees with the account |
| `StoredAnswersAreFinal` | the answer of a key is never written over |
| `ChargesAreReplayed` | who was charged can fetch the answer, assuming `Prompt` |
| `OnlyOperations` | every step leaves the credits alone or is an operation of CreditAccount |
| `RequestsConserveCredits` | hence ledger, holds, conservation and refunds are right here too |

`Sound` relates three things: where a handler is, the status of its reservation (`Holding`) and the key it owns
(`OneOwner`: a claimed key has one owner and stays claimed). `Told` says of every answer, given or stored, what
must be true of the *owner* of its key for the answer to be true for good: "settled" needs a settled
reservation, "model error" needs an owner past the settlement, so that it can no longer become one.
`ChargeIsReplayed` needs time. `Timely` adds that an open reservation runs out before its key, by the longest wait
of a sweep (`Deadlines`), so that a key that the clock of a sweep may find overdue (`Doomed`) has no reservation
that can still be settled (`Listed`); and that the key of a handler that may yet settle is pending (`Waiting`). The
hypothesis is

    Prompt == ReservationTTL > 0 /\ ReservationTTL + MaxStall + MaxSweepStall <= KeyTTL

With the code's 180 and 300 seconds it allows two minutes for both: from claim to reservation, and from a sweep's
last list of reservations to its clock. Equality is enough because both lists compare strictly
(`dal.ts:808-821`, 1094-1105). Nothing in the code enforces it, and the property fails without; the run has
values at the edge of it.

### Sessions, `SessionCache_proofs`

| Theorem | States |
|---|---|
| `TypesHold` | rows, copy, tombstone, requests and changes keep their types |
| `StalenessIsBounded` | what a request is let in with was true less than a window and a stall ago |
| `TombstoneRevokes` | a revocation lets in nobody for a window, nor after a window and the longest load, assuming `OnlyRevocations` |

`Aged` bounds the age of what a request has read by how long it has waited since, and the age of a copy by how
long it has been kept and the wait of the request that filled it. No eviction is needed for it, so none can
break it by failing. `Revoked` is the race of a fill with an eviction. Until the first eviction the session is
listed, so that it is found (`Found`). Ticks later, `Entombed` says: a tombstone is there for the rest of the
window; who is still loading the session has waited at least as long, so that it fills within a load; and the age
of a copy and that time together are at most a window and a load. A request begun later than the eviction is
past the check only when the window is over (`LateIsOut`), and then has a copy of that kind to find or none. Loads
may take any time. The hypothesis is that every operation is a revocation; without it the run
`session_immediate` has the counterexample.

### Members and the bootstrap command, `Membership_proofs`

| Theorem | States |
|---|---|
| `TypeCorrect` | every row, lock and request keeps its type |
| `AdministratorAlwaysRemains` | the organization keeps an active administrator |
| `RefusalAlwaysTrue` | a refusal is given while there is exactly one |
| `BootstrapAlwaysOnce` | bootstrap commands create one administrator at most, and none when there was one |
| `InvitationAlwaysUsedOnce` | an accepted invitation has made one member, the one it was for |
| `NeverLockCycle` | no set of requests waits for itself, nor for what an ended one left locked |
| `SomebodyIsReady` | hence, while requests are under way, one of them has a statement that waits for nobody |
| `MembershipImplements` | what commits is one step of Organization: `Spec => OrganizationSpec` |
| `OnePendingAlways` | nobody has two pending invitations, two links that are both good |

`Administered` is inductive. Its heart is `Guarded`: a change that is about to take away
an active administrator leaves another. The count shows it when the guard runs, and it stays true because
every step that could make it false holds the organization (`Locked`), or shares it (`Shared`), which
excludes the lock. An acceptance adds somebody who had no membership (`Inserting`) and a change names a
member whose row is still there (`NamesMember`), so neither rewrites the other's row. `Founding` says that
before there is an organization nobody is under way to change it. Most steps only move one request;
`MoveKeeps` says once what that has to satisfy. `BootstrapOnce` is shown beside it: an account about to be
created has one creator (`AccountFree`), and who began when there was an administrator finds one,
because one remains. `Used` is for invitations: who has written the pending entry of a person is alone with it, so
the invitation that an acceptance has marked is still the same when it commits; and requests that are
about to invite are never more than the invitations not yet used, so that the bound on them cuts nothing off.

For waiting, `Held` says that only a change past the lock holds the organization, so nothing stays locked
when a request ends. `Level` orders the places of the code by what has been taken there, and `WaitsBehind`
shows that whoever is waited for is at a lower level: who holds the organization, or is about to commit, waits for
nobody, so that an INSERT may wait for it at any place; a membership is inserted last, an account before it, and
who waits to lock the organization or for a pending entry has inserted neither. An invitation that waits for the pending entry at its INSERT
is the one place where the order seems to turn around (it has taken nothing if it did not write the entry; if it
did, `Used` says that nobody else has). Of any requests that wait, one of the lowest level waits for
none of them.

For the refinement, `Guarded` and `NamesMember` give the steps of a change, `Used` and `Inserting` that of an
acceptance, and the free address of `Bootstrapped` those of a registration. An invitation needs one more
invariant, `Serial`: at its COMMIT every pending invitation of the person is among those it saw to be over when
it began, and those are over still. It read them several statements ago; they cannot have been joined by
another one because nobody else has written the entry of that person. `OnePending` is then shown of Organization,
where it takes a few lines, and carried over.

### A process, `Replica_proofs`

| Theorem | States |
|---|---|
| `TypeCorrect` | process, counters and calls keep their types |
| `InflightAlwaysTrue` | the counter of `inflight.ts` is right |
| `NothingIsEverCut` | an exit after signals ends no request somebody waits for, and after one no sweep, however short the drain |
| `CountersAlwaysRunOut` | a counter without expiry has lost it to a failure or is about to get it |
| `OnlyPermittedAlways` | only permitted addresses are called, and no permitted one is refused |
| `AlwaysServedOnce` | a call whose successful answer has begun is not repeated |
| `CallsAlwaysBounded` | every new connection uses up a retry or a hop |

Each part has its own invariant, and `Coupled` ties them: the limiter and the client know only requests that
have a handler. `LifeSound`: the process listens until the first signal, past `server.close` of any
signal no connection is open, and who finds the pool ended is not alone (`Deaf`). `LimitSound`: the request that counted the first hit is the only one
to owe the counter its expiry (`OwedOnce`), because a counter without expiry cannot vanish and be counted from one
again. `CallSound`: the address of a connection is the one that was checked. That checking by masks is
checking by ranges (`MasksCut`) holds for every width and prefix, zero included, where a shift by the whole
width would do nothing.

### Lists, `Lists_proofs`

| Theorem | States |
|---|---|
| `TypeCorrect` | rows, cursors, answers and the page keep their types |
| `NothingIsSkipped` | a page that has loaded all shows all that was there when its top was read |
| `NothingIsRepeated` | no row is shown twice, but for the exceptions in the premise |

A cursor divides the rows into those it leaves behind (`Passed`) and those to come. `Answers` says that a page
is what lies between two cursors, each row once (`IsPage`) and none left out (`Covers`), which stays true of an
answer on its way while rows are written and deleted. `Gapless`: the page shows all its cursor leaves behind;
`Single`: nothing else, and only one request for more is under way, with that very cursor. Underneath are facts about
the order: a cursor decodes to the row's time and identifier (`CursorsRoundTrip`), the pair orders rows strictly
however many have the same time (`InOrderIsStrict`), and a finite set can be enumerated in a strict order, an
element's place being the number of those before it (`SortedExists`). Lists has `Ordered` and `Without` where
the community modules have `SortSeq` and `SelectSeq`, which are defined by recursion and say nothing to the prover.

### Only model-checked

Liveness (`EveryTransactionEnds`, `HoldsEnd`, `KeysEnd`), which the prover cannot do. That nobody waits in a
circle is stated by who waits for whom and not with `ENABLED`, so that it can be proved. The runs that are refuted have nothing to prove. The induction over
data that proofs need (sums, orders) is replaced by least counterexamples and by counting.

## What is not modelled

- Other users' sessions, log-in and passwords; row-level security (PostgreSQL evaluates the policies).
- The advisory lock and batches of the sweeper: one sweep at a time, one row at a time. Safety does
  not need the lock, since every update is guarded; CreditTx has concurrent `expire`s.
- Audit rows: one insert in the transaction they record, with no guard.
- The model configuration: one read and one upsert of a row that is never deleted, and a library that
  encrypts. Its check of the endpoint is that of ModelClient.
- The signature of a billing event, and the idempotency key of `POST /purchases`, whose middleware is
  that of Inference.
- Delays between attempts of a model call, certificates, and the content of answers.
- The spelling of addresses and URLs: `ssrf.ts` is modelled from the number of an address on.
- Other organizations, except that registering founds one. Membership has one whose members come and go.
- Clock skew between replicas and PostgreSQL, except for invitations: deadlines are compared by one clock.
- Redis losing its keys in a restart.
- Forms and routes of the web application, metrics and logs, the mock model, the load harness, deployment.

## Plan

Done: every module above, checked, and proved as far as this prover goes.

Next, to model and to prove with what is there:

1. Several sweepers with the advisory lock: what a sweep that overlaps another may do is bounded by the
   guards of CreditAccount (`OnlyOperations` would have to hold for more than one batch), and the lock that
   stays with a client whose unlock failed is a question of liveness.
2. The idempotency key of `POST /purchases`: a second user of the middleware, whose operation has no hold.
3. That Replica's handlers are those of Inference: today the two share the order of their awaits, but no
   refinement ties `Answer` to `Respond`.
