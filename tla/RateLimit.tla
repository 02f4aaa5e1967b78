----------------------------- MODULE RateLimit -----------------------------
(***************************************************************************)
(* The rate limiter of apps/api/src/services/rateLimit.ts: a counter of    *)
(* the organization and one of each user in Redis, which every replica     *)
(* increments.  A step is one Redis command of one request; any command    *)
(* may be rejected, with or without having taken effect.                   *)
(*                                                                         *)
(* RateWindow ticks are the 60 seconds of WINDOW_SECONDS.                  *)
(***************************************************************************)
EXTENDS Integers, Slots

CONSTANTS
  Org,        \* the counter of the organization
  Users,      \* the counters of its users
  OrgLimit,   \* RATE_LIMIT_ORG_PER_MINUTE
  UserLimit,  \* RATE_LIMIT_USER_PER_MINUTE
  RateWindow

ASSUME KeysAssumption == Org \notin Users
ASSUME LimitsAssumption ==
  OrgLimit \in Nat \ {0} /\ UserLimit \in Nat \ {0} /\ RateWindow \in Nat \ {0}

VARIABLES
  counters, \* what Redis holds under each key
  hits,     \* where the limiter is with each request
  lost      \* counters whose EXPIRE a failure has prevented

limitVars == <<counters, hits, lost>>

Keys == {Org} \cup Users
NoExpiry == -1
NoCounter == [count |-> 0, left |-> NoExpiry]
NoHit == [pc |-> "none", key |-> Org, user |-> Org, over |-> FALSE]

limit(k) == IF k = Org THEN OrgLimit ELSE UserLimit

LimitInit ==
  /\ counters = [k \in Keys |-> NoCounter]
  /\ hits = [r \in Requests |-> NoHit]
  /\ lost = {}

-----------------------------------------------------------------------------
Commands == {"incr", "expire", "ttl"}

\* assertWithinRateLimit: the organization first
StartLimit(r) ==
  \E u \in Users :
    /\ hits' = [hits EXCEPT ![r] = [pc |-> "incr", key |-> Org, user |-> u, over |-> FALSE]]
    /\ UNCHANGED <<counters, lost>>

\* INCR; counting stops one above the limit, which no answer tells apart
Incremented(k) ==
  [counters EXCEPT ![k].count = IF @ > limit(k) THEN @ ELSE @ + 1]

\* A plausible bug: the expiry is given to the second hit of a window.
IncrExpiringLate(r) ==
  LET k == hits[r].key IN
  /\ hits[r].pc = "incr"
  /\ counters' = Incremented(k)
  /\ hits' = [hits EXCEPT ![r].pc = IF counters'[k].count = 2 THEN "expire" ELSE "ttl",
                          ![r].over = counters'[k].count > limit(k)]
  /\ UNCHANGED lost

Incr(r) ==
  LET k == hits[r].key IN
  /\ hits[r].pc = "incr"
  /\ counters' = Incremented(k)
  /\ hits' = [hits EXCEPT ![r].pc = IF counters'[k].count = 1 THEN "expire" ELSE "ttl",
                          ![r].over = counters'[k].count > limit(k)]
  /\ UNCHANGED lost

Expire(r) ==
  LET k == hits[r].key IN
  /\ hits[r].pc = "expire"
  /\ counters' = [counters EXCEPT ![k].left = RateWindow]
  /\ hits' = [hits EXCEPT ![r].pc = "ttl"]
  /\ UNCHANGED lost

\* TTL, whose value only words the answer; then the user, or the verdict
Ttl(r) ==
  /\ hits[r].pc = "ttl"
  /\ hits' = [hits EXCEPT ![r] =
       IF @.over THEN [@ EXCEPT !.pc = "refused"]
       ELSE IF @.key = Org THEN [@ EXCEPT !.pc = "incr", !.key = hits[r].user]
       ELSE [@ EXCEPT !.pc = "admitted"]]
  /\ UNCHANGED <<counters, lost>>

Limiting(r) == hits[r].pc \in Commands

\* does r still owe the counter its expiry, now or when its INCR has been executed
OwesExpiry(r) == hits[r].pc = "expire"

\* 503: the command was not executed, or it was and its reply is lost
LimitFails(r) ==
  LET k == hits[r].key IN
  /\ Limiting(r)
  /\ hits' = [hits EXCEPT ![r].pc = "failed"]
  /\ \/ counters' = counters
        /\ lost' = IF OwesExpiry(r) THEN lost \cup {k} ELSE lost
     \/ hits[r].pc = "expire" /\ counters' = [counters EXCEPT ![k].left = RateWindow] /\ lost' = lost
     \/ hits[r].pc = "incr" /\ counters' = Incremented(k)
        /\ lost' = IF counters[k].count = 0 THEN lost \cup {k} ELSE lost

LimitStep(r) == Incr(r) \/ Expire(r) \/ Ttl(r) \/ LimitFails(r)

\* the process dies with its requests
LimitDies ==
  /\ hits' = [r \in Requests |-> NoHit]
  /\ lost' = lost \cup {hits[r].key : r \in {q \in Requests : OwesExpiry(q)}}
  /\ UNCHANGED counters

\* Redis counts the seconds
LimitTick ==
  /\ counters' = [k \in Keys |->
       IF counters[k].left = 1 THEN NoCounter
       ELSE IF counters[k].left > 1 THEN [counters[k] EXCEPT !.left = @ - 1] ELSE counters[k]]
  /\ UNCHANGED <<hits, lost>>

-----------------------------------------------------------------------------
LimitTypeOK ==
  /\ \A k \in Keys : /\ counters[k].count \in 0..(limit(k) + 1)
                     /\ counters[k].left \in {NoExpiry} \cup 1..RateWindow
                     /\ counters[k].count = 0 => counters[k].left = NoExpiry
  /\ \A r \in Requests : /\ hits[r].pc \in Commands \cup {"none", "admitted", "refused", "failed"}
                         /\ hits[r].key \in Keys
  /\ lost \subseteq Keys

(* A counter runs out: it has an expiry, or the request that counted the   *)
(* first hit is about to give it one.  The only exception is a failure     *)
(* between INCR and EXPIRE, after which the code never sets an expiry again.*)
CountersRunOut ==
  \A k \in Keys :
    counters[k].count > 0 /\ counters[k].left = NoExpiry
      => k \in lost \/ \E r \in Requests : OwesExpiry(r) /\ hits[r].key = k
=============================================================================
