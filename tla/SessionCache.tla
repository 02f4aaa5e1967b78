---------------------------- MODULE SessionCache ----------------------------
(***************************************************************************)
(* One session of a member of one organization: its row and the membership *)
(* in PostgreSQL, the copy of both that apps/api/src/auth.ts keeps in      *)
(* Redis, and what happens to the copy when an administrator changes or    *)
(* removes the membership or the user logs out.  Requests of the session   *)
(* are authenticated on any replica, one Redis command or SQL statement at *)
(* a time, while the change is made.                                       *)
(*                                                                         *)
(* Time passes in Tick; Window ticks are the 60 seconds of                 *)
(* SESSION_REVOCATION_WINDOW_SECONDS.  Left out: the session's own end     *)
(* after a day, the other memberships and sessions of the user (their keys *)
(* are others; the set user_sessions is shared, but a login only adds to   *)
(* it), a new invitation of a removed member, and the guard of the last    *)
(* administrator: the organization is taken to have others.                *)
(***************************************************************************)
EXTENDS Integers

CONSTANTS
  Handlers,    \* requests being authenticated at a time
  Actors,      \* administrators and the user, who change the rows at a time
  Operations,  \* what they may do, of AllOperations
  MaxChanges,  \* how many of these they do
  Window,      \* ticks a cached session and a tombstone live
  MaxStall     \* ticks between the read of the session row and the fill of the cache

AllOperations == {"role", "suspend", "activate", "remove", "join", "logout"}

ASSUME OperationsAssumption == Operations \subseteq AllOperations
ASSUME TicksAssumption == MaxChanges \in Nat /\ Window \in Nat \ {0} /\ MaxStall \in Nat

VARIABLES
  db,        \* the session and the membership in PostgreSQL
  cache,     \* session:<hash>
  tombstone, \* ticks session_revoked:<hash> has left, 0 when there is none
  listed,    \* is the hash in user_sessions:<userId>
  handlers,  \* requests of the session
  change,    \* the operation each actor has under way
  changes,   \* how many there have been
  evicted,   \* ticks since a revocation was answered 204 and its Redis commands succeeded
  age        \* ticks since the session was alive, and since the role was the member's

vars == <<db, cache, tombstone, listed, handlers, change, changes, evicted, age>>

Roles == {"administrator", "member"}
Revoking == {"suspend", "remove", "logout"}

LongAgo == Window + MaxStall + 1
Never == LongAgo + 1

NoCopy == [left |-> 0, role |-> "member", status |-> "suspended"]
Idle == [pc |-> "idle", role |-> "member", status |-> "suspended", waited |-> 0,
         late |-> FALSE, answer |-> "none", stale |-> 0, since |-> 0]
NoChange == [pc |-> "none", op |-> "none", found |-> FALSE]

\* signed in as an active member
Init ==
  /\ db = [revoked |-> FALSE, role |-> "member", status |-> "active"]
  /\ cache = NoCopy
  /\ tombstone = 0
  /\ listed = TRUE
  /\ handlers = [h \in Handlers |-> Idle]
  /\ change = [a \in Actors |-> NoChange]
  /\ changes = 0
  /\ evicted = Never
  /\ age = [x \in {"alive"} \cup Roles |-> IF x = "administrator" THEN LongAgo ELSE 0]

-----------------------------------------------------------------------------
(* Authentication of a request: getSessionCache and resolveAuthContext. *)
At(h, pc) == handlers[h].pc = pc
Goto(h, pc) == handlers' = [handlers EXCEPT ![h].pc = pc]

Older(x, y) == IF x > y THEN x ELSE y

\* the membership counts only while it is active
Context(role, status) == IF status = "active" THEN role ELSE "none"

Answer(h, context) ==
  handlers' = [handlers EXCEPT
    ![h].pc = "answered", ![h].answer = context,
    ![h].stale = IF context \in Roles THEN Older(age["alive"], age[context]) ELSE 0,
    ![h].since = IF context \in Roles /\ handlers[h].late THEN evicted ELSE 0]

unchangedByReads == <<db, tombstone, listed, change, changes, evicted, age>>

Start(h) ==
  /\ At(h, "idle")
  /\ handlers' = [handlers EXCEPT ![h].pc = "check", ![h].late = (evicted # Never)]
  /\ UNCHANGED <<unchangedByReads, cache>>

\* A plausible bug: the tombstone is not looked at.
NeverTombstoned == FALSE

Tombstoned == tombstone > 0

\* EXISTS session_revoked:<hash>
Check(h) ==
  /\ At(h, "check")
  /\ IF Tombstoned THEN Answer(h, "none") ELSE Goto(h, "get")
  /\ UNCHANGED <<unchangedByReads, cache>>

\* GET session:<hash>
Get(h) ==
  /\ At(h, "get")
  /\ IF cache.left > 0 THEN Answer(h, Context(cache.role, cache.status))
                       ELSE Goto(h, "loadSession")
  /\ UNCHANGED <<unchangedByReads, cache>>

\* A plausible bug: revoked_at is not looked at.
LoadAnySession(h) ==
  /\ At(h, "loadSession")
  /\ Goto(h, "loadMembership")
  /\ UNCHANGED <<unchangedByReads, cache>>

\* the two SELECTs of loadSessionFromDb see two snapshots
LoadSession(h) ==
  /\ At(h, "loadSession")
  /\ IF db.revoked THEN Answer(h, "none") ELSE Goto(h, "loadMembership")
  /\ UNCHANGED <<unchangedByReads, cache>>

LoadMembership(h) ==
  /\ At(h, "loadMembership")
  /\ handlers' = [handlers EXCEPT ![h].pc = "recheck", ![h].role = db.role,
                                  ![h].status = db.status]
  /\ UNCHANGED <<unchangedByReads, cache>>

\* EXISTS session_revoked:<hash>, once more
Recheck(h) ==
  /\ At(h, "recheck")
  /\ IF Tombstoned THEN Answer(h, "none") ELSE Goto(h, "fill")
  /\ UNCHANGED <<unchangedByReads, cache>>

\* A plausible bug: the copy lives as long as the session and not the window at most.
FillForLong(h) ==
  /\ At(h, "fill")
  /\ cache' = [left |-> Window + LongAgo, role |-> handlers[h].role,
               status |-> handlers[h].status]
  /\ Answer(h, Context(handlers[h].role, handlers[h].status))
  /\ UNCHANGED unchangedByReads

\* SETEX session:<hash>
Fill(h) ==
  /\ At(h, "fill")
  /\ cache' = [left |-> Window, role |-> handlers[h].role, status |-> handlers[h].status]
  /\ Answer(h, Context(handlers[h].role, handlers[h].status))
  /\ UNCHANGED unchangedByReads

\* a Redis command rejects, and with it the request
RedisFails(h) ==
  /\ handlers[h].pc \in {"check", "get", "recheck", "fill"}
  /\ Answer(h, "error")
  /\ UNCHANGED <<unchangedByReads, cache>>

Finish(h) ==
  /\ At(h, "answered")
  /\ handlers' = [handlers EXCEPT ![h] = Idle]
  /\ UNCHANGED <<unchangedByReads, cache>>

Read(h) ==
  \/ Start(h) \/ Check(h) \/ Get(h) \/ LoadSession(h) \/ LoadMembership(h)
  \/ Recheck(h) \/ Fill(h) \/ RedisFails(h) \/ Finish(h)

-----------------------------------------------------------------------------
(* Changes of the membership, in routes/members.ts, the acceptance of an   *)
(* invitation to another organization ("join"), and logout: one            *)
(* transaction, and after its commit the eviction.                         *)
Changed(op, role) ==
  CASE op = "role" -> [db EXCEPT !.role = role]
    [] op = "suspend" -> [db EXCEPT !.status = "suspended", !.revoked = TRUE]
    [] op = "activate" -> [db EXCEPT !.status = "active"]
    [] op = "remove" -> [db EXCEPT !.status = "gone", !.revoked = TRUE]
    [] op = "join" -> db
    [] op = "logout" -> [db EXCEPT !.revoked = TRUE]

\* the user's own operations are requests of the session; a removed member is not found
Allowed(op) ==
  IF op \in {"join", "logout"}
  THEN \E h \in Handlers : At(h, "answered") /\ handlers[h].answer \in Roles
  ELSE db.status # "gone"

\* is x, the session or a role, what the rows now say
Holds(rows, x) ==
  IF x = "alive" THEN ~ rows.revoked ELSE rows.status = "active" /\ rows.role = x

Commit(a, op, role) ==
  /\ change[a].pc = "none"
  /\ changes < MaxChanges
  /\ Allowed(op)
  /\ db' = Changed(op, role)
  /\ age' = [x \in DOMAIN age |-> IF Holds(Changed(op, role), x) THEN 0 ELSE age[x]]
  /\ change' = [change EXCEPT ![a] =
       [pc |-> IF op = "logout" THEN "entomb" ELSE "members", op |-> op,
        found |-> op = "logout"]]
  /\ changes' = changes + 1
  /\ UNCHANGED <<cache, tombstone, listed, handlers, evicted>>

\* SMEMBERS user_sessions:<userId>
ListSessions(a) ==
  /\ change[a].pc = "members"
  /\ change' = [change EXCEPT
       ![a].pc = IF change[a].op \in Revoking THEN "entomb" ELSE "delete", ![a].found = listed]
  /\ UNCHANGED <<db, cache, tombstone, listed, handlers, changes, evicted, age>>

\* invalidateRevokedUserSessions and revokeSessionByHash: SETEX of the
\* tombstone and DEL of the copy in one MULTI; the former also drops the set
Entomb(a) ==
  /\ change[a].pc = "entomb"
  /\ tombstone' = IF change[a].found THEN Window ELSE tombstone
  /\ cache' = IF change[a].found THEN NoCopy ELSE cache
  /\ listed' = (listed /\ change[a].op = "logout")
  /\ change' = [change EXCEPT ![a] = NoChange]
  /\ evicted' = IF evicted = Never THEN 0 ELSE evicted
  /\ UNCHANGED <<db, handlers, changes, age>>

\* invalidateUserSessionCache: DEL of the copies that were listed ...
DeleteCopy(a) ==
  /\ change[a].pc = "delete"
  /\ cache' = IF change[a].found THEN NoCopy ELSE cache
  /\ change' = [change EXCEPT ![a].pc = "deleteSet"]
  /\ UNCHANGED <<db, tombstone, listed, handlers, changes, evicted, age>>

\* ... and DEL of the set itself
DeleteSet(a) ==
  /\ change[a].pc = "deleteSet"
  /\ listed' = FALSE
  /\ change' = [change EXCEPT ![a] = NoChange]
  /\ UNCHANGED <<db, cache, tombstone, handlers, changes, evicted, age>>

\* Redis rejects a command: it is logged, and the change stays committed
EvictionFails(a) ==
  /\ change[a].pc # "none"
  /\ change' = [change EXCEPT ![a] = NoChange]
  /\ UNCHANGED <<db, cache, tombstone, listed, handlers, changes, evicted, age>>

Change(a) ==
  \/ \E op \in Operations, role \in Roles : Commit(a, op, role)
  \/ ListSessions(a) \/ Entomb(a) \/ DeleteCopy(a) \/ DeleteSet(a) \/ EvictionFails(a)

-----------------------------------------------------------------------------
Less(n) == IF n > 0 THEN n - 1 ELSE 0

Loading(h) == handlers[h].pc \in {"loadMembership", "recheck", "fill"}

Tick ==
  /\ \A h \in Handlers : Loading(h) => handlers[h].waited < MaxStall
  /\ handlers' = [h \in Handlers |->
       IF Loading(h) THEN [handlers[h] EXCEPT !.waited = @ + 1] ELSE handlers[h]]
  /\ cache' = IF cache.left > 1 THEN [cache EXCEPT !.left = @ - 1] ELSE NoCopy
  /\ tombstone' = Less(tombstone)
  /\ age' = [x \in DOMAIN age |->
       IF Holds(db, x) THEN 0 ELSE IF age[x] < LongAgo THEN age[x] + 1 ELSE LongAgo]
  /\ evicted' = IF evicted < LongAgo THEN evicted + 1 ELSE evicted
  /\ UNCHANGED <<db, listed, change, changes>>

Next == (\E h \in Handlers : Read(h)) \/ (\E a \in Actors : Change(a)) \/ Tick

Spec == Init /\ [][Next]_vars

-----------------------------------------------------------------------------
TypeOK ==
  /\ db \in [revoked : BOOLEAN, role : Roles, status : {"active", "suspended", "gone"}]
  /\ cache \in [left : 0..Window, role : Roles, status : {"active", "suspended", "gone"}]
  /\ tombstone \in 0..Window
  /\ listed \in BOOLEAN /\ evicted \in 0..Never /\ changes \in 0..MaxChanges
  /\ \A h \in Handlers : /\ handlers[h].answer \in Roles \cup {"none", "error"}
                         /\ handlers[h].waited \in 0..MaxStall
  /\ \A a \in Actors : change[a].pc \in {"none", "members", "entomb", "delete", "deleteSet"}
  /\ \A x \in DOMAIN age : age[x] \in 0..LongAgo

(* What a request is let in with, a live session and a role, was so less   *)
(* than a window before, give or take the time a handler takes from its    *)
(* read of the session row to its fill of the cache: whatever operations   *)
(* interleave and whatever evictions fail.                                 *)
BoundedStaleness ==
  \A h \in Handlers :
    At(h, "answered") /\ handlers[h].answer \in Roles
      => handlers[h].stale < Window + MaxStall

(* The copy and the tombstone live equally long (auth.ts:84, 104), but a   *)
(* request that read the session before it was revoked may fill the copy   *)
(* after the tombstone was set, and that copy then outlives it.  A request *)
(* begun after a revocation was answered and its eviction succeeded is let *)
(* in by such a copy only: not in the first window, which the tombstone    *)
(* covers, nor later than a load can have delayed the fill.                *)
RevocationHoldsForAWindow ==
  \A h \in Handlers :
    At(h, "answered") /\ handlers[h].late /\ handlers[h].answer \in Roles
      => handlers[h].since \in Window..(Window + MaxStall - 1)

(* README.md, session revocation: immediate when Redis is healthy.  After  *)
(* a revocation was answered and its eviction succeeded, no new request of *)
(* the session is let in.                                                  *)
RevocationIsImmediate ==
  \A h \in Handlers :
    At(h, "answered") /\ handlers[h].late => handlers[h].answer \notin Roles
=============================================================================
