------------------------- MODULE SessionCache_proofs -------------------------
(***************************************************************************)
(* The bound on the staleness of an authenticated request, and what the    *)
(* tombstone is worth, for every number of requests, administrators and    *)
(* changes, every window and every stall.                                  *)
(***************************************************************************)
EXTENDS SessionCache, TLAPS

MembershipStatus == {"active", "suspended", "gone"}
Copy == [left : 0..Window, role : Roles, status : MembershipStatus]
Request == [pc : {"idle", "check", "get", "loadSession", "loadMembership", "recheck", "fill",
                  "answered"},
            role : Roles, status : MembershipStatus, waited : 0..MaxStall, late : BOOLEAN,
            answer : Roles \cup {"none", "error"}, stale : 0..LongAgo, since : 0..Never]
Operation == [pc : {"none", "members", "entomb", "delete", "deleteSet"},
              op : AllOperations \cup {"none"}, found : BOOLEAN]

(* TypeOK and what the prover needs of the records besides. *)
Typed ==
  /\ TypeOK
  /\ handlers \in [Handlers -> Request]
  /\ change \in [Actors -> Operation]
  /\ age \in [{"alive"} \cup Roles -> 0..LongAgo]

(* What the rows say now has no age. *)
Current == \A x \in DOMAIN age : Holds(db, x) => age[x] = 0

(* A session and a membership that were both true at most n ticks ago. *)
Since(role, status, n) == age["alive"] <= n /\ (status = "active" => age[role] <= n)

(* What a request has read is as old as the request has waited since ... *)
ReadsAged ==
  \A h \in Handlers :
    /\ At(h, "loadMembership") => age["alive"] <= handlers[h].waited
    /\ handlers[h].pc \in {"recheck", "fill"}
         => Since(handlers[h].role, handlers[h].status, handlers[h].waited)

(* ... and a copy as old as it has been kept, and the wait of the request that filled it. *)
CopyAged == cache.left > 0 => Since(cache.role, cache.status, Window - cache.left + MaxStall)

(* The inductive invariant. *)
Aged == Typed /\ Current /\ ReadsAged /\ CopyAged /\ BoundedStaleness

(* Where every operation is a revocation,                                  *)
OnlyRevocations == Operations \subseteq Revoking

Evicted == evicted # Never

(* the session is listed until it is evicted, so that the first eviction   *)
(* finds it;                                                               *)
Found ==
  /\ ~ Evicted => listed
  /\ \A a \in Actors :
       change[a].pc # "none" =>
         /\ db.revoked /\ change[a].op \in Revoking
         /\ change[a].pc \in {"members", "entomb"}
         /\ ~ Evicted /\ change[a].pc = "entomb" => change[a].found

(* from then on there is a tombstone for a window, whoever still loads the *)
(* session began to before, and a copy was filled at the end of a load;    *)
Entombed ==
  Evicted => /\ db.revoked
             /\ evicted < Window => Window <= tombstone + evicted
             /\ \A h \in Handlers : Loading(h) => evicted <= handlers[h].waited
             /\ cache.left > 0 => cache.left + evicted <= Window + MaxStall

(* and a request begun later does not load the session, and is past the    *)
(* check after that window only.                                           *)
LateIsOut ==
  \A h \in Handlers :
    handlers[h].late => /\ Evicted /\ ~ Loading(h)
                        /\ At(h, "get") => Window <= evicted

(* The inductive invariant of the tombstone. *)
Revoked == Aged /\ Found /\ Entombed /\ LateIsOut /\ RevocationHoldsForAWindow

-----------------------------------------------------------------------------
LEMMA InitTyped == Init => Typed
<1> SUFFICES ASSUME Init PROVE Typed
  OBVIOUS
<1> USE TicksAssumption DEF Init, Roles, LongAgo, Never
<1>1. Idle \in Request
  BY DEF Idle, Request, MembershipStatus
<1>2. NoChange \in Operation
  BY DEF NoChange, Operation
<1>3. NoCopy \in Copy
  BY DEF NoCopy, Copy, MembershipStatus
<1>4. age \in [{"alive"} \cup Roles -> 0..LongAgo]
  OBVIOUS
<1>5. /\ \A h \in Handlers : /\ handlers[h].answer \in Roles \cup {"none", "error"}
                             /\ handlers[h].waited \in 0..MaxStall
      /\ \A a \in Actors : change[a].pc \in {"none", "members", "entomb", "delete", "deleteSet"}
  BY <1>1, <1>2 DEF Request, Operation
<1>6. db \in [revoked : BOOLEAN, role : Roles, status : {"active", "suspended", "gone"}]
  OBVIOUS
<1>7. cache \in [left : 0..Window, role : Roles, status : {"active", "suspended", "gone"}]
  BY <1>3 DEF Copy, MembershipStatus
<1>8. /\ tombstone \in 0..Window /\ changes \in 0..MaxChanges
      /\ listed \in BOOLEAN /\ evicted \in 0..Never
  <2>1. tombstone \in 0..Window
    OBVIOUS
  <2>2. changes \in 0..MaxChanges
    OBVIOUS
  <2>3. listed \in BOOLEAN
    BY Zenon
  <2>4. evicted \in 0..Never
    OBVIOUS
  <2> QED
    BY <2>1, <2>2, <2>3, <2>4, Zenon
<1>9. handlers \in [Handlers -> Request] /\ change \in [Actors -> Operation]
  BY <1>1, <1>2
<1>10. TypeOK
  <2>1. \A x \in DOMAIN age : age[x] \in 0..LongAgo
    BY <1>4
  <2> HIDE DEF Init
  <2> QED
    BY <2>1, <1>5, <1>6, <1>7, <1>8 DEF TypeOK
<1> HIDE DEF Init
<1> QED
  BY <1>4, <1>9, <1>10 DEF Typed

LEMMA InitAged == Init => Aged
<1> SUFFICES ASSUME Init PROVE Aged
  OBVIOUS
<1>1. Typed
  BY InitTyped
<1>2. Current
  BY DEF Init, Current, Holds, Roles
<1>3. \A h \in Handlers : handlers[h] = Idle
  BY DEF Init
<1>4. ReadsAged /\ BoundedStaleness
  BY <1>3 DEF ReadsAged, BoundedStaleness, At, Idle
<1>5. CopyAged
  BY DEF Init, CopyAged, NoCopy
<1> QED
  BY <1>1, <1>2, <1>4, <1>5 DEF Aged

(* A handler's answer is again a request; let in with a session and a role *)
(* that were true n ticks ago, n less than the bound, it is within the bound. *)
LEMMA AnswerIsRequest ==
  ASSUME Typed, NEW h \in Handlers, NEW c \in Roles \cup {"none", "error"}, Answer(h, c)
  PROVE  \E x \in Request :
           /\ handlers' = [handlers EXCEPT ![h] = x]
           /\ x.pc = "answered" /\ x.answer = c /\ x.late = handlers[h].late
           /\ c \in Roles /\ x.late => x.since = evicted
           /\ c \in Roles =>
                \A n \in Nat : age["alive"] <= n /\ age[c] <= n => x.stale <= n
<1> DEFINE s == IF c \in Roles THEN Older(age["alive"], age[c]) ELSE 0
           n == IF c \in Roles /\ handlers[h].late THEN evicted ELSE 0
           x == [handlers[h] EXCEPT !.pc = "answered", !.answer = c, !.stale = s, !.since = n]
<1>1. /\ age \in [{"alive"} \cup Roles -> 0..LongAgo] /\ LongAgo \in Nat
      /\ Never \in Nat /\ evicted \in 0..Never
  BY TicksAssumption DEF Typed, TypeOK, LongAgo, Never
<1>2. s \in 0..LongAgo /\ n \in 0..Never
  BY <1>1 DEF Older
<1>3. x \in Request
  BY <1>2 DEF Typed, Request
<1>4. handlers' = [handlers EXCEPT ![h] = x]
  BY DEF Answer, Typed, Request
<1>5. /\ x.pc = "answered" /\ x.answer = c /\ x.late = handlers[h].late
      /\ x.stale = s /\ x.since = n
  BY DEF Typed, Request
<1>6. c \in Roles => \A m \in Nat : age["alive"] <= m /\ age[c] <= m => s <= m
  BY <1>1 DEF Older
<1> QED
  BY <1>3, <1>4, <1>5, <1>6

(* A step of a handler that changes no more than its own record and the copy. *)
LEMMA ReadIsTyped ==
  ASSUME Typed, NEW h \in Handlers, NEW x \in Request,
         handlers' = [handlers EXCEPT ![h] = x], UNCHANGED unchangedByReads,
         cache' \in Copy
  PROVE  Typed'
<1>1. handlers' \in [Handlers -> Request]
  BY DEF Typed
<1>2. \A g \in Handlers : /\ handlers'[g].answer \in Roles \cup {"none", "error"}
                          /\ handlers'[g].waited \in 0..MaxStall
  BY <1>1 DEF Request
<1> QED
  BY <1>1, <1>2 DEF Typed, TypeOK, unchangedByReads, Copy, MembershipStatus

LEMMA ReadKeeps ==
  ASSUME Aged, NEW h \in Handlers, NEW x \in Request,
         handlers' = [handlers EXCEPT ![h] = x], UNCHANGED unchangedByReads,
         cache' = cache \/ (cache' \in Copy /\ Since(cache'.role, cache'.status, MaxStall)),
         x.pc = "loadMembership" => age["alive"] <= x.waited,
         x.pc \in {"recheck", "fill"} => Since(x.role, x.status, x.waited),
         x.pc = "answered" /\ x.answer \in Roles => x.stale < Window + MaxStall
  PROVE  Aged'
<1> USE DEF Aged
<1>1. cache \in Copy
  BY DEF Typed, TypeOK, Copy, MembershipStatus
<1>2. cache' \in Copy
  BY <1>1
<1>3. Typed'
  BY <1>2, ReadIsTyped
<1>4. Current'
  BY DEF Current, unchangedByReads, Holds
<1>5. /\ handlers'[h] = x
      /\ \A g \in Handlers : g # h => handlers'[g] = handlers[g]
  BY DEF Typed
<1>6. ReadsAged' /\ BoundedStaleness'
  BY <1>5 DEF ReadsAged, BoundedStaleness, At, Since, unchangedByReads
<1>7. CopyAged'
  <2>1. CASE cache' = cache
    BY <2>1 DEF CopyAged, Since, unchangedByReads
  <2>2. CASE cache' \in Copy /\ Since(cache'.role, cache'.status, MaxStall)
    <3>1. MaxStall <= Window - cache'.left + MaxStall /\ Window - cache'.left + MaxStall \in Nat
      BY <2>2, TicksAssumption DEF Copy
    <3>2. age["alive"] \in Nat /\ (\A role \in Roles : age[role] \in Nat) /\ cache'.role \in Roles
      BY <2>2 DEF Typed, Copy
    <3> QED
      BY <2>2, <3>1, <3>2, TicksAssumption DEF CopyAged, Since, unchangedByReads
  <2> QED
    BY <2>1, <2>2
<1> QED
  BY <1>3, <1>4, <1>6, <1>7

(* A handler answers a request without letting it in, or with what was true n ticks ago. *)
LEMMA AnswerKeeps ==
  ASSUME Aged, NEW h \in Handlers, NEW c \in Roles \cup {"none", "error"}, Answer(h, c),
         UNCHANGED unchangedByReads,
         cache' = cache \/ (cache' \in Copy /\ Since(cache'.role, cache'.status, MaxStall)),
         c \in Roles => \E n \in Nat : /\ n < Window + MaxStall
                                       /\ age["alive"] <= n /\ age[c] <= n
  PROVE  Aged'
<1>1. PICK x \in Request :
        /\ handlers' = [handlers EXCEPT ![h] = x]
        /\ x.pc = "answered" /\ x.answer = c
        /\ c \in Roles => \A n \in Nat : age["alive"] <= n /\ age[c] <= n => x.stale <= n
  BY AnswerIsRequest DEF Aged
<1>2. x.answer \in Roles => x.stale < Window + MaxStall
  <2> SUFFICES ASSUME c \in Roles PROVE x.stale < Window + MaxStall
    BY <1>1
  <2>1. PICK n \in Nat : n < Window + MaxStall /\ age["alive"] <= n /\ age[c] <= n
    OBVIOUS
  <2>2. x.stale <= n
    BY <1>1, <2>1
  <2>3. x.stale \in Nat
    BY TicksAssumption DEF Request, LongAgo
  <2> QED
    BY <2>1, <2>2, <2>3, TicksAssumption
<1> QED
  BY <1>1, <1>2, ReadKeeps

LEMMA ReadAged == ASSUME Aged, NEW h \in Handlers, Read(h) PROVE Aged'
<1> USE DEF At
<1>1. handlers \in [Handlers -> Request] /\ cache \in Copy /\ db.role \in Roles
      /\ db.status \in MembershipStatus /\ db.revoked \in BOOLEAN /\ handlers[h] \in Request
  BY DEF Aged, Typed, TypeOK, Copy, MembershipStatus
<1>2. Idle \in Request
  BY TicksAssumption DEF Idle, Request, Roles, MembershipStatus, LongAgo, Never
<1>3. age \in [{"alive"} \cup Roles -> 0..LongAgo]
  BY DEF Aged, Typed
<1>4. CASE Start(h)
  <2> DEFINE x == [handlers[h] EXCEPT !.pc = "check", !.late = (evicted # Never)]
  <2>1. x \in Request /\ x.pc = "check"
    BY <1>1 DEF Request
  <2>2. handlers' = [handlers EXCEPT ![h] = x]
    BY <1>1, <1>4 DEF Start, Request
  <2> QED
    BY <1>4, <2>1, <2>2, ReadKeeps DEF Start
<1>5. CASE Check(h)
  <2>1. CASE Tombstoned
    BY <1>5, <2>1, AnswerKeeps DEF Check, Roles
  <2>2. CASE ~ Tombstoned
    <3> DEFINE x == [handlers[h] EXCEPT !.pc = "get"]
    <3>1. x \in Request /\ x.pc = "get"
      BY <1>1 DEF Request
    <3>2. handlers' = [handlers EXCEPT ![h] = x]
      BY <1>1, <1>5, <2>2 DEF Check, Goto, Request
    <3> QED
      BY <1>5, <3>1, <3>2, ReadKeeps DEF Check
  <2> QED
    BY <2>1, <2>2
<1>6. CASE Get(h)
  <2>1. CASE cache.left > 0
    <3> DEFINE n == Window - cache.left + MaxStall
    <3>1. Since(cache.role, cache.status, n)
      BY <2>1 DEF Aged, CopyAged
    <3>2. n \in Nat /\ n < Window + MaxStall
      BY <1>1, <2>1, TicksAssumption DEF Copy
    <3>3. PICK c \in Roles \cup {"none"} : c = Context(cache.role, cache.status)
      BY <1>1 DEF Context, Copy
    <3>4. c \in Roles => age["alive"] <= n /\ age[c] <= n
      BY <3>1, <3>3 DEF Context, Since, Roles
    <3>5. Answer(h, c)
      BY <1>6, <2>1, <3>3 DEF Get
    <3> HIDE DEF n
    <3> QED
      BY <1>6, <3>2, <3>3, <3>4, <3>5, AnswerKeeps DEF Get
  <2>2. CASE ~ (cache.left > 0)
    <3> DEFINE x == [handlers[h] EXCEPT !.pc = "loadSession"]
    <3>1. x \in Request /\ x.pc = "loadSession"
      BY <1>1 DEF Request
    <3>2. handlers' = [handlers EXCEPT ![h] = x]
      BY <1>1, <1>6, <2>2 DEF Get, Goto, Request
    <3> QED
      BY <1>6, <3>1, <3>2, ReadKeeps DEF Get
  <2> QED
    BY <2>1, <2>2
<1>7. CASE LoadSession(h)
  <2>1. CASE db.revoked
    BY <1>7, <2>1, AnswerKeeps DEF LoadSession, Roles
  <2>2. CASE ~ db.revoked
    <3> DEFINE x == [handlers[h] EXCEPT !.pc = "loadMembership"]
    <3>1. x \in Request /\ x.pc = "loadMembership" /\ x.waited = handlers[h].waited
      BY <1>1 DEF Request
    <3>2. handlers' = [handlers EXCEPT ![h] = x]
      BY <1>1, <1>7, <2>2 DEF LoadSession, Goto, Request
    <3>3. age["alive"] = 0
      BY <1>3, <2>2 DEF Aged, Current, Holds
    <3>4. age["alive"] <= x.waited
      BY <1>1, <3>1, <3>3, TicksAssumption DEF Request
    <3> QED
      BY <1>7, <3>1, <3>2, <3>4, ReadKeeps DEF LoadSession
  <2> QED
    BY <2>1, <2>2
<1>8. CASE LoadMembership(h)
  <2> DEFINE x == [handlers[h] EXCEPT !.pc = "recheck", !.role = db.role, !.status = db.status]
  <2>1. /\ x \in Request /\ x.pc = "recheck" /\ x.waited = handlers[h].waited
        /\ x.role = db.role /\ x.status = db.status
    BY <1>1 DEF Request
  <2>2. handlers' = [handlers EXCEPT ![h] = x]
    BY <1>1, <1>8 DEF LoadMembership, Request
  <2>3. db.status = "active" => age[db.role] = 0
    BY <1>1, <1>3 DEF Aged, Current, Holds, Roles
  <2>4. age["alive"] <= handlers[h].waited
    BY <1>8 DEF LoadMembership, Aged, ReadsAged
  <2>5. 0 <= handlers[h].waited
    BY <1>1, TicksAssumption DEF Request
  <2>6. Since(x.role, x.status, x.waited)
    BY <2>1, <2>3, <2>4, <2>5 DEF Since
  <2> QED
    BY <1>8, <2>1, <2>2, <2>6, ReadKeeps DEF LoadMembership
<1>9. CASE Recheck(h)
  <2>1. CASE Tombstoned
    BY <1>9, <2>1, AnswerKeeps DEF Recheck, Roles
  <2>2. CASE ~ Tombstoned
    <3> DEFINE x == [handlers[h] EXCEPT !.pc = "fill"]
    <3>1. /\ x \in Request /\ x.pc = "fill" /\ x.waited = handlers[h].waited
          /\ x.role = handlers[h].role /\ x.status = handlers[h].status
      BY <1>1 DEF Request
    <3>2. handlers' = [handlers EXCEPT ![h] = x]
      BY <1>1, <1>9, <2>2 DEF Recheck, Goto, Request
    <3>3. Since(x.role, x.status, x.waited)
      BY <1>9, <3>1 DEF Recheck, Aged, ReadsAged
    <3> QED
      BY <1>9, <3>1, <3>2, <3>3, ReadKeeps DEF Recheck
  <2> QED
    BY <2>1, <2>2
<1>10. CASE Fill(h)
  <2> DEFINE copy == [left |-> Window, role |-> handlers[h].role, status |-> handlers[h].status]
  <2>1. Since(handlers[h].role, handlers[h].status, handlers[h].waited)
    BY <1>10 DEF Fill, Aged, ReadsAged
  <2>2. handlers[h].waited \in 0..MaxStall /\ handlers[h].role \in Roles
        /\ handlers[h].status \in MembershipStatus
    BY <1>1 DEF Request
  <2>3. Since(handlers[h].role, handlers[h].status, MaxStall)
    BY <1>3, <2>1, <2>2, TicksAssumption DEF Since, LongAgo
  <2>4. cache' = copy /\ copy \in Copy
    BY <1>10, <2>2, TicksAssumption DEF Fill, Copy
  <2>5. cache' \in Copy /\ Since(cache'.role, cache'.status, MaxStall)
    BY <2>3, <2>4
  <2>6. PICK c \in Roles \cup {"none"} : c = Context(handlers[h].role, handlers[h].status)
    BY <2>2 DEF Context
  <2>7. c \in Roles => age["alive"] <= MaxStall /\ age[c] <= MaxStall
    BY <2>3, <2>6 DEF Context, Since, Roles
  <2>8. Answer(h, c)
    BY <1>10, <2>6 DEF Fill
  <2>9. MaxStall \in Nat /\ MaxStall < Window + MaxStall
    BY TicksAssumption
  <2> HIDE DEF copy
  <2> QED
    BY <1>10, <2>5, <2>6, <2>7, <2>8, <2>9, AnswerKeeps DEF Fill
<1>11. CASE RedisFails(h)
  BY <1>11, AnswerKeeps DEF RedisFails, Roles
<1>12. CASE Finish(h)
  BY <1>2, <1>12, ReadKeeps DEF Finish, Idle
<1> QED
  BY <1>4, <1>5, <1>6, <1>7, <1>8, <1>9, <1>10, <1>11, <1>12 DEF Read

(* A step of a change that leaves the rows alone; it can only delete the copy. *)
LEMMA EvictionKeeps ==
  ASSUME Aged, NEW a \in Actors, NEW x \in Operation,
         change' = [change EXCEPT ![a] = x], UNCHANGED <<db, handlers, changes, age>>,
         cache' \in {cache, NoCopy}, tombstone' \in {tombstone, Window},
         listed' \in BOOLEAN, evicted' \in 0..Never
  PROVE  Aged'
<1> USE DEF Aged
<1>1. cache \in Copy /\ NoCopy \in Copy
  BY TicksAssumption DEF Typed, TypeOK, Copy, MembershipStatus, NoCopy, Roles
<1>2. change' \in [Actors -> Operation]
  BY DEF Typed
<1>3. \A b \in Actors : change'[b].pc \in {"none", "members", "entomb", "delete", "deleteSet"}
  BY <1>2 DEF Operation
<1>4. cache' \in Copy /\ tombstone' \in 0..Window
  BY <1>1, TicksAssumption DEF Typed, TypeOK
<1>5. Typed'
  BY <1>2, <1>3, <1>4 DEF Typed, TypeOK, Copy, MembershipStatus
<1>6. Current' /\ ReadsAged' /\ BoundedStaleness'
  BY DEF Current, Holds, ReadsAged, BoundedStaleness, At, Since
<1>7. CopyAged'
  BY DEF CopyAged, Since, NoCopy
<1> QED
  BY <1>5, <1>6, <1>7

LEMMA NoChangeIsOperation == NoChange \in Operation
BY DEF NoChange, Operation

(* Rows that stay rows, and the types of the change of an actor. *)
LEMMA CommitIsTyped ==
  ASSUME Typed, NEW a \in Actors, NEW op \in Operations, NEW role \in Roles, Commit(a, op, role)
  PROVE  /\ Typed'
         /\ \A x \in DOMAIN age : age'[x] <= age[x] /\ (Holds(db', x) => age'[x] = 0)
<1>1. op \in AllOperations
  BY OperationsAssumption
<1>2. db' \in [revoked : BOOLEAN, role : Roles, status : {"active", "suspended", "gone"}]
  <2>1. db \in [revoked : BOOLEAN, role : Roles, status : {"active", "suspended", "gone"}]
    BY DEF Typed, TypeOK
  <2>2. db' = Changed(op, role)
    BY DEF Commit
  <2>3. CASE op = "role"
    BY <2>1, <2>2, <2>3 DEF Changed
  <2>4. CASE op = "suspend"
    BY <2>1, <2>2, <2>4 DEF Changed
  <2>5. CASE op = "activate"
    BY <2>1, <2>2, <2>5 DEF Changed
  <2>6. CASE op = "remove"
    BY <2>1, <2>2, <2>6 DEF Changed
  <2>7. CASE op = "join"
    BY <2>1, <2>2, <2>7 DEF Changed
  <2>8. CASE op = "logout"
    BY <2>1, <2>2, <2>8 DEF Changed
  <2> QED
    BY <1>1, <2>3, <2>4, <2>5, <2>6, <2>7, <2>8 DEF AllOperations
<1>3. age \in [{"alive"} \cup Roles -> 0..LongAgo] /\ LongAgo \in Nat
  BY TicksAssumption DEF Typed, LongAgo
<1>4. \A x \in DOMAIN age : age'[x] = IF Holds(db', x) THEN 0 ELSE age[x]
  BY DEF Commit
<1>5. age' \in [{"alive"} \cup Roles -> 0..LongAgo]
  BY <1>3 DEF Commit
<1>6. change' \in [Actors -> Operation]
  BY <1>1 DEF Commit, Typed, Operation
<1>7. \A b \in Actors : change'[b].pc \in {"none", "members", "entomb", "delete", "deleteSet"}
  BY <1>6 DEF Operation
<1>8. changes' \in 0..MaxChanges
  BY TicksAssumption DEF Commit, Typed, TypeOK
<1>9. UNCHANGED <<cache, tombstone, listed, handlers, evicted>>
  BY DEF Commit
<1>10. Typed'
  BY <1>2, <1>5, <1>6, <1>7, <1>8, <1>9 DEF Typed, TypeOK
<1> QED
  BY <1>3, <1>4, <1>10

LEMMA CommitAged ==
  ASSUME Aged, NEW a \in Actors, NEW op \in Operations, NEW role \in Roles, Commit(a, op, role)
  PROVE  Aged'
<1> USE DEF Aged
<1>1. Typed' /\ \A x \in DOMAIN age : age'[x] <= age[x] /\ (Holds(db', x) => age'[x] = 0)
  BY CommitIsTyped
<1>2. UNCHANGED <<cache, handlers>>
  BY DEF Commit
<1>3. /\ age \in [{"alive"} \cup Roles -> 0..LongAgo]
      /\ age' \in [{"alive"} \cup Roles -> 0..LongAgo]
      /\ LongAgo \in Nat
  BY <1>1, TicksAssumption DEF Typed, LongAgo
<1>4. Current'
  BY <1>1, <1>3 DEF Current
<1>6. ReadsAged'
  <2> SUFFICES ASSUME NEW h \in Handlers
               PROVE  /\ At(h, "loadMembership") => age'["alive"] <= handlers[h].waited
                      /\ handlers[h].pc \in {"recheck", "fill"}
                           => Since(handlers[h].role, handlers[h].status, handlers[h].waited)'
    BY <1>2 DEF ReadsAged, At
  <2>1. /\ handlers[h].role \in Roles /\ handlers[h].status \in MembershipStatus
        /\ handlers[h].waited \in Nat
    BY TicksAssumption DEF Typed, Request
  <2>2. At(h, "loadMembership") => age'["alive"] <= handlers[h].waited
    BY <1>1, <1>3, <2>1 DEF ReadsAged
  <2>3. ASSUME handlers[h].pc \in {"recheck", "fill"}
        PROVE  Since(handlers[h].role, handlers[h].status, handlers[h].waited)'
    <3>1. Since(handlers[h].role, handlers[h].status, handlers[h].waited)
      BY <2>3 DEF ReadsAged
    <3> QED
      BY <1>1, <1>2, <1>3, <2>1, <3>1 DEF Since
  <2> QED
    BY <2>2, <2>3
<1>7. CopyAged'
  <2>1. cache.left \in 0..Window /\ cache.role \in Roles
    BY DEF Typed, TypeOK
  <2>2. PICK n \in Nat : n = Window - cache.left + MaxStall
    BY <2>1, TicksAssumption
  <2>3. cache.left > 0 => age["alive"] <= n /\ (cache.status = "active" => age[cache.role] <= n)
    BY <2>2 DEF CopyAged, Since
  <2>4. /\ {"alive", cache.role} \subseteq DOMAIN age
        /\ age["alive"] \in Nat /\ age[cache.role] \in Nat
        /\ age'["alive"] \in Nat /\ age'[cache.role] \in Nat
    BY <1>3, <2>1
  <2>5. age'["alive"] <= age["alive"] /\ age'[cache.role] <= age[cache.role]
    BY <1>1, <2>4
  <2>6. cache.left > 0 => age'["alive"] <= n /\ (cache.status = "active" => age'[cache.role] <= n)
    BY <2>3, <2>4, <2>5
  <2> QED
    BY <1>2, <2>2, <2>6 DEF CopyAged, Since
<1>8. BoundedStaleness'
  BY <1>2 DEF BoundedStaleness, At
<1> QED
  BY <1>1, <1>4, <1>6, <1>7, <1>8

LEMMA ChangeAged == ASSUME Aged, NEW a \in Actors, Change(a) PROVE Aged'
<1>1. change \in [Actors -> Operation] /\ change[a] \in Operation
      /\ listed \in BOOLEAN /\ evicted \in 0..Never /\ 0 \in 0..Never
  BY TicksAssumption DEF Aged, Typed, TypeOK, LongAgo, Never
<1>2. ASSUME NEW op \in Operations, NEW role \in Roles, Commit(a, op, role) PROVE Aged'
  BY <1>2, CommitAged
<1>3. CASE ListSessions(a)
  <2> DEFINE pc == IF change[a].op \in Revoking THEN "entomb" ELSE "delete"
             x == [change[a] EXCEPT !.pc = pc, !.found = listed]
  <2>1. x \in Operation
    BY <1>1 DEF Operation
  <2>2. change' = [change EXCEPT ![a] = x]
    BY <1>1, <1>3 DEF ListSessions, Operation
  <2> QED
    BY <1>1, <1>3, <2>1, <2>2, EvictionKeeps DEF ListSessions
<1>4. CASE Entomb(a)
  BY <1>1, <1>4, NoChangeIsOperation, EvictionKeeps DEF Entomb
<1>5. CASE DeleteCopy(a)
  <2> DEFINE x == [change[a] EXCEPT !.pc = "deleteSet"]
  <2>1. x \in Operation
    BY <1>1 DEF Operation
  <2>2. change' = [change EXCEPT ![a] = x]
    BY <1>1, <1>5 DEF DeleteCopy, Operation
  <2> QED
    BY <1>1, <1>5, <2>1, <2>2, EvictionKeeps DEF DeleteCopy
<1>6. CASE DeleteSet(a)
  BY <1>1, <1>6, NoChangeIsOperation, EvictionKeeps DEF DeleteSet
<1>7. CASE EvictionFails(a)
  BY <1>1, <1>7, NoChangeIsOperation, EvictionKeeps DEF EvictionFails
<1> QED
  BY <1>2, <1>3, <1>4, <1>5, <1>6, <1>7 DEF Change

LEMMA TickIsTyped ==
  ASSUME Typed, Tick
  PROVE  /\ Typed'
         /\ \A x \in DOMAIN age : age'[x] <= age[x] + 1 /\ (Holds(db, x) => age'[x] = 0)
<1>1. age \in [{"alive"} \cup Roles -> 0..LongAgo] /\ LongAgo \in Nat
  BY TicksAssumption DEF Typed, LongAgo
<1>2. \A x \in DOMAIN age : age'[x] = IF Holds(db, x) THEN 0
                                      ELSE IF age[x] < LongAgo THEN age[x] + 1 ELSE LongAgo
  BY DEF Tick
<1>3. age' \in [{"alive"} \cup Roles -> 0..LongAgo]
  BY <1>1 DEF Tick
<1>4. handlers' \in [Handlers -> Request]
  <2> SUFFICES ASSUME NEW h \in Handlers PROVE handlers'[h] \in Request
    BY DEF Tick
  <2>1. handlers[h] \in Request
    BY DEF Typed
  <2>2. CASE Loading(h)
    <3>1. handlers[h].waited < MaxStall /\ handlers[h].waited + 1 \in 0..MaxStall
      BY <2>1, <2>2, TicksAssumption DEF Tick, Request
    <3>2. handlers'[h] = [handlers[h] EXCEPT !.waited = @ + 1]
      BY <2>2 DEF Tick
    <3> QED
      BY <2>1, <3>1, <3>2 DEF Request
  <2>3. CASE ~ Loading(h)
    BY <2>1, <2>3 DEF Tick
  <2> QED
    BY <2>2, <2>3
<1>5. \A h \in Handlers : /\ handlers'[h].answer \in Roles \cup {"none", "error"}
                          /\ handlers'[h].waited \in 0..MaxStall
  BY <1>4 DEF Request
<1>6. cache' \in Copy /\ tombstone' \in 0..Window
  <2>1. cache \in Copy /\ NoCopy \in Copy /\ tombstone \in 0..Window
    BY TicksAssumption DEF Typed, TypeOK, Copy, MembershipStatus, NoCopy, Roles
  <2>2. tombstone' \in 0..Window
    BY <2>1, TicksAssumption DEF Tick, Less
  <2>3. CASE cache.left > 1
    <3>1. cache' = [cache EXCEPT !.left = @ - 1] /\ cache.left - 1 \in 0..Window
      BY <2>1, <2>3, TicksAssumption DEF Tick, Copy
    <3> QED
      BY <2>1, <2>2, <3>1 DEF Copy
  <2>4. CASE ~ (cache.left > 1)
    BY <2>1, <2>2, <2>4 DEF Tick
  <2> QED
    BY <2>3, <2>4
<1>7. evicted' \in 0..Never
  BY TicksAssumption DEF Typed, TypeOK, Tick, LongAgo, Never
<1>8. Typed'
  BY <1>3, <1>4, <1>5, <1>6, <1>7 DEF Typed, TypeOK, Tick, Copy, MembershipStatus
<1> QED
  BY <1>1, <1>2, <1>8

LEMMA TickAged == ASSUME Aged, Tick PROVE Aged'
<1> USE DEF Aged
<1>1. Typed' /\ \A x \in DOMAIN age : age'[x] <= age[x] + 1 /\ (Holds(db, x) => age'[x] = 0)
  BY TickIsTyped
<1>2. /\ age \in [{"alive"} \cup Roles -> 0..LongAgo]
      /\ age' \in [{"alive"} \cup Roles -> 0..LongAgo]
      /\ LongAgo \in Nat
  BY <1>1, TicksAssumption DEF Typed, LongAgo
<1>3. Current'
  BY <1>1, <1>2 DEF Current, Holds, Tick
<1>4. ReadsAged' /\ BoundedStaleness'
  <2> SUFFICES ASSUME NEW h \in Handlers
               PROVE  /\ At(h, "loadMembership")' => age'["alive"] <= handlers'[h].waited
                      /\ handlers'[h].pc \in {"recheck", "fill"}
                           => Since(handlers[h].role, handlers[h].status, handlers[h].waited)'
                      /\ At(h, "answered")' /\ handlers'[h].answer \in Roles
                           => handlers'[h].stale < Window + MaxStall
    BY DEF ReadsAged, BoundedStaleness
  <2>1. handlers[h] \in Request
    BY DEF Typed
  <2>2. CASE Loading(h)
    <3>1. /\ handlers'[h].pc = handlers[h].pc /\ handlers'[h].role = handlers[h].role
          /\ handlers'[h].status = handlers[h].status
          /\ handlers'[h].waited = handlers[h].waited + 1
          /\ handlers[h].role \in Roles /\ handlers[h].waited \in Nat
      BY <2>1, <2>2, TicksAssumption DEF Tick, Request
    <3>2. CASE At(h, "loadMembership")
      BY <1>1, <1>2, <3>1, <3>2 DEF ReadsAged, At
    <3>3. CASE handlers[h].pc \in {"recheck", "fill"}
      <4>1. Since(handlers[h].role, handlers[h].status, handlers[h].waited)
        BY <3>3 DEF ReadsAged
      <4> QED
        BY <1>1, <1>2, <3>1, <3>3, <4>1 DEF Since, At
    <3> QED
      BY <2>2, <3>2, <3>3 DEF Loading, At
  <2>3. CASE ~ Loading(h)
    <3>1. handlers'[h] = handlers[h]
      BY <2>3 DEF Tick
    <3> QED
      BY <2>3, <3>1 DEF Loading, At, BoundedStaleness
  <2> QED
    BY <2>2, <2>3
<1>5. CopyAged'
  <2>1. cache \in Copy
    BY DEF Typed, TypeOK, Copy, MembershipStatus
  <2>2. CASE cache.left > 1
    <3>1. cache' = [cache EXCEPT !.left = @ - 1]
      BY <2>2 DEF Tick
    <3>2. cache'.left = cache.left - 1 /\ cache'.role = cache.role /\ cache'.status = cache.status
      BY <2>1, <3>1 DEF Copy
    <3>3. cache.left \in 0..Window /\ cache.role \in Roles
      BY <2>1 DEF Copy
    <3>4. PICK n \in Nat : n = Window - cache.left + MaxStall
      BY <3>3, TicksAssumption
    <3>5. age["alive"] <= n /\ (cache.status = "active" => age[cache.role] <= n)
      BY <2>2, <3>3, <3>4 DEF CopyAged, Since
    <3>6. /\ {"alive", cache.role} \subseteq DOMAIN age
          /\ age["alive"] \in Nat /\ age[cache.role] \in Nat
          /\ age'["alive"] \in Nat /\ age'[cache.role] \in Nat
      BY <1>2, <3>3
    <3>7. age'["alive"] <= age["alive"] + 1 /\ age'[cache.role] <= age[cache.role] + 1
      BY <1>1, <3>6
    <3>8. age'["alive"] <= n + 1 /\ (cache.status = "active" => age'[cache.role] <= n + 1)
      BY <3>5, <3>6, <3>7
    <3>9. n + 1 = Window - cache'.left + MaxStall
      BY <3>2, <3>3, <3>4, TicksAssumption
    <3> QED
      BY <3>2, <3>8, <3>9 DEF CopyAged, Since
  <2>3. CASE ~ (cache.left > 1)
    BY <2>3 DEF Tick, CopyAged, NoCopy
  <2> QED
    BY <2>2, <2>3
<1> QED
  BY <1>1, <1>3, <1>4, <1>5

LEMMA NextAged == ASSUME Aged, [Next]_vars PROVE Aged'
<1>1. ASSUME NEW h \in Handlers, Read(h) PROVE Aged'
  BY <1>1, ReadAged
<1>2. ASSUME NEW a \in Actors, Change(a) PROVE Aged'
  BY <1>2, ChangeAged
<1>3. CASE Tick
  BY <1>3, TickAged
<1>4. CASE UNCHANGED vars
  BY <1>4 DEF vars, Aged, Typed, TypeOK, Current, Holds, ReadsAged, CopyAged, Since,
              BoundedStaleness, At
<1> QED
  BY <1>1, <1>2, <1>3, <1>4 DEF Next

LEMMA SpecAged == Spec => []Aged
<1>1. Init => Aged
  BY InitAged
<1>2. Aged /\ [Next]_vars => Aged'
  BY NextAged
<1> QED
  BY <1>1, <1>2, PTL DEF Spec

(* The rows, the copy, the tombstone and the requests keep their types.    *)
THEOREM TypesHold == Spec => []TypeOK
<1>1. Aged => TypeOK
  BY DEF Aged, Typed
<1> QED
  BY <1>1, SpecAged, PTL

(* What a request is let in with by apps/api/src/auth.ts was true less than *)
(* a window and a stall before, whatever is changed and evicted meanwhile,  *)
(* and whatever Redis rejects.                                              *)
THEOREM StalenessIsBounded == Spec => []BoundedStaleness
<1>1. Aged => BoundedStaleness
  BY DEF Aged
<1> QED
  BY <1>1, SpecAged, PTL

-----------------------------------------------------------------------------
LEMMA InitRevoked == Init => Revoked
<1> SUFFICES ASSUME Init PROVE Revoked
  OBVIOUS
<1>1. \A h \in Handlers : handlers[h] = Idle
  BY DEF Init
<1>2. ~ Evicted /\ listed = TRUE
  BY Zenon DEF Init, Evicted
<1>3. Found
  BY <1>2 DEF Init, Found, NoChange
<1>4. Entombed /\ LateIsOut /\ RevocationHoldsForAWindow
  BY <1>1, <1>2 DEF Entombed, LateIsOut, RevocationHoldsForAWindow, Idle, At
<1> QED
  BY <1>3, <1>4, InitAged DEF Revoked

(* A step of a handler: none begins to load a revoked session, and one that *)
(* began after the eviction is past the check after a window only.         *)
LEMMA ReadRevokes ==
  ASSUME Revoked, OnlyRevocations, NEW h \in Handlers, NEW x \in Request, Aged',
         handlers' = [handlers EXCEPT ![h] = x], UNCHANGED unchangedByReads,
         cache' = cache \/ (At(h, "fill") /\ cache'.left = Window),
         x.pc \in {"loadMembership", "recheck", "fill"}
           => (Loading(h) /\ x.waited = handlers[h].waited) \/ ~ db.revoked,
         x.late => /\ Evicted
                   /\ x.pc \notin {"loadMembership", "recheck", "fill"}
                   /\ x.pc = "get" => Window <= evicted
                   /\ x.pc = "answered" /\ x.answer \in Roles
                        => x.since \in Window..(Window + MaxStall - 1)
  PROVE  Revoked'
<1> USE DEF Revoked, Evicted
<1>1. /\ handlers'[h] = x
      /\ \A g \in Handlers : g # h => handlers'[g] = handlers[g]
  BY DEF Aged, Typed
<1>2. Found'
  BY DEF Found, unchangedByReads
<1>3. \A g \in Handlers :
        Loading(g)' => (Loading(g) /\ handlers'[g].waited = handlers[g].waited) \/ ~ db.revoked
  BY <1>1 DEF Loading
<1>4. Entombed'
  <2> SUFFICES ASSUME Evicted
               PROVE  /\ db.revoked
                      /\ evicted < Window => Window <= tombstone + evicted
                      /\ \A g \in Handlers : Loading(g)' => evicted <= handlers'[g].waited
                      /\ cache'.left > 0 => cache'.left + evicted <= Window + MaxStall
    BY DEF Entombed, unchangedByReads
  <2>1. /\ db.revoked
        /\ evicted < Window => Window <= tombstone + evicted
        /\ \A g \in Handlers : Loading(g) => evicted <= handlers[g].waited
        /\ cache.left > 0 => cache.left + evicted <= Window + MaxStall
    BY DEF Entombed
  <2>2. \A g \in Handlers : Loading(g)' => evicted <= handlers'[g].waited
    BY <1>3, <2>1
  <2>3. At(h, "fill") => Window + evicted <= Window + MaxStall
    <3>1. At(h, "fill") => evicted <= handlers[h].waited
      BY <2>1 DEF Loading, At
    <3>2. handlers[h].waited \in 0..MaxStall /\ evicted \in Nat
      BY TicksAssumption DEF Aged, Typed, TypeOK, Never, LongAgo
    <3> QED
      BY <3>1, <3>2, TicksAssumption
  <2> QED
    BY <2>1, <2>2, <2>3
<1>5. LateIsOut'
  BY <1>1 DEF LateIsOut, Loading, At, unchangedByReads
<1>6. RevocationHoldsForAWindow'
  BY <1>1 DEF RevocationHoldsForAWindow, At
<1> QED
  BY <1>2, <1>4, <1>5, <1>6

LEMMA ReadRevoked ==
  ASSUME Revoked, OnlyRevocations, NEW h \in Handlers, Read(h) PROVE Revoked'
<1>1. /\ handlers \in [Handlers -> Request] /\ handlers[h] \in Request
      /\ cache.left \in 0..Window /\ tombstone \in 0..Window /\ Window \in Nat \ {0}
      /\ MaxStall \in Nat /\ evicted \in Nat
  BY TicksAssumption DEF Revoked, Aged, Typed, TypeOK, Never, LongAgo
<1>2. Aged'
  BY ReadAged DEF Revoked
<1>3. handlers[h].late => Evicted /\ db.revoked /\ ~ Loading(h)
  BY DEF Revoked, LateIsOut, Entombed
<1>4. ASSUME NEW c \in Roles \cup {"none", "error"}, Answer(h, c),
             UNCHANGED unchangedByReads,
             cache' = cache \/ (At(h, "fill") /\ cache'.left = Window),
             handlers[h].late /\ c \in Roles => evicted \in Window..(Window + MaxStall - 1)
      PROVE  Revoked'
  <2>1. PICK x \in Request :
          /\ handlers' = [handlers EXCEPT ![h] = x]
          /\ x.pc = "answered" /\ x.answer = c /\ x.late = handlers[h].late
          /\ c \in Roles /\ x.late => x.since = evicted
    BY <1>4, AnswerIsRequest DEF Revoked, Aged
  <2> QED
    BY <1>2, <1>3, <1>4, <2>1, ReadRevokes
<1>5. ASSUME NEW pc \in {"get", "loadSession", "loadMembership", "fill"}, Goto(h, pc),
             UNCHANGED <<unchangedByReads, cache>>,
             pc \in {"loadMembership", "fill"} => Loading(h) \/ ~ db.revoked,
             handlers[h].late => /\ pc \in {"get", "loadSession"}
                                 /\ pc = "get" => Window <= evicted
      PROVE  Revoked'
  <2> DEFINE x == [handlers[h] EXCEPT !.pc = pc]
  <2>1. /\ x \in Request /\ x.pc = pc /\ x.late = handlers[h].late
        /\ x.waited = handlers[h].waited
    BY <1>1 DEF Request
  <2>2. handlers' = [handlers EXCEPT ![h] = x]
    BY <1>1, <1>5 DEF Goto, Request
  <2> HIDE DEF x
  <2> QED
    BY <1>2, <1>3, <1>5, <2>1, <2>2, ReadRevokes
<1>6. CASE Start(h)
  <2> DEFINE x == [handlers[h] EXCEPT !.pc = "check", !.late = (evicted # Never)]
  <2>1. x \in Request /\ x.pc = "check" /\ x.late = Evicted
    BY <1>1 DEF Request, Evicted
  <2>2. handlers' = [handlers EXCEPT ![h] = x]
    BY <1>1, <1>6 DEF Start, Request
  <2> HIDE DEF x
  <2> QED
    BY <1>2, <1>6, <2>1, <2>2, ReadRevokes DEF Start
<1>7. CASE Check(h)
  <2>1. CASE Tombstoned
    BY <1>4, <1>7, <2>1 DEF Check, Roles
  <2>2. CASE ~ Tombstoned
    <3>1. tombstone = 0
      BY <1>1, <2>2 DEF Tombstoned
    <3>2. Evicted => Window <= evicted
      BY <1>1, <3>1 DEF Revoked, Entombed
    <3> QED
      BY <1>3, <1>5, <1>7, <2>2, <3>2 DEF Check
  <2> QED
    BY <2>1, <2>2
<1>8. CASE Get(h)
  <2>1. handlers[h].late => Evicted /\ Window <= evicted
    BY <1>8 DEF Get, At, Revoked, LateIsOut
  <2>2. CASE cache.left > 0
    <3>1. handlers[h].late => evicted \in Window..(Window + MaxStall - 1)
      BY <1>1, <2>1, <2>2 DEF Revoked, Entombed
    <3>2. PICK c \in Roles \cup {"none"} : c = Context(cache.role, cache.status)
      BY DEF Context, Revoked, Aged, Typed, TypeOK
    <3> QED
      BY <1>4, <1>8, <2>2, <3>1, <3>2 DEF Get
  <2>3. CASE ~ (cache.left > 0)
    BY <1>5, <1>8, <2>3 DEF Get
  <2> QED
    BY <2>2, <2>3
<1>9. CASE LoadSession(h)
  <2>1. CASE db.revoked
    BY <1>4, <1>9, <2>1 DEF LoadSession, Roles
  <2>2. CASE ~ db.revoked
    BY <1>3, <1>5, <1>9, <2>2 DEF LoadSession
  <2> QED
    BY <2>1, <2>2
<1>10. CASE LoadMembership(h)
  <2> DEFINE x == [handlers[h] EXCEPT !.pc = "recheck", !.role = db.role, !.status = db.status]
  <2>1. /\ x \in Request /\ x.pc = "recheck" /\ x.late = handlers[h].late
        /\ x.waited = handlers[h].waited
    BY <1>1 DEF Request, Revoked, Aged, Typed, TypeOK, MembershipStatus
  <2>2. handlers' = [handlers EXCEPT ![h] = x]
    BY <1>1, <1>10 DEF LoadMembership, Request
  <2>3. Loading(h)
    BY <1>10 DEF LoadMembership, At, Loading
  <2> HIDE DEF x
  <2> QED
    BY <1>2, <1>3, <1>10, <2>1, <2>2, <2>3, ReadRevokes DEF LoadMembership
<1>11. CASE Recheck(h)
  <2>1. Loading(h)
    BY <1>11 DEF Recheck, At, Loading
  <2>2. CASE Tombstoned
    BY <1>4, <1>11, <2>2 DEF Recheck, Roles
  <2>3. CASE ~ Tombstoned
    BY <1>3, <1>5, <1>11, <2>1, <2>3 DEF Recheck
  <2> QED
    BY <2>2, <2>3
<1>12. CASE Fill(h)
  <2>1. Loading(h)
    BY <1>12 DEF Fill, At, Loading
  <2>2. PICK c \in Roles \cup {"none"} : c = Context(handlers[h].role, handlers[h].status)
    BY <1>1 DEF Context, Request
  <2> QED
    BY <1>3, <1>4, <1>12, <2>1, <2>2 DEF Fill
<1>13. CASE RedisFails(h)
  BY <1>4, <1>13 DEF RedisFails, Roles
<1>14. CASE Finish(h)
  <2>1. Idle \in Request
    BY TicksAssumption DEF Idle, Request, Roles, MembershipStatus, LongAgo, Never
  <2> QED
    BY <1>2, <1>14, <2>1, ReadRevokes DEF Finish, Idle
<1> QED
  BY <1>6, <1>7, <1>8, <1>9, <1>10, <1>11, <1>12, <1>13, <1>14 DEF Read

(* A change that has not evicted anything. *)
LEMMA ChangeMoves ==
  ASSUME Revoked, NEW a \in Actors, NEW x \in Operation, Aged',
         change' = [change EXCEPT ![a] = x],
         UNCHANGED <<cache, tombstone, listed, handlers, evicted>>,
         db'.revoked \in {db.revoked, TRUE},
         x.pc # "none" => /\ db'.revoked /\ x.op \in Revoking /\ x.pc \in {"members", "entomb"}
                          /\ ~ Evicted /\ x.pc = "entomb" => x.found
  PROVE  Revoked'
<1> USE DEF Revoked, Evicted
<1>1. /\ change'[a] = x
      /\ \A b \in Actors : b # a => change'[b] = change[b]
  BY DEF Aged, Typed
<1>2. Found'
  BY <1>1 DEF Found
<1>3. Entombed'
  BY DEF Entombed, Loading
<1>4. LateIsOut' /\ RevocationHoldsForAWindow'
  BY DEF LateIsOut, RevocationHoldsForAWindow, Loading, At
<1> QED
  BY <1>2, <1>3, <1>4

LEMMA ChangeRevoked ==
  ASSUME Revoked, OnlyRevocations, NEW a \in Actors, Change(a) PROVE Revoked'
<1>1. Aged'
  BY ChangeAged DEF Revoked
<1>2. /\ change \in [Actors -> Operation] /\ change[a] \in Operation
      /\ cache.left \in 0..Window /\ tombstone \in 0..Window
      /\ listed \in BOOLEAN /\ Window \in Nat /\ MaxStall \in Nat /\ Never \in Nat \ {0}
  BY TicksAssumption DEF Revoked, Aged, Typed, TypeOK, Never, LongAgo
<1>3. /\ change[a].pc # "none" => db.revoked /\ change[a].op \in Revoking
                                  /\ change[a].pc \in {"members", "entomb"}
      /\ ~ Evicted /\ change[a].pc = "entomb" => change[a].found
      /\ ~ Evicted => listed
  BY DEF Revoked, Found
<1>4. ASSUME NEW op \in Operations, NEW role \in Roles, Commit(a, op, role) PROVE Revoked'
  <2>1. op \in Revoking
    BY DEF OnlyRevocations
  <2>2. db' = Changed(op, role) /\ db \in [revoked : BOOLEAN, role : Roles,
                                          status : {"active", "suspended", "gone"}]
    BY <1>4 DEF Commit, Revoked, Aged, Typed, TypeOK
  <2>3. db'.revoked = TRUE
    BY <2>1, <2>2 DEF Changed, Revoking
  <2> DEFINE x == [pc |-> IF op = "logout" THEN "entomb" ELSE "members", op |-> op,
                   found |-> op = "logout"]
  <2>4. x \in Operation
    BY OperationsAssumption DEF Operation
  <2>5. change' = [change EXCEPT ![a] = x]
    BY <1>4 DEF Commit
  <2>6. /\ x.op \in Revoking /\ x.pc \in {"members", "entomb"}
        /\ x.pc = "entomb" => x.found
    BY <2>1
  <2> HIDE DEF x
  <2> QED
    BY <1>1, <1>4, <2>3, <2>4, <2>5, <2>6, ChangeMoves DEF Commit
<1>5. CASE ListSessions(a)
  <2> DEFINE x == [change[a] EXCEPT !.pc = "entomb", !.found = listed]
  <2>1. x \in Operation /\ x.pc = "entomb" /\ x.op = change[a].op /\ x.found = listed
    BY <1>2 DEF Operation
  <2>2. change' = [change EXCEPT ![a] = x]
    BY <1>2, <1>3, <1>5 DEF ListSessions, Operation
  <2>3. db.revoked /\ change[a].op \in Revoking
    BY <1>3, <1>5 DEF ListSessions
  <2> HIDE DEF x
  <2> QED
    BY <1>1, <1>3, <1>5, <2>1, <2>2, <2>3, ChangeMoves DEF ListSessions
<1>6. CASE Entomb(a)
  <2>1. /\ db.revoked /\ UNCHANGED <<db, handlers>>
        /\ change' = [change EXCEPT ![a] = NoChange]
        /\ evicted' = IF Evicted THEN evicted ELSE 0
    BY <1>3, <1>6 DEF Entomb, Evicted
  <2>2. \/ change[a].found /\ tombstone' = Window /\ cache' = NoCopy
        \/ Evicted /\ UNCHANGED <<tombstone, cache>>
    BY <1>2, <1>3, <1>6 DEF Entomb
  <2>3. Evicted'
    BY <1>2, <2>1 DEF Evicted
  <2>4. Found'
    <3>1. /\ change'[a] = NoChange
          /\ \A b \in Actors : b # a => change'[b] = change[b]
      BY <1>2, <2>1
    <3> QED
      BY <2>1, <2>3, <3>1 DEF Revoked, Found, NoChange
  <2>5. Entombed'
    <3>1. evicted' \in Nat /\ \A h \in Handlers : handlers[h].waited \in Nat
      BY <1>1, TicksAssumption DEF Revoked, Aged, Typed, TypeOK, Never, LongAgo
    <3>2. db.revoked' /\ (evicted' < Window => Window <= tombstone' + evicted')
      BY <1>2, <2>1, <2>2, <3>1 DEF Revoked, Entombed
    <3>3. \A h \in Handlers : Loading(h)' => evicted' <= handlers'[h].waited
      BY <2>1, <3>1 DEF Revoked, Entombed, Loading
    <3>4. cache'.left > 0 => cache'.left + evicted' <= Window + MaxStall
      BY <2>1, <2>2 DEF Revoked, Entombed, NoCopy
    <3> QED
      BY <3>2, <3>3, <3>4 DEF Entombed
  <2>6. LateIsOut' /\ RevocationHoldsForAWindow'
    BY <2>1, <2>3 DEF Revoked, LateIsOut, RevocationHoldsForAWindow, Loading, At
  <2> QED
    BY <1>1, <2>4, <2>5, <2>6 DEF Revoked
<1>7. CASE EvictionFails(a)
  <2>1. NoChange.pc = "none"
    BY DEF NoChange
  <2> QED
    BY <1>1, <1>7, <2>1, NoChangeIsOperation, ChangeMoves DEF EvictionFails
<1>8. ~ DeleteCopy(a) /\ ~ DeleteSet(a)
  BY <1>3 DEF DeleteCopy, DeleteSet
<1> QED
  BY <1>4, <1>5, <1>6, <1>7, <1>8 DEF Change

LEMMA TickRevoked == ASSUME Revoked, OnlyRevocations, Tick PROVE Revoked'
<1>1. Aged'
  BY TickAged DEF Revoked
<1>2. /\ handlers \in [Handlers -> Request] /\ cache.left \in 0..Window
      /\ tombstone \in 0..Window /\ Window \in Nat /\ MaxStall \in Nat
      /\ evicted \in 0..Never /\ Never = Window + MaxStall + 2
      /\ evicted' = IF evicted <= Window + MaxStall THEN evicted + 1 ELSE evicted
  BY TicksAssumption DEF Tick, Revoked, Aged, Typed, TypeOK, Never, LongAgo
<1>3. Evicted' <=> Evicted
  BY <1>2 DEF Evicted
<1>4. \A h \in Handlers :
        /\ handlers'[h].pc = handlers[h].pc /\ handlers'[h].late = handlers[h].late
        /\ handlers'[h].answer = handlers[h].answer /\ handlers'[h].since = handlers[h].since
        /\ Loading(h) => handlers'[h].waited = handlers[h].waited + 1
        /\ handlers[h].waited \in 0..MaxStall
  BY <1>2 DEF Tick, Request
<1>5. Found'
  BY <1>3 DEF Tick, Revoked, Found
<1>6. Entombed'
  <2> SUFFICES ASSUME Evicted
               PROVE  /\ db.revoked
                      /\ evicted' < Window => Window <= tombstone' + evicted'
                      /\ \A h \in Handlers : Loading(h)' => evicted' <= handlers'[h].waited
                      /\ cache'.left > 0 => cache'.left + evicted' <= Window + MaxStall
    BY <1>3 DEF Tick, Entombed
  <2>1. /\ db.revoked
        /\ evicted < Window => Window <= tombstone + evicted
        /\ \A h \in Handlers : Loading(h) => evicted <= handlers[h].waited
        /\ cache.left > 0 => cache.left + evicted <= Window + MaxStall
    BY DEF Revoked, Entombed
  <2>2. evicted' < Window => Window <= tombstone' + evicted'
    BY <1>2, <2>1 DEF Tick, Less
  <2>3. \A h \in Handlers : Loading(h)' => evicted' <= handlers'[h].waited
    BY <1>2, <1>4, <2>1 DEF Loading
  <2>4. cache'.left > 0 => cache.left > 0 /\ cache'.left = cache.left - 1
    BY DEF Tick, NoCopy, Revoked, Aged, Typed, TypeOK
  <2>5. cache'.left > 0 => cache'.left + evicted' <= Window + MaxStall
    BY <1>2, <2>1, <2>4
  <2> QED
    BY <2>1, <2>2, <2>3, <2>5
<1>7. LateIsOut'
  BY <1>2, <1>3, <1>4 DEF Revoked, LateIsOut, Loading, At
<1>8. RevocationHoldsForAWindow'
  BY <1>4 DEF Revoked, RevocationHoldsForAWindow, At
<1> QED
  BY <1>1, <1>5, <1>6, <1>7, <1>8 DEF Revoked

(* Where every operation is a revocation, a request begun after one was    *)
(* answered and its eviction succeeded is not let in for a window, whatever *)
(* loads of the session were under way and however long they take, nor     *)
(* later than the longest load after that window.  The run of the finding  *)
(* shows that the premise cannot be left out: an operation that empties    *)
(* user_sessions without a tombstone hides the session from the next       *)
(* revocation.                                                             *)
THEOREM TombstoneRevokes ==
  ASSUME OnlyRevocations PROVE Spec => []RevocationHoldsForAWindow
<1>1. Revoked /\ [Next]_vars => Revoked'
  <2> SUFFICES ASSUME Revoked, [Next]_vars PROVE Revoked'
    OBVIOUS
  <2>1. ASSUME NEW h \in Handlers, Read(h) PROVE Revoked'
    BY <2>1, ReadRevoked
  <2>2. ASSUME NEW a \in Actors, Change(a) PROVE Revoked'
    BY <2>2, ChangeRevoked
  <2>3. CASE Tick
    BY <2>3, TickRevoked
  <2>4. CASE UNCHANGED vars
    <3>1. Aged'
      BY <2>4, NextAged DEF Revoked
    <3> QED
      BY <2>4, <3>1 DEF vars, Revoked, Found, Entombed, Evicted, LateIsOut,
                        RevocationHoldsForAWindow, Loading, At
  <2> QED
    BY <2>1, <2>2, <2>3, <2>4 DEF Next
<1>2. Revoked => RevocationHoldsForAWindow
  BY DEF Revoked
<1> QED
  BY <1>1, <1>2, InitRevoked, PTL DEF Spec
=============================================================================
