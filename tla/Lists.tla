------------------------------- MODULE Lists -------------------------------
(***************************************************************************)
(* The lists the API returns in pages, and a page of apps/web that shows   *)
(* one: ledger, reservations of the organization and of the user,          *)
(* purchases, audit events and members.  A list is ordered by              *)
(* (created_at, id), and its cursor is that pair of the last row returned. *)
(*                                                                         *)
(* created_at is now() of the transaction that writes the row: the time of *)
(* its BEGIN, maybe the same as another's.  Transactions commit in any     *)
(* order, so a row may appear below rows that have been read already.  The *)
(* page sends requests while others are under way, and the answers come in *)
(* any order, or never.                                                    *)
(*                                                                         *)
(* Left out: what the rows say otherwise, and cursors nobody has returned  *)
(* (400).                                                                  *)
(***************************************************************************)
EXTENDS Integers, FiniteSets, SequencesExt

CONSTANTS
  Kinds,           \* the lists to look at
  Ids,             \* uuids: compared, and in no order of time
  Writers,         \* transactions at a time that write rows of the list
  Fetches,           \* requests the page may have under way
  Limit,           \* rows of a page: the parameter limit
  MicrosPerMilli,  \* 1000
  MaxTime,         \* microseconds: a bound of the clock
  MaxShown         \* no more is loaded after so many rows

AllKinds == {"ledger", "reservations", "mine", "purchases", "audit", "members"}

ASSUME KindsAssumption == Kinds \subseteq AllKinds
ASSUME IdsAssumption == Ids \subseteq Nat /\ IsFiniteSet(Ids)
ASSUME NumbersAssumption ==
  /\ {Limit, MicrosPerMilli} \subseteq Nat \ {0}
  /\ {MaxTime, MaxShown} \subseteq Nat

VARIABLES
  kind,      \* the list that the page shows
  now,       \* the clock of the database
  begun,     \* now() of each open transaction
  rows,      \* the rows that are committed
  removed,   \* those that have been deleted since (members only)
  requests,  \* the requests of the page
  shown,     \* the ids on the page
  next,      \* its cursor for more
  base,      \* history: the rows there were when the top of the page was read
  crossed,   \* history: rows that were read after an earlier top have been appended
  hurried    \* history: more has been asked for twice

vars == <<kind, now, begun, rows, removed, requests, shown, next, base, crossed, hurried>>
tables == <<kind, now, begun, rows, removed>>
screen == <<shown, next, base, crossed>>

NotOpen == -1
Top == [milli |-> 0, micro |-> 0, id |-> -1] \* no cursor: the first page
End == [milli |-> 0, micro |-> 0, id |-> -2] \* next_cursor is null
NoAnswer == [rows |-> <<>>, next |-> End]
NoRequest == [state |-> "none", cursor |-> Top, stale |-> FALSE, id |-> -1,
              answer |-> NoAnswer, base |-> {}]

-----------------------------------------------------------------------------
(* The queries, and what the handlers make of them.                        *)

\* a plausible bug: the cursor is made of created_at as JavaScript has it, in milliseconds
encodeCursorOfDate(row) == [milli |-> row.at \div MicrosPerMilli, micro |-> 0, id |-> row.id]

\* of cursor_created_at, which to_char writes with six digits
encodeCursor(row) ==
  [milli |-> row.at \div MicrosPerMilli, micro |-> row.at % MicrosPerMilli, id |-> row.id]

\* ... and which is cast to timestamptz
decodeCursor(cursor) ==
  [at |-> cursor.milli * MicrosPerMilli + cursor.micro, id |-> cursor.id]

\* a plausible bug: rows of the same time have no order
BeforeByTime(a, b) == a.at < b.at

\* (a.created_at, a.id) < (b.created_at, b.id)
Before(a, b) == a.at < b.at \/ (a.at = b.at /\ a.id < b.id)
After(a, b) == Before(b, a)

\* the elements of a set in order: none comes after one that it is before
Ordered(set, before(_, _)) ==
  CHOOSE s \in SetToSeqs(set) : \A i, j \in DOMAIN s : i < j => ~ before(s[j], s[i])

\* at most limit + 1 rows: one more tells that there is another page
FirstOf(found) == SubSeq(found, 1, IF Len(found) > Limit THEN Limit + 1 ELSE Len(found))

Newest(table, cursor) ==
  FirstOf(Ordered({r \in table : cursor = Top \/ Before(r, decodeCursor(cursor))}, After))

Oldest(table, cursor) ==
  FirstOf(Ordered({r \in table : cursor = Top \/ After(r, decodeCursor(cursor))}, Before))

Present == {r \in rows : r.id \notin removed}

LedgerRows(cursor) == Newest(Present, cursor)
ReservationRows(cursor) == Newest(Present, cursor)
OwnReservationRows(cursor) == Newest({r \in Present : r.mine}, cursor)
PurchaseRows(cursor) == Newest(Present, cursor)
AuditRows(cursor) == Newest(Present, cursor)
MemberRows(cursor) == Oldest(Present, cursor)

\* a plausible bug: the row too many is not cut off
TrimNothing(found) ==
  [rows |-> found, next |-> IF Len(found) > Limit THEN encodeCursor(Last(found)) ELSE End]

\* the row too many is cut off, and the cursor is that of the last one returned
Trim(found) ==
  IF Len(found) > Limit
  THEN [rows |-> SubSeq(found, 1, Limit), next |-> encodeCursor(found[Limit])]
  ELSE [rows |-> found, next |-> End]

-----------------------------------------------------------------------------
(* The database.                                                           *)
Begin(w) ==
  /\ begun[w] = NotOpen
  /\ begun' = [begun EXCEPT ![w] = now]
  /\ UNCHANGED <<kind, now, rows, removed, requests, screen, hurried>>

\* the row of the list that a transaction writes
Commit(w) ==
  /\ begun[w] # NotOpen
  /\ \E id \in Ids \ {r.id : r \in rows}, mine \in BOOLEAN :
       /\ kind # "mine" => mine
       /\ rows' = rows \cup {[id |-> id, at |-> begun[w], mine |-> mine]}
  /\ begun' = [begun EXCEPT ![w] = NotOpen]
  /\ UNCHANGED <<kind, now, removed, requests, screen, hurried>>

\* memberships.delete, by another administrator
RemovedElsewhere(id) ==
  /\ kind = "members" /\ id \in {r.id : r \in Present}
  /\ removed' = removed \cup {id}
  /\ UNCHANGED <<kind, now, begun, rows, requests, screen, hurried>>

Tick ==
  /\ now < MaxTime /\ now' = now + 1
  /\ UNCHANGED <<kind, begun, rows, removed, requests, screen, hurried>>

-----------------------------------------------------------------------------
(* The handlers: requireAdmin but for the list of one's own, one query.    *)
Reply(s, found) ==
  /\ requests[s].state = "sent"
  /\ requests' = [requests EXCEPT ![s].state = "answered", ![s].answer = Trim(found),
                    ![s].base = IF requests[s].cursor = Top THEN Present ELSE {}]
  /\ UNCHANGED <<tables, screen, hurried>>

GetLedger(s) == kind = "ledger" /\ Reply(s, LedgerRows(requests[s].cursor))
GetReservations(s) == kind = "reservations" /\ Reply(s, ReservationRows(requests[s].cursor))
GetMyReservations(s) == kind = "mine" /\ Reply(s, OwnReservationRows(requests[s].cursor))
GetPurchases(s) == kind = "purchases" /\ Reply(s, PurchaseRows(requests[s].cursor))
GetAuditEvents(s) == kind = "audit" /\ Reply(s, AuditRows(requests[s].cursor))
GetMembers(s) == kind = "members" /\ Reply(s, MemberRows(requests[s].cursor))

\* DELETE /members/:membershipId; 404 when the row is gone
DeleteMember(s) ==
  /\ requests[s].state = "delete" /\ requests[s].id \notin removed
  /\ removed' = removed \cup {requests[s].id}
  /\ requests' = [requests EXCEPT ![s].state = "deleted"]
  /\ UNCHANGED <<kind, now, begun, rows, screen, hurried>>

-----------------------------------------------------------------------------
(* The page.                                                               *)
Free(s) == requests[s].state = "none"
Ask(s, cursor) ==
  Free(s) /\ requests' = [requests EXCEPT ![s] =
                [NoRequest EXCEPT !.state = "sent", !.cursor = cursor]]

\* is more under way that the page shown has asked for
AskedForMore == \E s \in Fetches : requests[s].state \in {"sent", "answered"}
                                  /\ requests[s].cursor # Top /\ ~ requests[s].stale

\* the button is there while there is a cursor, also when it has been pressed
LoadMore(s) ==
  /\ next # End /\ Len(shown) < MaxShown
  /\ Ask(s, next)
  /\ hurried' = (hurried \/ AskedForMore)
  /\ UNCHANGED <<tables, screen>>

\* buy of Credits.tsx: its purchase has been made, and the page is loaded anew
Bought(s) ==
  /\ kind \in {"ledger", "purchases"}
  /\ Ask(s, Top)
  /\ UNCHANGED <<tables, screen, hurried>>

\* an answer to come that is of an earlier first page
Outdated(q) == IF Free(q) THEN requests[q] ELSE [requests[q] EXCEPT !.stale = TRUE]

\* the first page replaces what is shown
ShowTop(s) ==
  /\ requests[s].state = "answered" /\ requests[s].cursor = Top
  /\ shown' = [i \in DOMAIN requests[s].answer.rows |-> requests[s].answer.rows[i].id]
  /\ next' = requests[s].answer.next
  /\ base' = requests[s].base
  /\ crossed' = FALSE /\ hurried' = FALSE
  /\ requests' = [q \in Fetches |-> IF q = s THEN NoRequest ELSE Outdated(q)]
  /\ UNCHANGED tables

\* the others are appended
ShowMore(s) ==
  /\ requests[s].state = "answered" /\ requests[s].cursor # Top
  /\ shown' = shown \o [i \in DOMAIN requests[s].answer.rows |-> requests[s].answer.rows[i].id]
  /\ next' = requests[s].answer.next
  /\ crossed' = (crossed \/ requests[s].stale)
  /\ requests' = [requests EXCEPT ![s] = NoRequest]
  /\ UNCHANGED <<tables, base, hurried>>

\* remove of Members.tsx
RemoveMember(s, id) ==
  /\ kind = "members" /\ id \in ToSet(shown)
  /\ Free(s)
  /\ requests' = [requests EXCEPT ![s] = [NoRequest EXCEPT !.state = "delete", !.id = id]]
  /\ UNCHANGED <<tables, screen, hurried>>

\* filter: what differs from id, in its order
Without(ids, id) ==
  LET kept == Ordered({i \in DOMAIN ids : ids[i] # id}, <) IN
  [i \in DOMAIN kept |-> ids[kept[i]]]

Removed(s) ==
  /\ requests[s].state = "deleted"
  /\ shown' = Without(shown, requests[s].id)
  /\ requests' = [requests EXCEPT ![s] = NoRequest]
  /\ UNCHANGED <<tables, next, base, crossed, hurried>>

\* no answer, or an error: the page stays as it is
Fails(s) ==
  /\ ~ Free(s)
  /\ requests' = [requests EXCEPT ![s] = NoRequest]
  /\ UNCHANGED <<tables, screen, hurried>>

-----------------------------------------------------------------------------
\* the page asks for its list when it is opened
Init ==
  /\ kind \in Kinds
  /\ now = 0 /\ begun = [w \in Writers |-> NotOpen]
  /\ rows = {} /\ removed = {}
  /\ \E first \in Fetches :
       requests = [s \in Fetches |-> IF s = first THEN [NoRequest EXCEPT !.state = "sent"]
                                   ELSE NoRequest]
  /\ shown = <<>> /\ next = End
  /\ base = {} /\ crossed = FALSE /\ hurried = FALSE

Database == \/ \E w \in Writers : Begin(w) \/ Commit(w)
            \/ \E id \in Ids : RemovedElsewhere(id)
            \/ Tick

Handler(s) ==
  \/ GetLedger(s) \/ GetReservations(s) \/ GetMyReservations(s)
  \/ GetPurchases(s) \/ GetAuditEvents(s) \/ GetMembers(s) \/ DeleteMember(s)

Page(s) ==
  \/ LoadMore(s) \/ Bought(s) \/ ShowTop(s) \/ ShowMore(s) \/ Removed(s) \/ Fails(s)
  \/ \E id \in Ids : RemoveMember(s, id)

Next == Database \/ \E s \in Fetches : Handler(s) \/ Page(s)

Spec == Init /\ [][Next]_vars

-----------------------------------------------------------------------------
Cursors == [milli : 0..MaxTime, micro : 0..MicrosPerMilli - 1, id : Ids \cup {-1, -2}]

TypeOK ==
  /\ now \in 0..MaxTime /\ begun \in [Writers -> 0..MaxTime \cup {NotOpen}]
  /\ rows \subseteq [id : Ids, at : 0..now, mine : BOOLEAN]
  /\ removed \subseteq {r.id : r \in rows} /\ base \subseteq rows
  /\ shown \in Seq({r.id : r \in rows})
  /\ next \in Cursors
  /\ \A s \in Fetches :
       /\ requests[s].state \in {"none", "sent", "answered", "delete", "deleted"}
       /\ requests[s].cursor \in Cursors \ {End}
       /\ Len(requests[s].answer.rows) <= Limit

Quiet == \A s \in Fetches : Free(s)
Listed == {r \in base : r.id \notin removed /\ (kind = "mine" => r.mine)}

(* When there is no more to load, the page shows every row that was there  *)
(* when its top was read and has not been deleted: pages neither overlap   *)
(* nor leave a gap where rows have the same time, whatever is written or   *)
(* deleted meanwhile, also the row the cursor is of.  Only a page that is  *)
(* appended below a newer top leaves a gap (Credits.tsx).                  *)
NothingSkipped ==
  Quiet /\ next = End /\ ~ crossed => {r.id : r \in Listed} \subseteq ToSet(shown)

(* No row is shown twice, unless the button has been pressed again before  *)
(* the answer came.                                                        *)
NoRepeats == ~ crossed /\ ~ hurried => IsInjective(shown)
=============================================================================
