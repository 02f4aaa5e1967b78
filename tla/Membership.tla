----------------------------- MODULE Membership -----------------------------
(***************************************************************************)
(* The members of one organization and its invitations: the transactions   *)
(* of apps/api/src/routes/members.ts, registerUser and the bootstrap       *)
(* command, several at a time on any replica (READ COMMITTED).             *)
(*                                                                         *)
(* A step is a statement that reads what others may change or that waits   *)
(* for a lock; statements whose effect nobody sees or waits for before     *)
(* COMMIT (the UPDATE of a membership under the lock of the organization)  *)
(* are part of the commit.  The locks are those of PostgreSQL: SELECT ...  *)
(* FOR UPDATE of the organization, the KEY SHARE lock a foreign key takes  *)
(* on it, and the entries of unique indexes that an open transaction       *)
(* has written.                                                            *)
(*                                                                         *)
(* The tables, and what a transaction makes of them when it commits, are   *)
(* those of Organization.  Whoever has an account can log in at any moment *)
(* and need not be, so sessions are not kept: an active membership is what *)
(* a session needs to count.  Left out: the eviction of sessions           *)
(* (SessionCache).                                                         *)
(***************************************************************************)
EXTENDS Organization

CONSTANTS
  Requests,       \* requests and bootstrap commands at a time
  Nobody          \* no request

ASSUME NobodyAssumption == Nobody \notin Requests

VARIABLES
  orgLock,     \* the request that holds the organization FOR UPDATE
  requests     \* where each request is

vars == <<users, elsewhere, founded, members, invitations, made, over, orgLock, requests,
          bootstraps>>
tables == <<users, elsewhere, founded, members, invitations, made, bootstraps>>

\* what an administrator may make of a membership: a role, a status, or nothing
Targets == Roles \cup Statuses \cup {"removed"}

Idle == [pc |-> "idle", op |-> "none", who |-> Operator, row |-> 0, to |-> "member",
         over |-> {}, before |-> FALSE]

Init ==
  /\ OrganizationInit
  /\ orgLock = Nobody
  /\ requests = [r \in Requests |-> Idle]

-----------------------------------------------------------------------------
HasAnyAdministrator == ActiveAdmins # {} \/ elsewhere # {}

\* resolveAuthContext: a session counts while a membership is active, here or elsewhere
SignedIn(p) == p \in elsewhere \/ members[p].status = "active"

At(r, pc) == requests[r].pc = pc
Goto(r, pc) == requests' = [requests EXCEPT ![r].pc = pc]
\* the answer of a request whose transaction has ended
End(r) == requests' = [requests EXCEPT ![r] = Idle]

\* what the request is about; now() stays that of BEGIN, and with it which of the
\* pending invitations of the person are over
Begin(r, pc, op, p, row, to) ==
  /\ At(r, "idle")
  /\ requests' = [requests EXCEPT ![r] =
       [pc |-> pc, op |-> op, who |-> p, row |-> row, to |-> to,
        over |-> IF op \in {"invite", "accept", "join"} THEN over \cap PendingFor(p) ELSE {},
        before |-> HasAnyAdministrator /\ op = "bootstrap"]]

-----------------------------------------------------------------------------
(* Locks.                                                                  *)

\* a foreign key of a row that r inserted holds the organization FOR KEY SHARE
SharesOrg(r) == requests[r].pc = "commit" /\ requests[r].op \in {"accept", "join", "invite"}

\* has r changed the pending invitation of p, or inserted it
WrotePending(r, p) ==
  /\ requests[r].who = p
  /\ \/ requests[r].op \in {"accept", "join"} /\ requests[r].pc \in {"account", "insert", "commit"}
     \/ requests[r].op = "invite" /\ requests[r].pc = "commit"
     \/ requests[r].op = "invite" /\ requests[r].pc \in {"check", "insert"}
        /\ PendingFor(p) \cap requests[r].over # {}

\* has r inserted the account of p
WroteAccount(r, p) ==
  /\ requests[r].who = p
  /\ \/ requests[r].op = "join" /\ requests[r].pc \in {"insert", "commit"}
     \/ requests[r].op \in {"register", "bootstrap"} /\ requests[r].pc = "commit"

\* has r inserted the membership of p
WroteMember(r, p) ==
  requests[r].who = p /\ requests[r].op \in {"accept", "join"} /\ requests[r].pc = "commit"

\* can the invitation of r be marked accepted, and is it not over since BEGIN
Acceptable(r) ==
  invitations[requests[r].row].status = "pending" /\ requests[r].row \notin requests[r].over

\* the open transactions that the next statement of r waits for: for the organization, ...
WaitsForOrg(r, q) ==
  \/ At(r, "lock") /\ (orgLock = q \/ SharesOrg(q))
  \/ At(r, "insert") /\ orgLock = q

\* ... or for an entry of a unique index
WaitsForEntry(r, q) ==
  LET p == requests[r].who IN
  \/ At(r, "expire") /\ PendingFor(p) \cap requests[r].over # {} /\ WrotePending(q, p)
  \/ At(r, "insert") /\ requests[r].op = "invite" /\ WrotePending(q, p)
  \/ At(r, "accept") /\ Acceptable(r) /\ WrotePending(q, invitations[requests[r].row].email)
  \/ At(r, "insert") /\ requests[r].op \in {"accept", "join"} /\ WroteMember(q, p)
  \/ At(r, "account") /\ WroteAccount(q, p)

WaitsFor(r, q) == q # r /\ (WaitsForOrg(r, q) \/ WaitsForEntry(r, q))
Ready(r) == \A q \in Requests : ~ WaitsFor(r, q)

Unlock(r) == orgLock' = IF orgLock = r THEN Nobody ELSE orgLock

-----------------------------------------------------------------------------
(* PATCH role, PATCH status and DELETE of a membership.  Who may is read   *)
(* when the request starts, and the transaction begins any time later.     *)
StartChange(r) ==
  \E p, q \in People, to \in Targets :
    /\ p \in ActiveAdmins
    /\ Present(q)
    /\ Begin(r, "lock", "change", q, 1, to)
    /\ UNCHANGED <<tables, over, orgLock>>

\* A plausible bug: the row of the organization is not locked.
LockNothing(r) ==
  /\ At(r, "lock")
  /\ Goto(r, "guard")
  /\ UNCHANGED <<tables, over, orgLock>>

\* SELECT 1 FROM organizations ... FOR UPDATE
Lock(r) ==
  /\ At(r, "lock")
  /\ Ready(r)
  /\ orgLock' = r
  /\ Goto(r, "guard")
  /\ UNCHANGED <<tables, over>>

\* the role is changed after the count of administrators when it demotes one ...
Demotes(p, to) == members[p].role = "administrator" /\ to = "member"

\* ... the status when it suspends one, also one who is suspended already ...
Suspends(p, to) == members[p].role = "administrator" /\ to = "suspended"

\* ... and the membership goes when it is that of an active one
Removes(p, to) == p \in ActiveAdmins /\ to = "removed"

MustCount(p, to) == Demotes(p, to) \/ Suspends(p, to) \/ Removes(p, to)

\* A plausible bug: the count includes suspended administrators.
GuardCountingAll(r) ==
  LET p == requests[r].who to == requests[r].to
      administrators == {q \in People : Present(q) /\ members[q].role = "administrator"} IN
  /\ At(r, "guard")
  /\ IF requests[r].row = 0 THEN End(r) /\ Unlock(r)
     ELSE /\ Goto(r, IF MustCount(p, to) /\ Cardinality(administrators) <= 1
                     THEN "refused" ELSE "commit")
          /\ UNCHANGED orgLock
  /\ UNCHANGED <<tables, over>>

\* findById, 404 when the row is gone, and countActiveAdmins where it is called for
Guard(r) ==
  LET p == requests[r].who to == requests[r].to IN
  /\ At(r, "guard")
  /\ IF requests[r].row = 0 THEN End(r) /\ Unlock(r)
     ELSE /\ Goto(r, IF MustCount(p, to) /\ Cardinality(ActiveAdmins) <= 1
                     THEN "refused" ELSE "commit")
          /\ UNCHANGED orgLock
  /\ UNCHANGED <<tables, over>>

\* A plausible bug: the client is answered and its transaction left open.
LeaveOpen(r) ==
  /\ At(r, "refused")
  /\ End(r)
  /\ UNCHANGED <<tables, over, orgLock>>

\* 403: the transaction is rolled back
Refuse(r) ==
  /\ At(r, "refused")
  /\ Unlock(r)
  /\ End(r)
  /\ UNCHANGED <<tables, over>>

Changing(r, targets) ==
  /\ At(r, "commit") /\ requests[r].op = "change" /\ requests[r].to \in targets
  /\ Unlock(r)
  /\ UNCHANGED <<users, elsewhere, founded, invitations, made, over, bootstraps>>

CommitRole(r) ==
  /\ Changing(r, Roles)
  /\ members' = [members EXCEPT ![requests[r].who].role = requests[r].to]
  /\ End(r)

\* A plausible bug: the status is written into the column of the role.
CommitStatusAsRole(r) ==
  /\ Changing(r, Statuses)
  /\ members' = [members EXCEPT ![requests[r].who].role = requests[r].to]
  /\ End(r)

CommitStatus(r) ==
  /\ Changing(r, Statuses)
  /\ members' = [members EXCEPT ![requests[r].who].status = requests[r].to]
  /\ End(r)

\* the row is gone, also for the requests that name its id
CommitRemoval(r) ==
  /\ Changing(r, {"removed"})
  /\ members' = [members EXCEPT ![requests[r].who] = NoMember]
  /\ requests' = [q \in Requests |->
       IF q = r THEN Idle
       ELSE IF requests[q].op = "change" /\ requests[q].who = requests[r].who
       THEN [requests[q] EXCEPT !.row = 0] ELSE requests[q]]

-----------------------------------------------------------------------------
(* POST /members/invitations. *)
StartInvite(r) ==
  \E q \in People, role \in Roles :
    /\ ActiveAdmins # {}
    /\ Cardinality({s \in Requests : requests[s].op = "invite"}) < Cardinality(UnusedInvitations)
    /\ Begin(r, "expire", "invite", q, 0, role)
    /\ UNCHANGED <<tables, over, orgLock>>

\* invitations.expirePendingForEmail, with now() of the start of the transaction
ExpirePending(r) ==
  /\ At(r, "expire")
  /\ Ready(r)
  /\ Goto(r, "check")
  /\ UNCHANGED <<tables, over, orgLock>>

\* memberships.findByOrgAndEmail
CheckMember(r) ==
  /\ At(r, "check")
  /\ IF Present(requests[r].who) THEN End(r) ELSE Goto(r, "insert")
  /\ UNCHANGED <<tables, over, orgLock>>

\* A plausible bug: no unique index.
InsertInvitationTwice(r) ==
  /\ At(r, "insert") /\ requests[r].op = "invite"
  /\ Ready(r)
  /\ Goto(r, "commit")
  /\ UNCHANGED <<tables, over, orgLock>>

\* invitations.create: waits for an open writer of the same pending entry
InsertInvitation(r) ==
  LET p == requests[r].who IN
  /\ At(r, "insert") /\ requests[r].op = "invite"
  /\ Ready(r)
  /\ IF PendingFor(p) \ requests[r].over # {} THEN End(r) ELSE Goto(r, "commit")
  /\ UNCHANGED <<tables, over, orgLock>>

CommitInvite(r) ==
  LET p == requests[r].who
      new == CHOOSE i \in UnusedInvitations : \A j \in UnusedInvitations : i <= j IN
  /\ At(r, "commit") /\ requests[r].op = "invite"
  /\ invitations' = [i \in Invitations |->
       IF i = new THEN [email |-> p, role |-> requests[r].to, status |-> "pending"]
       ELSE IF i \in PendingFor(p) \cap requests[r].over
       THEN [invitations[i] EXCEPT !.status = "expired"] ELSE invitations[i]]
  /\ over' = over \ (PendingFor(p) \cap requests[r].over)
  /\ End(r)
  /\ UNCHANGED <<users, elsewhere, founded, members, made, orgLock, bootstraps>>

-----------------------------------------------------------------------------
(* POST /members/invitations/accept, of somebody who is signed in ...      *)
StartAccept(r) ==
  \E p \in People, i \in Invitations :
    /\ SignedIn(p) /\ invitations[i].status # "none"
    /\ Begin(r, "accept", "accept", p, i, "member")
    /\ UNCHANGED <<tables, over, orgLock>>

\* ... or not: the person the invitation is for, with a password
StartJoin(r) ==
  \E i \in Invitations :
    /\ invitations[i].status # "none"
    /\ Begin(r, "find", "join", invitations[i].email, i, "member")
    /\ UNCHANGED <<tables, over, orgLock>>

\* findByTokenHash, against the clock of the process
FindInvitation(r) ==
  /\ At(r, "find")
  /\ IF invitations[requests[r].row].status # "pending" \/ requests[r].row \in over
     THEN End(r) ELSE Goto(r, "findAccount")
  /\ UNCHANGED <<tables, over, orgLock>>

FindAccount(r) ==
  /\ At(r, "findAccount")
  /\ IF requests[r].who \in users THEN End(r) ELSE Goto(r, "accept")
  /\ UNCHANGED <<tables, over, orgLock>>

\* A plausible bug: the invitation is marked accepted by its id, whatever its status.
AcceptAny(r) ==
  /\ At(r, "accept")
  /\ IF invitations[requests[r].row].email # requests[r].who
     THEN End(r)
     ELSE Goto(r, IF requests[r].op = "join" THEN "account" ELSE "insert")
  /\ UNCHANGED <<tables, over, orgLock>>

\* acceptPendingByTokenHash: waits for an open writer of the row and looks at it again
Accept(r) ==
  /\ At(r, "accept")
  /\ Ready(r)
  /\ IF ~ Acceptable(r) \/ invitations[requests[r].row].email # requests[r].who
     THEN End(r)
     ELSE Goto(r, IF requests[r].op = "join" THEN "account" ELSE "insert")
  /\ UNCHANGED <<tables, over, orgLock>>

\* memberships.create: at most one for a person, and the foreign key waits for the organization
InsertMember(r) ==
  /\ At(r, "insert") /\ requests[r].op \in {"accept", "join"}
  /\ Ready(r)
  /\ IF Present(requests[r].who) THEN End(r) ELSE Goto(r, "commit")
  /\ UNCHANGED <<tables, over, orgLock>>

CommitAccept(r) ==
  LET i == requests[r].row p == requests[r].who IN
  /\ At(r, "commit") /\ requests[r].op \in {"accept", "join"}
  /\ invitations' = [invitations EXCEPT ![i].status = "accepted"]
  /\ members' = [members EXCEPT ![p] = [role |-> invitations[i].role, status |-> "active"]]
  /\ made' = [made EXCEPT ![i] = Append(@, p)]
  /\ users' = users \cup {p}
  /\ over' = over \ {i}
  /\ End(r)
  /\ UNCHANGED <<elsewhere, founded, orgLock, bootstraps>>

-----------------------------------------------------------------------------
(* POST /auth/register and the bootstrap command: an account, and an       *)
(* organization of its own.  The first to commit founds the organization   *)
(* of this module.                                                         *)
StartRegister(r) ==
  \E p \in People :
    /\ Begin(r, "account", "register", p, 0, "administrator")
    /\ UNCHANGED <<tables, over, orgLock>>

StartBootstrap(r) ==
  /\ Begin(r, "hasAdministrator", "bootstrap", Operator, 0, "administrator")
  /\ UNCHANGED <<tables, over, orgLock>>

\* A plausible bug: the command does not look first.
NeverSkip(r) ==
  /\ At(r, "hasAdministrator")
  /\ Goto(r, "account")
  /\ UNCHANGED <<tables, over, orgLock>>

\* a transaction of its own
CheckAdministrator(r) ==
  /\ At(r, "hasAdministrator")
  /\ IF HasAnyAdministrator THEN End(r) ELSE Goto(r, "account")
  /\ UNCHANGED <<tables, over, orgLock>>

\* users.create: the address is unique, and an open writer of it is waited for
InsertAccount(r) ==
  LET p == requests[r].who IN
  /\ At(r, "account")
  /\ Ready(r)
  /\ IF p \in users THEN End(r) ELSE Goto(r, IF requests[r].op = "join" THEN "insert" ELSE "commit")
  /\ UNCHANGED <<tables, over, orgLock>>

CommitRegister(r) ==
  LET p == requests[r].who IN
  /\ At(r, "commit") /\ requests[r].op \in {"register", "bootstrap"}
  /\ users' = users \cup {p}
  /\ founded' = TRUE
  /\ IF founded
     THEN elsewhere' = elsewhere \cup {p} /\ members' = members
     ELSE /\ members' = [members EXCEPT ![p] = [role |-> "administrator", status |-> "active"]]
          /\ elsewhere' = elsewhere
  /\ bootstraps' = IF requests[r].op = "bootstrap" THEN bootstraps + 1 ELSE bootstraps
  /\ End(r)
  /\ UNCHANGED <<invitations, made, over, orgLock>>

-----------------------------------------------------------------------------
\* any statement or the COMMIT may fail, or the connection: the transaction is rolled back
Fail(r) ==
  /\ ~ At(r, "idle")
  /\ Unlock(r)
  /\ End(r)
  /\ UNCHANGED <<tables, over>>

\* seven days pass
Age(i) ==
  /\ invitations[i].status = "pending" /\ i \notin over
  /\ over' = over \cup {i}
  /\ UNCHANGED <<tables, orgLock, requests>>

Start(r) ==
  \/ StartChange(r) \/ StartInvite(r) \/ StartAccept(r) \/ StartJoin(r)
  \/ StartRegister(r) \/ StartBootstrap(r)

\* the next statement of a request
Proceed(r) ==
  \/ Lock(r) \/ Guard(r) \/ Refuse(r) \/ CommitRole(r) \/ CommitStatus(r) \/ CommitRemoval(r)
  \/ ExpirePending(r) \/ CheckMember(r) \/ InsertInvitation(r) \/ CommitInvite(r)
  \/ FindInvitation(r) \/ FindAccount(r) \/ Accept(r) \/ InsertMember(r) \/ CommitAccept(r)
  \/ CheckAdministrator(r) \/ InsertAccount(r) \/ CommitRegister(r)

Next ==
  \/ \E r \in Requests : Start(r) \/ Proceed(r) \/ Fail(r)
  \/ \E i \in Invitations : Age(i)

Spec == Init /\ [][Next]_vars

-----------------------------------------------------------------------------
TypeOK ==
  /\ users \subseteq People /\ elsewhere \subseteq users
  /\ founded \in BOOLEAN
  /\ members \in [People -> [role : Roles, status : Statuses \cup {"none"}]]
  /\ \A p \in People : Present(p) => p \in users
  /\ invitations \in [Invitations -> [email : People, role : Roles,
                                       status : {"none", "pending", "accepted", "expired"}]]
  /\ \A i \in over : i \in Invitations /\ invitations[i].status = "pending"
  /\ orgLock \in Requests \cup {Nobody}
  /\ \A r \in Requests : requests[r].who \in People /\ requests[r].to \in Targets

(* When a change is refused because one administrator must remain, there   *)
(* is no other at that moment: nobody becomes one between the count and    *)
(* the answer.                                                             *)
RefusalIsTrue ==
  \A r \in Requests : At(r, "refused") => Cardinality(ActiveAdmins) = 1

(* OPERATIONS.md, bootstrap: idempotent.  Commands that run one after the  *)
(* other or together create one administrator at most, and none when there *)
(* is one.                                                                 *)
BootstrapOnce ==
  /\ bootstraps <= 1
  /\ \A r \in Requests : requests[r].op = "bootstrap" /\ At(r, "commit") => ~ requests[r].before

(* Requests do not wait for each other in a circle (organization, pending  *)
(* entry, account, membership), nor for what somebody has left behind: of  *)
(* any that wait, one waits only for requests under way that do not.       *)
NoLockCycle ==
  \A waiting \in SUBSET Requests :
    waiting # {} =>
      \E r \in waiting : \A q \in Requests : WaitsFor(r, q) => q \notin waiting /\ ~ At(q, "idle")

(* The statements of concurrent requests never mix: every transaction that *)
(* commits does what it would have done alone (members.ts, registerUser).  *)
ImplementsOrganization == OrganizationSpec
=============================================================================
