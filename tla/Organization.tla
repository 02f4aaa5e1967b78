---------------------------- MODULE Organization ----------------------------
(***************************************************************************)
(* What the members of an organization can rely on: its tables, and what a *)
(* committed transaction of apps/api/src/routes/members.ts, of             *)
(* registerUser or of the bootstrap command does to them, each in one      *)
(* step.  Membership has the same tables and gets there statement by       *)
(* statement, several requests at a time.                                  *)
(*                                                                         *)
(* A person is an email address and has one membership at a time.  Left    *)
(* out: what other organizations do, and audit rows.                       *)
(***************************************************************************)
EXTENDS Integers, Sequences, FiniteSets

CONSTANTS
  People,         \* email addresses
  Operator,       \* the one BOOTSTRAP_EMAIL names
  MaxInvitations  \* invitations ever made

ASSUME PeopleAssumption == Operator \in People /\ IsFiniteSet(People)
ASSUME InvitationsAssumption == MaxInvitations \in Nat

VARIABLES
  users,       \* people with an account
  elsewhere,   \* those of them who administer an organization of their own
  founded,     \* is there the organization
  members,     \* the membership of each person
  invitations, \* the invitations
  made,        \* whom each invitation made a member, in order
  over,        \* pending invitations whose expires_at has passed
  bootstraps   \* how many bootstrap commands created an administrator

accounts == <<users, elsewhere, founded, bootstraps>>
invited == <<invitations, made, over>>
organization == <<accounts, members, invited>>

Invitations == 1..MaxInvitations
Roles == {"administrator", "member"}
Statuses == {"active", "suspended"}

NoMember == [role |-> "member", status |-> "none"]
NoInvitation == [email |-> Operator, role |-> "member", status |-> "none"]

OrganizationInit ==
  /\ users = {} /\ elsewhere = {} /\ founded = FALSE
  /\ members = [p \in People |-> NoMember]
  /\ invitations = [i \in Invitations |-> NoInvitation]
  /\ made = [i \in Invitations |-> <<>>]
  /\ over = {}
  /\ bootstraps = 0

-----------------------------------------------------------------------------
Present(p) == members[p].status \in Statuses
PendingFor(p) == {i \in Invitations : invitations[i].status = "pending"
                                      /\ invitations[i].email = p}

\* countActiveAdmins counts these
ActiveAdmins ==
  {p \in People : members[p].role = "administrator" /\ members[p].status = "active"}

UnusedInvitations == {i \in Invitations : invitations[i].status = "none"}

-----------------------------------------------------------------------------
(* A change of a membership leaves an active administrator.                *)
Change(p, member) ==
  /\ Present(p)
  /\ members' = [members EXCEPT ![p] = member]
  /\ ActiveAdmins' # {}
  /\ UNCHANGED <<accounts, invited>>

\* PATCH role, PATCH status and DELETE
ChangeRole(p) == \E role \in Roles : Change(p, [members[p] EXCEPT !.role = role])
ChangeStatus(p) == \E status \in Statuses : Change(p, [members[p] EXCEPT !.status = status])
Remove(p) == Change(p, NoMember)

\* POST /members/invitations: only what has run out is replaced.  Nothing keeps the
\* person from becoming a member meanwhile.
Invite(p) ==
  /\ founded
  /\ PendingFor(p) \subseteq over
  /\ \E i \in UnusedInvitations, role \in Roles :
       invitations' = [j \in Invitations |->
         IF j = i THEN [email |-> p, role |-> role, status |-> "pending"]
         ELSE IF j \in PendingFor(p) THEN [invitations[j] EXCEPT !.status = "expired"]
         ELSE invitations[j]]
  /\ over' = over \ PendingFor(p)
  /\ UNCHANGED <<accounts, members, made>>

\* POST /members/invitations/accept, with an account or with a new one: the invitation
\* is used up, and who it was for is a member and was none
BecomeMember(i) ==
  LET p == invitations[i].email IN
  /\ invitations[i].status = "pending" /\ ~ Present(p)
  /\ invitations' = [invitations EXCEPT ![i].status = "accepted"]
  /\ members' = [members EXCEPT ![p] = [role |-> invitations[i].role, status |-> "active"]]
  /\ made' = [made EXCEPT ![i] = Append(@, p)]
  /\ users' = users \cup {p}
  /\ over' = over \ {i}
  /\ UNCHANGED <<elsewhere, founded, bootstraps>>

\* registerUser: an account and an organization of its own, the first one this one
Found(p) ==
  /\ p \notin users
  /\ users' = users \cup {p}
  /\ founded' = TRUE
  /\ IF founded
     THEN elsewhere' = elsewhere \cup {p} /\ members' = members
     ELSE /\ members' = [members EXCEPT ![p] = [role |-> "administrator", status |-> "active"]]
          /\ elsewhere' = elsewhere
  /\ UNCHANGED invited

Register(p) == Found(p) /\ bootstraps' = bootstraps
Bootstrap == Found(Operator) /\ bootstraps' = bootstraps + 1

\* seven days pass
RunOut(i) ==
  /\ invitations[i].status = "pending" /\ i \notin over
  /\ over' = over \cup {i}
  /\ UNCHANGED <<accounts, members, invitations, made>>

OrganizationNext ==
  \/ \E p \in People : ChangeRole(p) \/ ChangeStatus(p) \/ Remove(p) \/ Invite(p) \/ Register(p)
  \/ Bootstrap
  \/ \E i \in Invitations : BecomeMember(i) \/ RunOut(i)

OrganizationSpec == OrganizationInit /\ [][OrganizationNext]_organization

-----------------------------------------------------------------------------
(* docs/assignment.md, 4.1: every organization has an active administrator *)
(* at all times, whoever demotes, suspends or removes whom at the same     *)
(* time (the lock of the organization and the guard of                     *)
(* routes/members.ts).                                                     *)
AdministratorRemains == founded => ActiveAdmins # {}

(* An accepted invitation has made one member, the person it was for, and  *)
(* every other none, however acceptances, failures and new invitations     *)
(* interleave.                                                             *)
InvitationUsedOnce ==
  \A i \in Invitations :
    made[i] = IF invitations[i].status = "accepted" THEN <<invitations[i].email>> ELSE <<>>

(* Nobody has two invitations pending, so that no two answers of the API   *)
(* hand out tokens that are both good (uq_invitations_org_pending_email).  *)
OnePending ==
  \A i, j \in Invitations :
    invitations[i].status = "pending" /\ invitations[j].status = "pending"
      /\ invitations[i].email = invitations[j].email => i = j
=============================================================================
