------------------------- MODULE Membership_proofs -------------------------
(***************************************************************************)
(* The invariants of Membership about administrators and invitations, for  *)
(* every number of people, requests and invitations.                       *)
(***************************************************************************)
EXTENDS Membership, FiniteSetTheorems, TLAPS

Places == {"idle", "lock", "guard", "refused", "expire", "check", "insert", "find", "findAccount",
           "accept", "account", "hasAdministrator", "commit"}
Operations == {"none", "change", "invite", "accept", "join", "register", "bootstrap"}
Request == [pc : Places, op : Operations, who : People, row : {0, 1} \cup Invitations, to : Targets,
            over : SUBSET Invitations, before : BOOLEAN]

(* TypeOK and what the prover needs of the requests besides. *)
Typed == TypeOK /\ requests \in [Requests -> Request] /\ bootstraps \in Nat

(* Which operation a request is in at a place. *)
PlacedAt(x) ==
  /\ x.pc \in {"lock", "guard", "refused"} => x.op = "change"
  /\ x.pc = "account" => x.op \in {"join", "register", "bootstrap"}
  /\ x.pc \in {"find", "findAccount"} => x.op = "join"
  /\ x.pc = "accept" => x.op \in {"accept", "join"}
  /\ x.pc \in {"expire", "check"} => x.op = "invite"
  /\ x.pc = "hasAdministrator" => x.op = "bootstrap"
  /\ x.op = "invite" => x.to \in Roles
  /\ x.op \in {"accept", "join"} => x.row \in Invitations

Placed == \A r \in Requests : PlacedAt(requests[r])

(* Before there is the organization nobody is in it or about to change it. *)
Founding ==
  ~ founded =>
    /\ elsewhere = {}
    /\ \A p \in People : ~ Present(p)
    /\ \A i \in Invitations : invitations[i].status = "none"
    /\ \A r \in Requests : /\ requests[r].op \in {"none", "register", "bootstrap"}
                           /\ ~ requests[r].before

(* Past the lock a change of a membership holds the organization, *)
Locked ==
  \A r \in Requests :
    At(r, "guard") \/ At(r, "refused") \/ (At(r, "commit") /\ requests[r].op = "change")
      => orgLock = r

(* and nobody else has a membership or an invitation of it inserted. *)
Shared == \A r \in Requests : SharesOrg(r) => orgLock \in {Nobody, r}

(* A change that still finds its row names a member. *)
NamesMember ==
  \A r \in Requests :
    requests[r].op = "change" => /\ requests[r].row # 0 => Present(requests[r].who)
                                 /\ At(r, "commit") => requests[r].row # 0

(* What is free for r to take: nobody else holds the organization, or has  *)
(* inserted into it, or has written the entry of a person.                 *)
OrgLockable(r) == orgLock \in {Nobody, r} /\ \A q \in Requests \ {r} : ~ SharesOrg(q)
OrgShareable(r) == orgLock \in {Nobody, r}
PendingFree(r, p) == \A q \in Requests \ {r} : ~ WrotePending(q, p)
AccountFree(r, p) == \A q \in Requests \ {r} : ~ WroteAccount(q, p)
MemberFree(r, p) == \A q \in Requests \ {r} : ~ WroteMember(q, p)

(* A person whose membership is inserted has no other, nor another on its way. *)
Inserting ==
  \A r \in Requests :
    At(r, "commit") /\ requests[r].op \in {"accept", "join"}
      => /\ ~ Present(requests[r].who)
         /\ MemberFree(r, requests[r].who)

(* A change that is about to commit leaves an active administrator: what   *)
(* the guard has counted is still true under the lock.                     *)
Guarded ==
  \A r \in Requests :
    /\ At(r, "commit") /\ requests[r].op = "change"
    /\ requests[r].to \in {"member", "suspended", "removed"}
    /\ requests[r].who \in ActiveAdmins
    => \E p \in ActiveAdmins : p # requests[r].who

(* The inductive invariant. *)
Administered ==
  /\ Typed /\ Placed /\ Founding /\ Locked /\ Shared /\ NamesMember /\ Inserting /\ Guarded
  /\ AdministratorRemains /\ RefusalIsTrue

-----------------------------------------------------------------------------
LEMMA InitAdministered == Init => Administered
<1> SUFFICES ASSUME Init PROVE Administered
  OBVIOUS
<1> USE DEF Init, OrganizationInit
<1>1. Idle \in Request /\ NoMember \in [role : Roles, status : Statuses \cup {"none"}]
  BY PeopleAssumption
     DEF Idle, NoMember, Request, Places, Operations, Roles, Statuses, Targets
<1>2. NoInvitation \in [email : People, role : Roles,
                        status : {"none", "pending", "accepted", "expired"}]
  BY PeopleAssumption DEF NoInvitation, Roles
<1>3. \A r \in Requests : requests[r] = Idle
  OBVIOUS
<1>4. \A p \in People : ~ Present(p)
  BY DEF Present, NoMember, Statuses
<1>5. TypeOK
  BY <1>1, <1>2, <1>3, <1>4 DEF TypeOK, Request
<1>6. Typed
  BY <1>1, <1>5 DEF Typed
<1>7. Placed /\ Locked /\ Shared /\ NamesMember /\ Inserting /\ Guarded /\ RefusalIsTrue
  BY <1>3 DEF Placed, PlacedAt, Locked, Shared, SharesOrg, NamesMember, Inserting, Guarded,
              RefusalIsTrue, At, Idle
<1>8. Founding
  BY <1>3, <1>4 DEF Founding, Idle, NoInvitation
<1>9. AdministratorRemains
  BY DEF AdministratorRemains
<1> QED
  BY <1>6, <1>7, <1>8, <1>9 DEF Administered

LEMMA IdleIsRequest == Idle \in Request
BY PeopleAssumption DEF Idle, Request, Places, Operations, Roles, Statuses, Targets

(* What r may do to the lock of the organization. *)
LockStep(r) ==
  \/ orgLock' = orgLock
  \/ Unlock(r)
  \/ orgLock' = r /\ OrgLockable(r)

LEMMA LockType ==
  ASSUME Administered, NEW r \in Requests, LockStep(r)
  PROVE  /\ orgLock' \in Requests \cup {Nobody}
         /\ \A q \in Requests \ {r} : orgLock = q => orgLock' = q
         /\ \A q \in Requests \ {r} : SharesOrg(q) => orgLock' \in {Nobody, q}
<1>1. orgLock \in Requests \cup {Nobody}
  BY DEF Administered, Typed, TypeOK
<1>2. \A q \in Requests : SharesOrg(q) => orgLock \in {Nobody, q}
  BY DEF Administered, Shared
<1> QED
  BY <1>1, <1>2, NobodyAssumption DEF LockStep, Unlock, OrgLockable

(* A step that changes nothing but where one request is, and the lock. *)
LEMMA MoveKeeps ==
  ASSUME Administered, NEW r \in Requests, NEW x \in Request,
         requests' = [requests EXCEPT ![r] = x],
         UNCHANGED <<tables, over>>, LockStep(r),
         PlacedAt(x),
         founded \/ (x.op \in {"none", "register", "bootstrap"} /\ ~ x.before),
         x.pc \in {"guard", "refused"} \/ (x.pc = "commit" /\ x.op = "change") => orgLock' = r,
         x.pc = "commit" /\ x.op \in {"accept", "join", "invite"} => orgLock' \in {Nobody, r},
         x.op = "change" => (x.row # 0 => Present(x.who)) /\ (x.pc = "commit" => x.row # 0),
         x.pc = "commit" /\ x.op \in {"accept", "join"}
           => ~ Present(x.who) /\ MemberFree(r, x.who),
         x.pc = "commit" /\ x.op = "change" /\ x.to \in {"member", "suspended", "removed"}
           /\ x.who \in ActiveAdmins => \E p \in ActiveAdmins : p # x.who,
         x.pc = "refused" => Cardinality(ActiveAdmins) = 1
  PROVE  Administered'
<1> USE DEF Administered, Typed, tables
<1>1. /\ requests'[r] = x
      /\ \A q \in Requests : q # r => requests'[q] = requests[q]
  OBVIOUS
<1>2. /\ ActiveAdmins' = ActiveAdmins
      /\ \A p : Present(p)' = Present(p)
  BY DEF ActiveAdmins, Present
<1>3. Typed'
  <2>1. requests' \in [Requests -> Request]
    OBVIOUS
  <2>2. \A q \in Requests : requests'[q].who \in People /\ requests'[q].to \in Targets
    BY <2>1 DEF Request
  <2> QED
    BY <1>2, <2>1, <2>2, LockType DEF TypeOK
<1>4. Founding'
  BY <1>1, <1>2 DEF Founding
<1>5. Locked'
  BY <1>1, LockType DEF Locked, At
<1>6. Shared'
  <2> SUFFICES ASSUME NEW q \in Requests, SharesOrg(q)' PROVE orgLock' \in {Nobody, q}
    BY DEF Shared
  <2>1. CASE q = r
    BY <1>1, <2>1 DEF SharesOrg
  <2>2. CASE q # r
    BY <1>1, <2>2, LockType DEF SharesOrg
  <2> QED
    BY <2>1, <2>2
<1>7. NamesMember'
  BY <1>1, <1>2 DEF NamesMember, At
<1>8. Inserting'
  BY <1>1, <1>2 DEF Inserting, At, MemberFree, WroteMember
<1>9. Guarded'
  BY <1>1, <1>2 DEF Guarded, At
<1>10. AdministratorRemains' /\ RefusalIsTrue'
  BY <1>1, <1>2 DEF AdministratorRemains, RefusalIsTrue, At
<1>11. Placed'
  BY <1>1 DEF Placed
<1> QED
  BY <1>3, <1>4, <1>5, <1>6, <1>7, <1>8, <1>9, <1>10, <1>11

(* A request ends without having changed anything. *)
LEMMA EndKeeps ==
  ASSUME Administered, NEW r \in Requests, End(r), UNCHANGED <<tables, over>>, LockStep(r)
  PROVE  Administered'
<1>1. requests' = [requests EXCEPT ![r] = Idle]
  BY DEF End
<1>2. /\ Idle.pc = "idle" /\ Idle.op = "none" /\ Idle.before = FALSE /\ PlacedAt(Idle)
  BY DEF Idle, PlacedAt
<1> QED
  BY <1>1, <1>2, IdleIsRequest, MoveKeeps

(* A request begins. *)
LEMMA BeginKeeps ==
  ASSUME Administered, NEW r \in Requests,
         NEW pc \in Places \ {"guard", "refused", "commit"}, NEW op \in Operations,
         NEW p \in People, NEW row \in {0, 1} \cup Invitations, NEW to \in Targets,
         Begin(r, pc, op, p, row, to), UNCHANGED <<tables, over, orgLock>>,
         pc = "lock" => op = "change",
         pc = "account" => op \in {"join", "register", "bootstrap"},
         pc \in {"find", "findAccount"} => op = "join",
         pc = "accept" => op \in {"accept", "join"},
         pc \in {"expire", "check"} => op = "invite",
         pc = "hasAdministrator" => op = "bootstrap",
         op = "invite" => to \in Roles,
         op \in {"accept", "join"} => row \in Invitations,
         founded \/ op \in {"register", "bootstrap"},
         op = "change" => Present(p)
  PROVE  Administered'
<1> DEFINE begun == IF op \in {"invite", "accept", "join"} THEN over \cap PendingFor(p) ELSE {}
           x == [pc |-> pc, op |-> op, who |-> p, row |-> row, to |-> to, over |-> begun,
                 before |-> HasAnyAdministrator /\ op = "bootstrap"]
<1>1. requests' = [requests EXCEPT ![r] = x]
  BY DEF Begin
<1>2. begun \in SUBSET Invitations
  BY DEF PendingFor
<1>3. x \in Request
  BY <1>2 DEF Request
<1>4. ~ founded => ~ HasAnyAdministrator
  BY DEF Administered, Founding, HasAnyAdministrator, ActiveAdmins, Present, Statuses
<1>5. PlacedAt(x)
  BY DEF PlacedAt
<1>6. LockStep(r)
  BY DEF LockStep
<1>7. /\ x.pc = pc /\ x.op = op /\ x.row = row /\ x.who = p /\ x.to = to
      /\ ~ founded => ~ x.before
  BY <1>4
<1> HIDE DEF x, begun
<1> QED
  BY <1>1, <1>3, <1>5, <1>6, <1>7, MoveKeeps

(* A request goes on to another place, without a lock. *)
LEMMA GotoKeeps ==
  ASSUME Administered, NEW r \in Requests,
         NEW pc \in Places \ {"guard", "refused", "commit"},
         Goto(r, pc), UNCHANGED <<tables, over, orgLock>>,
         PlacedAt([requests[r] EXCEPT !.pc = pc])
  PROVE  Administered'
<1> DEFINE x == [requests[r] EXCEPT !.pc = pc]
<1>1. requests[r] \in Request
  BY DEF Administered, Typed
<1>2. /\ x \in Request /\ x.pc = pc
      /\ x.op = requests[r].op /\ x.row = requests[r].row /\ x.who = requests[r].who
      /\ x.before = requests[r].before
  BY <1>1 DEF Request
<1>3. founded \/ (x.op \in {"none", "register", "bootstrap"} /\ ~ x.before)
  BY <1>2 DEF Administered, Founding
<1>4. x.op = "change" => (x.row # 0 => Present(x.who))
  BY <1>2 DEF Administered, NamesMember
<1>5. requests' = [requests EXCEPT ![r] = x]
  BY DEF Goto
<1>6. LockStep(r)
  BY DEF LockStep
<1> HIDE DEF x
<1> QED
  BY <1>2, <1>3, <1>4, <1>5, <1>6, MoveKeeps DEF x

-----------------------------------------------------------------------------
LEMMA RequestFields ==
  ASSUME Administered, NEW r \in Requests
  PROVE  /\ requests[r] \in Request
         /\ requests[r].who \in People
         /\ requests[r].row \in {0, 1} \cup Invitations
         /\ PlacedAt(requests[r])
BY DEF Administered, Typed, Request, Placed

LEMMA Founded ==
  ASSUME Administered
  PROVE  /\ \A p \in People : Present(p) => founded
         /\ \A i \in Invitations : invitations[i].status # "none" => founded
         /\ \A r \in Requests : requests[r].op \in {"change", "invite", "accept", "join"} => founded
         /\ \A r \in Requests : requests[r].before => founded
         /\ HasAnyAdministrator <=> founded
BY DEF Administered, Founding, HasAnyAdministrator, ActiveAdmins, Present, Statuses,
       AdministratorRemains

(* Whoever waits for nobody finds free what the statement takes. *)
LEMMA ReadyMeans ==
  ASSUME Administered, NEW r \in Requests, Ready(r)
  PROVE  LET p == requests[r].who IN
         /\ At(r, "lock") => OrgLockable(r)
         /\ At(r, "insert") => OrgShareable(r)
         /\ At(r, "expire") /\ PendingFor(p) \cap requests[r].over # {} => PendingFree(r, p)
         /\ At(r, "insert") /\ requests[r].op = "invite" => PendingFree(r, p)
         /\ At(r, "accept") /\ Acceptable(r) => PendingFree(r, invitations[requests[r].row].email)
         /\ At(r, "insert") /\ requests[r].op \in {"accept", "join"} => MemberFree(r, p)
         /\ At(r, "account") => AccountFree(r, p)
<1>1. orgLock \in Requests \cup {Nobody}
  BY DEF Administered, Typed, TypeOK
<1>2. \A q \in Requests \ {r} : ~ WaitsForOrg(r, q) /\ ~ WaitsForEntry(r, q)
  BY DEF Ready, WaitsFor
<1>3. /\ At(r, "lock") => OrgLockable(r)
      /\ At(r, "insert") => OrgShareable(r)
  BY <1>1, <1>2 DEF WaitsForOrg, OrgLockable, OrgShareable
<1> QED
  BY <1>2, <1>3 DEF WaitsForEntry, PendingFree, MemberFree, AccountFree

LEMMA StartKeeps ==
  ASSUME Administered, NEW r \in Requests, Start(r)
  PROVE  Administered'
<1>1. \A p \in ActiveAdmins : p \in People /\ Present(p)
  BY DEF ActiveAdmins, Present, Statuses
<1>2. \A p \in People : SignedIn(p) => founded
  BY Founded DEF SignedIn, HasAnyAdministrator, Present, Statuses
<1>3. CASE StartChange(r)
  <2> PICK p \in People, q \in People, to \in Targets :
        /\ p \in ActiveAdmins /\ Present(q)
        /\ Begin(r, "lock", "change", q, 1, to)
        /\ UNCHANGED <<tables, over, orgLock>>
    BY <1>3 DEF StartChange
  <2>1. founded
    BY <1>1, Founded
  <2> QED
    BY <2>1, BeginKeeps DEF Places, Operations
<1>4. CASE StartInvite(r)
  <2> PICK q \in People, role \in Roles :
        /\ ActiveAdmins # {}
        /\ Begin(r, "expire", "invite", q, 0, role)
        /\ UNCHANGED <<tables, over, orgLock>>
    BY <1>4 DEF StartInvite
  <2>1. founded
    BY <1>1, Founded
  <2>2. role \in Targets
    BY DEF Targets
  <2> QED
    BY <2>1, <2>2, BeginKeeps DEF Places, Operations
<1>5. CASE StartAccept(r)
  <2> PICK p \in People, i \in Invitations :
        /\ SignedIn(p)
        /\ Begin(r, "accept", "accept", p, i, "member")
        /\ UNCHANGED <<tables, over, orgLock>>
    BY <1>5 DEF StartAccept
  <2>1. founded
    BY <1>2
  <2>2. "member" \in Targets
    BY DEF Targets, Roles
  <2> QED
    BY <2>1, <2>2, BeginKeeps DEF Places, Operations
<1>6. CASE StartJoin(r)
  <2> PICK i \in Invitations :
        /\ invitations[i].status # "none"
        /\ Begin(r, "find", "join", invitations[i].email, i, "member")
        /\ UNCHANGED <<tables, over, orgLock>>
    BY <1>6 DEF StartJoin
  <2>1. founded /\ invitations[i].email \in People
    BY Founded DEF Administered, Typed, TypeOK
  <2>2. "member" \in Targets
    BY DEF Targets, Roles
  <2> QED
    BY <2>1, <2>2, BeginKeeps DEF Places, Operations
<1>7. CASE StartRegister(r)
  <2> PICK p \in People :
        /\ Begin(r, "account", "register", p, 0, "administrator")
        /\ UNCHANGED <<tables, over, orgLock>>
    BY <1>7 DEF StartRegister
  <2>1. "administrator" \in Targets
    BY DEF Targets, Roles
  <2> QED
    BY <2>1, BeginKeeps DEF Places, Operations
<1>8. CASE StartBootstrap(r)
  <2>1. "administrator" \in Targets
    BY DEF Targets, Roles
  <2> QED
    BY <1>8, <2>1, PeopleAssumption, BeginKeeps DEF StartBootstrap, Places, Operations
<1> QED
  BY <1>3, <1>4, <1>5, <1>6, <1>7, <1>8 DEF Start

(* The steps that go on to a place where nothing is held yet, or end. *)
LEMMA ReadKeeps ==
  ASSUME Administered, NEW r \in Requests,
         \/ ExpirePending(r) \/ CheckMember(r) \/ FindInvitation(r) \/ FindAccount(r)
         \/ Accept(r) \/ CheckAdministrator(r)
  PROVE  Administered'
<1> USE RequestFields DEF At
<1>2. UNCHANGED <<tables, over, orgLock>>
  BY DEF ExpirePending, CheckMember, FindInvitation, FindAccount, Accept, CheckAdministrator
<1>3. \A pc \in Places : [requests[r] EXCEPT !.pc = pc].pc = pc
                         /\ [requests[r] EXCEPT !.pc = pc].op = requests[r].op
                         /\ [requests[r] EXCEPT !.pc = pc].to = requests[r].to
                         /\ [requests[r] EXCEPT !.pc = pc].row = requests[r].row
  BY DEF Request
<1>4. CASE End(r)
  BY <1>2, <1>4, EndKeeps DEF LockStep
<1>5. CASE ExpirePending(r) /\ ~ End(r)
  BY <1>2, <1>3, <1>5, GotoKeeps DEF ExpirePending, PlacedAt, Places
<1>6. CASE CheckMember(r) /\ ~ End(r)
  BY <1>2, <1>3, <1>6, GotoKeeps DEF CheckMember, PlacedAt, Places
<1>7. CASE FindInvitation(r) /\ ~ End(r)
  BY <1>2, <1>3, <1>7, GotoKeeps DEF FindInvitation, PlacedAt, Places
<1>8. CASE FindAccount(r) /\ ~ End(r)
  BY <1>2, <1>3, <1>8, GotoKeeps DEF FindAccount, PlacedAt, Places
<1>9. CASE Accept(r) /\ ~ End(r)
  <2>1. CASE requests[r].op = "join"
    BY <1>2, <1>3, <1>9, <2>1, GotoKeeps DEF Accept, PlacedAt, Places
  <2>2. CASE requests[r].op # "join"
    BY <1>2, <1>3, <1>9, <2>2, GotoKeeps DEF Accept, PlacedAt, Places
  <2> QED
    BY <2>1, <2>2
<1>10. CASE CheckAdministrator(r) /\ ~ End(r)
  BY <1>2, <1>3, <1>10, GotoKeeps DEF CheckAdministrator, PlacedAt, Places
<1> QED
  BY <1>4, <1>5, <1>6, <1>7, <1>8, <1>9, <1>10

(* What the count of active administrators tells. *)
LEMMA CountTells ==
  /\ Cardinality(ActiveAdmins) \in Nat
  /\ Cardinality(ActiveAdmins) > 1 => \A p : \E q \in ActiveAdmins : q # p
  /\ Cardinality(ActiveAdmins) <= 1 /\ ActiveAdmins # {} => Cardinality(ActiveAdmins) = 1
<1>1. IsFiniteSet(ActiveAdmins)
  BY PeopleAssumption, FS_Subset DEF ActiveAdmins
<1>2. Cardinality(ActiveAdmins) \in Nat
  BY <1>1, FS_CardinalityType
<1>3. ASSUME Cardinality(ActiveAdmins) > 1, NEW p, \A q \in ActiveAdmins : q = p PROVE FALSE
  <2>1. CASE ActiveAdmins = {}
    BY <1>3, <2>1, FS_EmptySet
  <2>2. CASE ActiveAdmins = {p}
    <3>1. Cardinality(ActiveAdmins) = 1
      BY <2>2, FS_Singleton
    <3> QED
      BY <1>3, <3>1
  <2> QED
    BY <1>3, <2>1, <2>2
<1>4. ActiveAdmins # {} => Cardinality(ActiveAdmins) # 0
  BY <1>1, FS_EmptySet
<1> QED
  BY <1>2, <1>3, <1>4

LEMMA LockKeeps ==
  ASSUME Administered, NEW r \in Requests, Lock(r)
  PROVE  Administered'
<1> DEFINE x == [requests[r] EXCEPT !.pc = "guard"]
<1>1. /\ x \in Request /\ x.pc = "guard"
      /\ x.op = "change" /\ x.row = requests[r].row /\ x.who = requests[r].who
  BY RequestFields DEF Request, Places, PlacedAt, Lock, At
<1>2. founded /\ PlacedAt(x)
  BY <1>1, RequestFields, Founded DEF Lock, At, PlacedAt
<1>3. x.row # 0 => Present(x.who)
  BY <1>1, RequestFields DEF Administered, NamesMember, PlacedAt, Lock, At
<1>4. LockStep(r) /\ orgLock' = r /\ requests' = [requests EXCEPT ![r] = x]
  BY ReadyMeans DEF LockStep, Lock, Goto
<1>5. UNCHANGED <<tables, over>>
  BY DEF Lock
<1> HIDE DEF x
<1> QED
  BY <1>1, <1>2, <1>3, <1>4, <1>5, MoveKeeps

(* Under the lock, what the guard has counted cannot change. *)
LEMMA GuardKeeps ==
  ASSUME Administered, NEW r \in Requests, Guard(r)
  PROVE  Administered'
<1> DEFINE pc == IF MustCount(requests[r].who, requests[r].to) /\ Cardinality(ActiveAdmins) <= 1
                 THEN "refused" ELSE "commit"
           x == [requests[r] EXCEPT !.pc = pc]
<1>1. UNCHANGED <<tables, over>> /\ At(r, "guard") /\ orgLock = r
  BY DEF Guard, Administered, Locked
<1>2. CASE requests[r].row = 0
  BY <1>1, <1>2, EndKeeps DEF Guard, LockStep
<1>3. CASE requests[r].row # 0
  <2>1. requests[r].op = "change" /\ requests[r] \in Request
    BY <1>1, RequestFields DEF PlacedAt, At
  <2>2. pc \in {"refused", "commit"}
    OBVIOUS
  <2>3. /\ x \in Request /\ x.pc = pc /\ x.to = requests[r].to
        /\ x.op = "change" /\ x.row = requests[r].row /\ x.who = requests[r].who
    BY <2>1, <2>2 DEF Request, Places
  <2>4. founded /\ PlacedAt(x)
    BY <2>1, <2>2, <2>3, Founded DEF PlacedAt
  <2>5. Present(x.who)
    BY <1>3, <2>1, <2>3 DEF Administered, NamesMember
  <2>6. requests' = [requests EXCEPT ![r] = x] /\ orgLock' = r /\ LockStep(r)
    BY <1>1, <1>3 DEF Guard, Goto, LockStep
  <2>7. pc = "refused" => Cardinality(ActiveAdmins) = 1
    BY <2>4, CountTells DEF Administered, AdministratorRemains
  <2>8. x.pc = "commit" /\ x.to \in {"member", "suspended", "removed"} /\ x.who \in ActiveAdmins
          => \E p \in ActiveAdmins : p # x.who
    <3> SUFFICES ASSUME pc = "commit", x.to \in {"member", "suspended", "removed"},
                        x.who \in ActiveAdmins
                 PROVE  \E p \in ActiveAdmins : p # x.who
      BY <2>3
    <3>1. MustCount(requests[r].who, requests[r].to)
      BY <2>3 DEF MustCount, Demotes, Suspends, Removes, ActiveAdmins
    <3> QED
      BY <3>1, CountTells
  <2> HIDE DEF x, pc
  <2> QED
    BY <1>1, <1>3, <2>2, <2>3, <2>4, <2>5, <2>6, <2>7, <2>8, MoveKeeps
<1> QED
  BY <1>2, <1>3

LEMMA GiveUpKeeps ==
  ASSUME Administered, NEW r \in Requests, Refuse(r) \/ Fail(r)
  PROVE  Administered'
BY EndKeeps DEF Refuse, Fail, LockStep

(* A membership or an invitation is inserted, or an account. *)
LEMMA InsertKeeps ==
  ASSUME Administered, NEW r \in Requests,
         InsertInvitation(r) \/ InsertMember(r) \/ InsertAccount(r)
  PROVE  Administered'
<1>1. UNCHANGED <<tables, over, orgLock>> /\ LockStep(r)
  BY DEF InsertInvitation, InsertMember, InsertAccount, LockStep
<1>2. CASE End(r)
  BY <1>1, <1>2, EndKeeps
<1>3. CASE Goto(r, "insert") /\ InsertAccount(r)
  BY <1>1, <1>3, RequestFields, GotoKeeps DEF PlacedAt, Request, Places
<1>4. CASE Goto(r, "commit") /\ ~ End(r)
  <2> DEFINE x == [requests[r] EXCEPT !.pc = "commit"]
  <2>1. /\ x \in Request /\ x.pc = "commit" /\ x.before = requests[r].before
        /\ x.op = requests[r].op /\ x.row = requests[r].row /\ x.who = requests[r].who
      /\ x.to = requests[r].to
    BY RequestFields DEF Request, Places
  <2>2. PlacedAt(x) /\ requests' = [requests EXCEPT ![r] = x]
    BY <1>4, <2>1, RequestFields DEF PlacedAt, Goto
  <2>3. founded \/ (x.op \in {"none", "register", "bootstrap"} /\ ~ x.before)
    BY <2>1 DEF Administered, Founding
  <2>4. x.op # "change"
    BY <2>1, RequestFields DEF InsertInvitation, InsertMember, InsertAccount, PlacedAt, At
  <2>5. /\ x.op \in {"accept", "join", "invite"} => orgLock' \in {Nobody, r}
        /\ x.op \in {"accept", "join"} => ~ Present(x.who) /\ MemberFree(r, x.who)
    <3>1. CASE InsertInvitation(r)
      BY <1>1, <2>1, <3>1, ReadyMeans DEF InsertInvitation, OrgShareable
    <3>2. CASE InsertMember(r)
      BY <1>1, <1>4, <2>1, <3>2, ReadyMeans DEF InsertMember, OrgShareable
    <3>3. CASE InsertAccount(r)
      <4>1. ~ Goto(r, "insert")
        BY <1>4, RequestFields DEF Goto, Administered, Typed, Request
      <4>2. x.op \in {"register", "bootstrap"}
        BY <1>4, <2>1, <3>3, <4>1, RequestFields DEF InsertAccount, PlacedAt, At
      <4> QED
        BY <4>2
    <3> QED
      BY <3>1, <3>2, <3>3
  <2> HIDE DEF x
  <2> QED
    BY <1>1, <2>1, <2>2, <2>3, <2>4, <2>5, MoveKeeps
<1> QED
  BY <1>2, <1>3, <1>4 DEF InsertInvitation, InsertMember, InsertAccount

-----------------------------------------------------------------------------
(* When r commits, the requests of the others stay where they are: at most *)
(* they do not find their row any more.                                    *)
OthersStay(r) ==
  /\ requests' \in [Requests -> Request]
  /\ requests'[r] = Idle
  /\ \A q \in Requests \ {r} :
       /\ requests'[q] = [requests[q] EXCEPT !.row = requests'[q].row]
       /\ requests[q].op # "change" => requests'[q] = requests[q]

LEMMA EndIsQuiet ==
  ASSUME Administered, NEW r \in Requests, End(r)
  PROVE  OthersStay(r)
BY IdleIsRequest DEF End, OthersStay, Administered, Typed, Request

LEMMA CommitKeepsPlaces ==
  ASSUME Administered, NEW r \in Requests, OthersStay(r), LockStep(r)
  PROVE  /\ requests' \in [Requests -> Request]
         /\ \A q \in Requests : requests'[q].who \in People /\ requests'[q].to \in Targets
         /\ Placed' /\ Locked' /\ Shared'
         /\ \A q \in Requests \ {r} :
              /\ requests'[q].pc = requests[q].pc /\ requests'[q].op = requests[q].op
              /\ requests'[q].who = requests[q].who /\ requests'[q].to = requests[q].to
              /\ requests'[q].before = requests[q].before
         /\ requests'[r].pc = "idle" /\ requests'[r].op = "none" /\ ~ requests'[r].before
<1>1. requests'[r].pc = "idle" /\ requests'[r].op = "none" /\ ~ requests'[r].before
  BY DEF OthersStay, Idle
<1>2. \A q \in Requests \ {r} :
        /\ requests'[q].pc = requests[q].pc /\ requests'[q].op = requests[q].op
        /\ requests'[q].who = requests[q].who /\ requests'[q].to = requests[q].to
        /\ requests'[q].before = requests[q].before
  BY RequestFields DEF OthersStay, Request
<1>3. requests' \in [Requests -> Request]
      /\ \A q \in Requests : requests'[q].who \in People /\ requests'[q].to \in Targets
  BY DEF OthersStay, Request
<1>4. Placed'
  <2> SUFFICES ASSUME NEW q \in Requests PROVE PlacedAt(requests'[q])
    BY DEF Placed
  <2>1. CASE q = r
    BY <1>1, <2>1 DEF PlacedAt
  <2>2. CASE q # r /\ requests[q].op = "change"
    BY <1>2, <2>2, RequestFields DEF PlacedAt
  <2>3. CASE q # r /\ requests[q].op # "change"
    BY <2>3, RequestFields DEF OthersStay
  <2> QED
    BY <2>1, <2>2, <2>3
<1>5. Locked'
  BY <1>1, <1>2, LockType DEF Administered, Locked, At
<1>6. Shared'
  <2> SUFFICES ASSUME NEW q \in Requests, SharesOrg(q)' PROVE orgLock' \in {Nobody, q}
    BY DEF Shared
  <2> QED
    BY <1>1, <1>2, LockType DEF SharesOrg
<1> QED
  BY <1>1, <1>2, <1>3, <1>4, <1>5, <1>6

(* A change commits: it alone holds the lock. *)
LEMMA ChangeKeeps ==
  ASSUME Administered, NEW r \in Requests,
         CommitRole(r) \/ CommitStatus(r) \/ CommitRemoval(r)
  PROVE  Administered'
<1> PICK who \in People, to \in Targets : who = requests[r].who /\ to = requests[r].to
  BY RequestFields DEF Request
<1>1. /\ orgLock = r /\ At(r, "commit") /\ requests[r].op = "change" /\ LockStep(r)
      /\ requests[r].row # 0 /\ Present(who) /\ founded /\ who \in People /\ to \in Targets
  BY RequestFields, Founded
     DEF CommitRole, CommitStatus, CommitRemoval, Changing, LockStep, Administered, Locked,
         NamesMember, Request
<1>2. UNCHANGED <<users, elsewhere, founded, invitations, over, bootstraps>>
  BY DEF CommitRole, CommitStatus, CommitRemoval, Changing
<1>3. OthersStay(r)
  <2>1. CASE CommitRole(r) \/ CommitStatus(r)
    BY <2>1, EndIsQuiet DEF CommitRole, CommitStatus
  <2>2. CASE CommitRemoval(r)
    BY <2>2, IdleIsRequest DEF CommitRemoval, OthersStay, Administered, Typed, Request
  <2> QED
    BY <2>1, <2>2
<1> DEFINE Membership == [role : Roles, status : Statuses \cup {"none"}]
<1>4. /\ members' \in [People -> Membership]
      /\ \A p \in People \ {who} : members'[p] = members[p]
      /\ members \in [People -> Membership]
  <2>1. members \in [People -> Membership]
    BY DEF Administered, Typed, TypeOK
  <2>2. NoMember \in Membership
    BY DEF NoMember, Roles, Statuses
  <2>3. CASE CommitRole(r)
    BY <1>1, <2>1, <2>3 DEF CommitRole, Changing
  <2>4. CASE CommitStatus(r)
    BY <1>1, <2>1, <2>4 DEF CommitStatus, Changing
  <2>5. CASE CommitRemoval(r)
    BY <1>1, <2>1, <2>2, <2>5 DEF CommitRemoval
  <2> QED
    BY <2>1, <2>3, <2>4, <2>5
<1>5. /\ \A p \in People : Present(p)' => Present(p)
      /\ \A p \in People \ {who} : Present(p) => Present(p)'
      /\ \A p \in People \ {who} : p \in ActiveAdmins <=> p \in ActiveAdmins'
  BY <1>1, <1>4 DEF Present, ActiveAdmins
<1>6. ActiveAdmins' # {}
  <2>1. CASE who \notin ActiveAdmins
    BY <1>1, <1>5, <2>1 DEF ActiveAdmins, Administered, AdministratorRemains
  <2>2. CASE who \in ActiveAdmins /\ to \in {"member", "suspended", "removed"}
    BY <1>1, <1>5, <2>2 DEF Administered, Guarded, ActiveAdmins
  <2>3. CASE who \in ActiveAdmins /\ to \in {"administrator", "active"}
    <3>1. CASE CommitRole(r)
      BY <1>1, <1>4, <2>3, <3>1 DEF ActiveAdmins, CommitRole, Changing, Roles
    <3>2. CASE CommitStatus(r)
      BY <1>1, <1>4, <2>3, <3>2 DEF ActiveAdmins, CommitStatus, Changing, Statuses
    <3> QED
      BY <2>3, <3>1, <3>2 DEF CommitRemoval, Changing
  <2> QED
    BY <1>1, <2>1, <2>2, <2>3 DEF Targets, Roles, Statuses
<1>7. \A q \in Requests \ {r} : ~ At(q, "guard") /\ ~ At(q, "refused")
        /\ ~ (At(q, "commit") /\ requests[q].op \in {"change", "accept", "join", "invite"})
  BY <1>1, NobodyAssumption DEF Administered, Locked, Shared, SharesOrg, At
<1>8. NamesMember'
  <2> SUFFICES ASSUME NEW q \in Requests, requests'[q].op = "change"
               PROVE  /\ requests'[q].row # 0 => members'[requests'[q].who].status \in Statuses
                      /\ requests'[q].pc # "commit"
    BY DEF NamesMember, Present, At
  <2>1. /\ q # r /\ requests[q].op = "change" /\ requests'[q].who = requests[q].who
        /\ requests'[q].pc = requests[q].pc
        /\ requests[q] \in Request /\ requests[q].who \in People
    BY <1>1, <1>3, CommitKeepsPlaces, RequestFields
  <2>2. requests'[q].pc # "commit"
    BY <1>7, <2>1 DEF At
  <2>3. requests[q].row # 0 => members[requests[q].who].status \in Statuses
    BY <2>1 DEF Administered, NamesMember, Present
  <2>4. CASE CommitRemoval(r)
    <3>1. requests'[q].row # 0 => requests[q].who # who /\ requests'[q].row = requests[q].row
      <4>1. requests'[q] = IF requests[q].who = who THEN [requests[q] EXCEPT !.row = 0]
                           ELSE requests[q]
        BY <2>1, <2>4 DEF CommitRemoval
      <4> QED
        BY <2>1, <4>1 DEF Request
    <3> QED
      BY <1>4, <2>1, <2>2, <2>3, <3>1
  <2>5. CASE CommitRole(r) \/ CommitStatus(r)
    <3>1. requests'[q] = requests[q]
      BY <2>1, <2>5 DEF CommitRole, CommitStatus, End, Administered, Typed
    <3>2. members'[who].status \in Statuses
      <4>1. CASE CommitRole(r)
        BY <1>1, <1>4, <4>1 DEF CommitRole, Changing, Present
      <4>2. CASE CommitStatus(r)
        BY <1>1, <1>4, <4>2 DEF CommitStatus, Changing
      <4> QED
        BY <2>5, <4>1, <4>2
    <3> QED
      BY <1>4, <2>1, <2>2, <2>3, <3>1, <3>2
  <2> QED
    BY <2>4, <2>5
<1>9. Inserting' /\ Guarded' /\ RefusalIsTrue'
  <2>1. \A q \in Requests :
          (/\ ~ At(q, "refused")
           /\ ~ (At(q, "commit") /\ requests[q].op \in {"change", "accept", "join"}))'
    BY <1>1, <1>3, <1>7, CommitKeepsPlaces DEF At
  <2> QED
    BY <2>1 DEF Inserting, Guarded, RefusalIsTrue
<1>10. Typed'
  BY <1>1, <1>2, <1>3, <1>4, <1>5, CommitKeepsPlaces, LockType
     DEF Administered, Typed, TypeOK
<1>11. Founding' /\ AdministratorRemains'
  BY <1>1, <1>2, <1>6 DEF Founding, AdministratorRemains
<1> QED
  BY <1>1, <1>3, <1>8, <1>9, <1>10, <1>11, CommitKeepsPlaces DEF Administered

(* An invitation is written. *)
LEMMA InviteKeeps ==
  ASSUME Administered, NEW r \in Requests, CommitInvite(r)
  PROVE  Administered'
<1>1. /\ UNCHANGED <<users, elsewhere, founded, members, orgLock, bootstraps>>
      /\ OthersStay(r) /\ LockStep(r) /\ founded
      /\ requests[r].who \in People /\ requests[r].to \in Roles
  BY EndIsQuiet, RequestFields, Founded DEF CommitInvite, LockStep, PlacedAt
<1>2. \A q \in Requests \ {r} : requests'[q] = requests[q]
  BY DEF CommitInvite, End, Administered, Typed
<1>3. /\ requests'[r].pc = "idle" /\ requests'[r].op = "none"
  BY <1>1, CommitKeepsPlaces
<1>4. /\ ActiveAdmins' = ActiveAdmins
      /\ \A p : Present(p)' = Present(p)
  BY <1>1 DEF ActiveAdmins, Present
<1>5. /\ invitations' \in [Invitations -> [email : People, role : Roles,
                                            status : {"none", "pending", "accepted", "expired"}]]
      /\ \A i \in over' : i \in Invitations /\ invitations'[i].status = "pending"
  BY <1>1 DEF CommitInvite, Administered, Typed, TypeOK
<1>6. Typed'
  BY <1>1, <1>4, <1>5, CommitKeepsPlaces, LockType DEF Administered, Typed, TypeOK
<1>7. NamesMember' /\ Inserting' /\ Guarded' /\ RefusalIsTrue'
  BY <1>2, <1>3, <1>4
     DEF Administered, NamesMember, Inserting, MemberFree, WroteMember, Guarded, RefusalIsTrue, At
<1>8. Founding' /\ AdministratorRemains'
  BY <1>1, <1>4 DEF Administered, Founding, AdministratorRemains
<1> QED
  BY <1>1, <1>6, <1>7, <1>8, CommitKeepsPlaces DEF Administered

(* A membership is inserted: of somebody who had none, so it takes no      *)
(* administrator away, and nobody who holds the organization is under way. *)
LEMMA AcceptKeeps ==
  ASSUME Administered, NEW r \in Requests, CommitAccept(r)
  PROVE  Administered'
<1> PICK who \in People : who = requests[r].who
  BY RequestFields
<1>1. /\ UNCHANGED <<elsewhere, founded, orgLock, bootstraps>>
      /\ users' = users \cup {who}
      /\ requests[r].op \in {"accept", "join"} /\ requests[r].pc = "commit"
      /\ OthersStay(r) /\ LockStep(r) /\ founded
      /\ ~ Present(who) /\ MemberFree(r, who)
  BY EndIsQuiet, Founded DEF CommitAccept, LockStep, Administered, Inserting, At
<1>2. \A q \in Requests \ {r} : requests'[q] = requests[q]
  BY DEF CommitAccept, End, Administered, Typed
<1>3. /\ requests'[r].pc = "idle" /\ requests'[r].op = "none"
  BY <1>1, CommitKeepsPlaces
<1>4. PICK i \in Invitations : i = requests[r].row
  BY <1>1, RequestFields DEF PlacedAt
<1>5. /\ members \in [People -> [role : Roles, status : Statuses \cup {"none"}]]
      /\ invitations \in [Invitations -> [email : People, role : Roles,
                                          status : {"none", "pending", "accepted", "expired"}]]
      /\ \A j \in over : j \in Invitations /\ invitations[j].status = "pending"
  BY DEF Administered, Typed, TypeOK
<1>6. /\ invitations' = [invitations EXCEPT ![i].status = "accepted"]
      /\ members' = [members EXCEPT ![who] = [role |-> invitations[i].role, status |-> "active"]]
      /\ over' = over \ {i}
  BY <1>4 DEF CommitAccept
<1>7. /\ members' \in [People -> [role : Roles, status : Statuses \cup {"none"}]]
      /\ invitations' \in [Invitations -> [email : People, role : Roles,
                                           status : {"none", "pending", "accepted", "expired"}]]
      /\ \A j \in over' : j \in Invitations /\ invitations'[j].status = "pending"
  BY <1>4, <1>5, <1>6 DEF Statuses
<1>8. /\ \A p \in People \ {who} : members'[p] = members[p]
      /\ \A p \in People : members[p].status \in Statuses => members'[p].status \in Statuses
      /\ \A p \in People : members'[p].status \in Statuses => p = who \/ members[p].status \in Statuses
      /\ ActiveAdmins \subseteq ActiveAdmins'
  BY <1>1, <1>5, <1>6 DEF ActiveAdmins, Present, Statuses
<1>9. Typed'
  BY <1>1, <1>7, <1>8, CommitKeepsPlaces, LockType DEF Administered, Typed, TypeOK, Present
<1>10. \A q \in Requests \ {r} : ~ At(q, "guard") /\ ~ At(q, "refused")
         /\ ~ (At(q, "commit") /\ requests[q].op = "change")
  BY <1>1, NobodyAssumption DEF Administered, Locked, Shared, SharesOrg, At
<1>11. NamesMember' /\ Guarded' /\ RefusalIsTrue'
  BY <1>2, <1>3, <1>8, <1>10, RequestFields
     DEF Administered, NamesMember, Guarded, RefusalIsTrue, At, Present
<1>12. Inserting'
  <2> SUFFICES ASSUME NEW q \in Requests, requests'[q].pc = "commit",
                      requests'[q].op \in {"accept", "join"}
               PROVE  /\ members'[requests'[q].who].status \notin Statuses
                      /\ MemberFree(q, requests[q].who)'
    BY DEF Inserting, At, Present
  <2>1. q # r /\ requests'[q] = requests[q] /\ requests[q].who \in People
    BY <1>2, <1>3, RequestFields
  <2>2. requests[q].who # who
    BY <1>1, <2>1 DEF MemberFree, WroteMember
  <2>3. ~ Present(requests[q].who) /\ MemberFree(q, requests[q].who)
    BY <2>1 DEF Administered, Inserting, At
  <2>4. members'[requests'[q].who].status \notin Statuses
    BY <1>8, <2>1, <2>2, <2>3 DEF Present
  <2>5. MemberFree(q, requests[q].who)'
    BY <1>2, <1>3, <2>1, <2>3 DEF MemberFree, WroteMember
  <2> QED
    BY <2>4, <2>5
<1>13. Founding' /\ AdministratorRemains'
  BY <1>1, <1>8 DEF Administered, Founding, AdministratorRemains
<1> QED
  BY <1>1, <1>9, <1>11, <1>12, <1>13, CommitKeepsPlaces DEF Administered

(* An account is created with an organization of its own, or with this one. *)
LEMMA RegisterKeeps ==
  ASSUME Administered, NEW r \in Requests, CommitRegister(r)
  PROVE  Administered'
<1> PICK who \in People : who = requests[r].who
  BY RequestFields
<1>1. /\ UNCHANGED <<invitations, over, orgLock>> /\ founded'
      /\ users' = users \cup {who}
      /\ requests[r].op \in {"register", "bootstrap"} /\ requests[r].pc = "commit"
      /\ OthersStay(r) /\ LockStep(r) /\ bootstraps' \in Nat
  BY EndIsQuiet DEF CommitRegister, LockStep, At, Administered, Typed
<1>2. \A q \in Requests \ {r} : requests'[q] = requests[q]
  BY DEF CommitRegister, End, Administered, Typed
<1>3. /\ requests'[r].pc = "idle" /\ requests'[r].op = "none"
  BY <1>1, CommitKeepsPlaces
<1>4. /\ members \in [People -> [role : Roles, status : Statuses \cup {"none"}]]
      /\ elsewhere \subseteq users
      /\ \A p \in People : members[p].status \in Statuses => p \in users
  BY DEF Administered, Typed, TypeOK, Present
<1>5. CASE founded
  <2>1. members' = members /\ elsewhere' = elsewhere \cup {who}
    BY <1>5 DEF CommitRegister
  <2>2. /\ ActiveAdmins' = ActiveAdmins
        /\ \A p : Present(p)' = Present(p)
    BY <2>1 DEF ActiveAdmins, Present
  <2>3. Typed'
    BY <1>1, <1>4, <2>1, <2>2, CommitKeepsPlaces, LockType
       DEF Administered, Typed, TypeOK, Present
  <2>4. NamesMember' /\ Inserting' /\ Guarded' /\ RefusalIsTrue'
    BY <1>2, <1>3, <2>2
       DEF Administered, NamesMember, Inserting, MemberFree, WroteMember, Guarded, RefusalIsTrue, At
  <2>5. Founding' /\ AdministratorRemains'
    BY <1>1, <1>5, <2>2 DEF Administered, Founding, AdministratorRemains
  <2> QED
    BY <1>1, <2>3, <2>4, <2>5, CommitKeepsPlaces DEF Administered
<1>6. CASE ~ founded
  <2>1. /\ members' = [members EXCEPT ![who] = [role |-> "administrator", status |-> "active"]]
        /\ elsewhere' = elsewhere
    BY <1>6 DEF CommitRegister
  <2>2. /\ members' \in [People -> [role : Roles, status : Statuses \cup {"none"}]]
        /\ \A p \in People : members'[p].status \in Statuses => p \in users'
        /\ who \in ActiveAdmins'
    BY <1>1, <1>4, <2>1 DEF Roles, Statuses, ActiveAdmins
  <2>3. Typed'
    BY <1>1, <1>4, <2>1, <2>2, CommitKeepsPlaces, LockType
       DEF Administered, Typed, TypeOK, Present
  <2>4. \A q \in Requests : requests[q].op \in {"none", "register", "bootstrap"}
    BY <1>6 DEF Administered, Founding
  <2>5. \A q \in Requests : requests'[q].op \in {"none", "register", "bootstrap"}
    BY <1>2, <1>3, <2>4
  <2>6. \A q \in Requests : requests'[q].pc # "refused"
    BY <1>2, <1>3, <2>4, RequestFields DEF PlacedAt
  <2>7. NamesMember' /\ Inserting' /\ Guarded' /\ RefusalIsTrue'
    BY <2>5, <2>6 DEF NamesMember, Inserting, Guarded, RefusalIsTrue, At
  <2>8. Founding' /\ AdministratorRemains'
    BY <1>1, <2>2 DEF Founding, AdministratorRemains
  <2> QED
    BY <1>1, <2>3, <2>7, <2>8, CommitKeepsPlaces DEF Administered
<1> QED
  BY <1>5, <1>6

LEMMA AgeKeeps ==
  ASSUME Administered, NEW i \in Invitations, Age(i)
  PROVE  Administered'
<1>1. UNCHANGED <<tables, orgLock, requests>>
  BY DEF Age
<1>2. /\ ActiveAdmins' = ActiveAdmins
      /\ \A p : Present(p)' = Present(p)
  BY <1>1 DEF ActiveAdmins, Present, tables
<1>3. Typed'
  BY <1>1, <1>2 DEF Age, Administered, Typed, TypeOK, tables
<1> QED
  BY <1>1, <1>2, <1>3
     DEF Administered, Placed, Founding, Locked, Shared, SharesOrg, NamesMember, Inserting,
         MemberFree, WroteMember, Guarded, AdministratorRemains, RefusalIsTrue, At, tables

-----------------------------------------------------------------------------
LEMMA NextAdministered == Administered /\ [Next]_vars => Administered'
<1> SUFFICES ASSUME Administered, [Next]_vars PROVE Administered'
  OBVIOUS
<1>1. CASE UNCHANGED vars
  <2>1. /\ ActiveAdmins' = ActiveAdmins
        /\ \A p : Present(p)' = Present(p)
    BY <1>1 DEF ActiveAdmins, Present, vars
  <2> QED
    BY <1>1, <2>1
       DEF Administered, Typed, TypeOK, Placed, Founding, Locked, Shared, SharesOrg, NamesMember,
           Inserting, MemberFree, WroteMember, Guarded, AdministratorRemains, RefusalIsTrue, At, vars
<1>2. ASSUME NEW r \in Requests, Start(r) PROVE Administered'
  BY <1>2, StartKeeps
<1>3. ASSUME NEW r \in Requests, Proceed(r) PROVE Administered'
  BY <1>3, LockKeeps, GuardKeeps, GiveUpKeeps, ReadKeeps, InsertKeeps, ChangeKeeps, InviteKeeps,
     AcceptKeeps, RegisterKeeps DEF Proceed
<1>4. ASSUME NEW r \in Requests, Fail(r) PROVE Administered'
  BY <1>4, GiveUpKeeps
<1>5. ASSUME NEW i \in Invitations, Age(i) PROVE Administered'
  BY <1>5, AgeKeeps
<1> QED
  BY <1>1, <1>2, <1>3, <1>4, <1>5 DEF Next

THEOREM AlwaysAdministered == Spec => []Administered
BY InitAdministered, NextAdministered, PTL DEF Spec

(* Every row, request and lock keeps its type. *)
THEOREM TypeCorrect == Spec => []TypeOK
<1>1. Administered => TypeOK
  BY DEF Administered, Typed
<1> QED
  BY <1>1, AlwaysAdministered, PTL

(* However many administrators demote, suspend and remove each other at the *)
(* same time, and whoever joins meanwhile, the organization keeps one who   *)
(* is active (the lock and the guard of routes/members.ts).                 *)
THEOREM AdministratorAlwaysRemains == Spec => []AdministratorRemains
<1>1. Administered => AdministratorRemains
  BY DEF Administered
<1> QED
  BY <1>1, AlwaysAdministered, PTL

(* A change that is refused because one administrator must remain is        *)
(* refused while there is exactly one.                                      *)
THEOREM RefusalAlwaysTrue == Spec => []RefusalIsTrue
<1>1. Administered => RefusalIsTrue
  BY DEF Administered
<1> QED
  BY <1>1, AlwaysAdministered, PTL

-----------------------------------------------------------------------------
(* The bootstrap command.  An account that r is about to create does not   *)
(* exist, and nobody else is about to create it; a command that has found  *)
(* no administrator began when there was none.                             *)
Bootstrapped ==
  /\ bootstraps \in 0..1 /\ (bootstraps = 1 => Operator \in users)
  /\ \A r \in Requests :
       /\ requests[r].op = "bootstrap" => requests[r].who = Operator
       /\ requests[r].op = "accept" => requests[r].who \in users
       /\ requests[r].op = "bootstrap" /\ requests[r].pc \in {"account", "commit"}
            => ~ requests[r].before
       /\ WroteAccount(r, requests[r].who)
            => requests[r].who \notin users /\ AccountFree(r, requests[r].who)

LEMMA InitBootstrapped == Init => Bootstrapped
BY DEF Init, OrganizationInit, Bootstrapped, Idle, WroteAccount

(* A step of r leaves the others where they are and what they are about. *)
LEMMA OthersUnmoved ==
  ASSUME Administered, NEW r \in Requests, Start(r) \/ Proceed(r) \/ Fail(r)
  PROVE  \A q \in Requests \ {r} :
           /\ requests'[q].pc = requests[q].pc /\ requests'[q].op = requests[q].op
           /\ requests'[q].who = requests[q].who /\ requests'[q].before = requests[q].before
           /\ requests'[q].over = requests[q].over
           /\ requests[q].op # "change" => requests'[q].row = requests[q].row
<1>1. CASE \E x : requests' = [requests EXCEPT ![r] = x]
  BY <1>1 DEF Administered, Typed
<1>2. CASE CommitRemoval(r)
  <2>1. \A q \in Requests : requests[q] \in Request
    BY RequestFields
  <2>2. \A q \in Requests \ {r} :
          requests'[q] = IF requests[q].op = "change" /\ requests[q].who = requests[r].who
                         THEN [requests[q] EXCEPT !.row = 0] ELSE requests[q]
    BY <1>2 DEF CommitRemoval
  <2> QED
    BY <2>1, <2>2 DEF Request
<1>3. (\E pc : Goto(r, pc)) \/ End(r) => \E x : requests' = [requests EXCEPT ![r] = x]
  BY DEF Goto, End
<1>4. Start(r) => \E x : requests' = [requests EXCEPT ![r] = x]
  BY DEF Start, StartChange, StartInvite, StartAccept, StartJoin, StartRegister, StartBootstrap, Begin
<1>5. Fail(r) \/ (Proceed(r) /\ ~ CommitRemoval(r)) => (\E pc : Goto(r, pc)) \/ End(r)
  BY DEF Fail, Proceed, Lock, Guard, Refuse, CommitRole, CommitStatus, ExpirePending, CheckMember,
         InsertInvitation, CommitInvite, FindInvitation, FindAccount, Accept, InsertMember,
         CommitAccept, CheckAdministrator, InsertAccount, CommitRegister
<1> QED
  BY <1>1, <1>2, <1>3, <1>4, <1>5

(* Bootstrapped after a step of r, from what the step does to r. *)
LEMMA BootstrapStep ==
  ASSUME Administered, Bootstrapped, NEW r \in Requests, Start(r) \/ Proceed(r) \/ Fail(r),
         bootstraps' = bootstraps, users' = users,
         requests'[r].op = "bootstrap" => requests'[r].who = Operator,
         requests'[r].op = "accept" => requests'[r].who \in users,
         requests'[r].op = "bootstrap" /\ requests'[r].pc \in {"account", "commit"}
           => ~ requests'[r].before,
         WroteAccount(r, requests[r].who)'
           => requests'[r].who \notin users /\ AccountFree(r, requests'[r].who)
  PROVE  Bootstrapped'
<1>1. ASSUME NEW q \in Requests, NEW p, q # r
      PROVE  WroteAccount(q, p)' <=> WroteAccount(q, p)
  BY <1>1, OthersUnmoved DEF WroteAccount
<1>2. ASSUME NEW q \in Requests, WroteAccount(q, requests[q].who)'
      PROVE  requests'[q].who \notin users /\ AccountFree(q, requests[q].who)'
  <2>1. CASE q = r
    BY <1>1, <1>2, <2>1 DEF AccountFree
  <2>2. CASE q # r
    <3>1. requests'[q].who = requests[q].who /\ WroteAccount(q, requests[q].who)
      BY <1>2, <2>2, OthersUnmoved DEF WroteAccount
    <3>2. requests[q].who \notin users /\ AccountFree(q, requests[q].who)
      BY <3>1 DEF Bootstrapped
    <3>3. ~ WroteAccount(r, requests[q].who)'
      <4> SUFFICES ASSUME WroteAccount(r, requests[q].who)' PROVE FALSE
        OBVIOUS
      <4>1. requests'[r].who = requests[q].who /\ WroteAccount(r, requests[r].who)'
        BY <3>1 DEF WroteAccount
      <4> QED
        BY <2>2, <3>1, <4>1 DEF AccountFree
    <3> QED
      BY <1>1, <3>1, <3>2, <3>3 DEF AccountFree
  <2> QED
    BY <2>1, <2>2
<1>3. \A q \in Requests :
        /\ requests'[q].op = "bootstrap" => requests'[q].who = Operator
        /\ requests'[q].op = "accept" => requests'[q].who \in users
        /\ requests'[q].op = "bootstrap" /\ requests'[q].pc \in {"account", "commit"}
             => ~ requests'[q].before
  BY OthersUnmoved DEF Bootstrapped
<1> QED
  BY <1>2, <1>3 DEF Bootstrapped

(* A request that goes on keeps what it is about. *)
LEMMA GotoMoves ==
  ASSUME Administered, NEW r \in Requests, NEW pc, Goto(r, pc)
  PROVE  /\ requests'[r].pc = pc /\ requests'[r].op = requests[r].op
         /\ requests'[r].who = requests[r].who /\ requests'[r].before = requests[r].before
BY RequestFields DEF Goto, Request, Administered, Typed

LEMMA EndMoves ==
  ASSUME Administered, NEW r \in Requests, End(r)
  PROVE  requests'[r].pc = "idle" /\ requests'[r].op = "none"
BY DEF End, Idle, Administered, Typed

LEMMA BeginMoves ==
  ASSUME Administered, NEW r \in Requests, NEW pc, NEW op, NEW p, NEW row, NEW to,
         Begin(r, pc, op, p, row, to)
  PROVE  requests'[r].pc = pc /\ requests'[r].op = op /\ requests'[r].who = p
BY DEF Begin, Administered, Typed

LEMMA StartBootstrapped ==
  ASSUME Administered, Bootstrapped, NEW r \in Requests, Start(r)
  PROVE  Bootstrapped'
<1>1. \A p \in People : SignedIn(p) => p \in users
  BY DEF SignedIn, Administered, Typed, TypeOK, Present, Statuses
<1>3. /\ requests'[r].op = "bootstrap"
           => requests'[r].who = Operator /\ requests'[r].pc = "hasAdministrator"
      /\ requests'[r].op = "accept" => requests'[r].who \in users
      /\ requests'[r].pc \notin {"insert", "commit"}
  <2>1. CASE StartChange(r)
    <3> PICK q \in People, to \in Targets : Begin(r, "lock", "change", q, 1, to)
      BY <2>1 DEF StartChange
    <3> QED
      BY BeginMoves
  <2>2. CASE StartInvite(r)
    <3> PICK q \in People, role \in Roles : Begin(r, "expire", "invite", q, 0, role)
      BY <2>2 DEF StartInvite
    <3> QED
      BY BeginMoves
  <2>3. CASE StartAccept(r) \/ StartJoin(r)
    BY <1>1, <2>3, BeginMoves DEF StartAccept, StartJoin
  <2>4. CASE StartRegister(r) \/ StartBootstrap(r)
    BY <2>4, BeginMoves DEF StartRegister, StartBootstrap
  <2> QED
    BY <2>1, <2>2, <2>3, <2>4 DEF Start
<1>4. bootstraps' = bootstraps /\ users' = users
  BY DEF Start, StartChange, StartInvite, StartAccept, StartJoin, StartRegister,
         StartBootstrap, tables
<1> QED
  BY <1>3, <1>4, BootstrapStep DEF WroteAccount

(* The steps that neither create an account nor insert one. *)
LEMMA OthersBootstrapped ==
  ASSUME Administered, Bootstrapped, NEW r \in Requests, Proceed(r) \/ Fail(r),
         ~ (CommitAccept(r) \/ CommitRegister(r) \/ InsertAccount(r))
  PROVE  Bootstrapped'
<1>1. bootstraps' = bootstraps /\ users' = users
  BY DEF Fail, Proceed, Lock, Guard, Refuse, CommitRole, CommitStatus, CommitRemoval, Changing,
         ExpirePending, CheckMember, InsertInvitation, CommitInvite, FindInvitation, FindAccount,
         Accept, InsertMember, CheckAdministrator, tables
<1>2. CASE requests'[r].op = "none"
  BY <1>1, <1>2, BootstrapStep DEF WroteAccount
<1>3. CASE CheckAdministrator(r) /\ Goto(r, "account")
  <2>1. requests[r].op = "bootstrap" /\ ~ requests[r].before
    BY <1>3, Founded, EndMoves, GotoMoves, RequestFields DEF CheckAdministrator, PlacedAt, At
  <2> QED
    BY <1>1, <1>3, <2>1, GotoMoves, BootstrapStep DEF Bootstrapped, WroteAccount
<1>4. CASE InsertMember(r) /\ Goto(r, "commit")
  <2>1. requests[r].op \in {"accept", "join"} /\ requests[r].pc = "insert"
    BY <1>4 DEF InsertMember, At
  <2>2. WroteAccount(r, requests[r].who)'
          => requests'[r].who \notin users /\ AccountFree(r, requests'[r].who)
    BY <1>4, <2>1, GotoMoves DEF Bootstrapped, WroteAccount
  <2> QED
    BY <1>1, <1>4, <2>1, <2>2, GotoMoves, BootstrapStep DEF Bootstrapped
<1>5. CASE /\ \E pc : Goto(r, pc)
           /\ \/ Lock(r) \/ Guard(r) \/ ExpirePending(r) \/ CheckMember(r) \/ InsertInvitation(r)
              \/ FindInvitation(r) \/ FindAccount(r) \/ Accept(r)
  <2> PICK pc : Goto(r, pc)
    BY <1>5
  <2>1. requests'[r].op \in {"change", "invite", "accept", "join"}
    BY <1>5, GotoMoves, RequestFields
       DEF Lock, Guard, ExpirePending, CheckMember, InsertInvitation, FindInvitation, FindAccount,
           Accept, PlacedAt, At
  <2>2. requests'[r].op = "join" => requests'[r].pc \notin {"insert", "commit"}
    <3>1. CASE Lock(r) \/ Guard(r) \/ ExpirePending(r) \/ CheckMember(r) \/ InsertInvitation(r)
      BY <3>1, GotoMoves, RequestFields
         DEF Lock, Guard, ExpirePending, CheckMember, InsertInvitation, PlacedAt, At
    <3>2. CASE FindInvitation(r) \/ FindAccount(r) \/ Accept(r)
      <4>1. requests'[r].op = "join"
              => Goto(r, "findAccount") \/ Goto(r, "accept") \/ Goto(r, "account")
        BY <3>2, EndMoves, GotoMoves DEF FindInvitation, FindAccount, Accept
      <4> QED
        BY <4>1, GotoMoves
    <3> QED
      BY <1>5, <3>1, <3>2
  <2> QED
    BY <1>1, <2>1, <2>2, GotoMoves, BootstrapStep DEF Bootstrapped, WroteAccount
<1>6. End(r) => requests'[r].op = "none"
  BY EndMoves
<1>7. CASE CommitRemoval(r)
  BY <1>2, <1>7 DEF CommitRemoval, Idle
<1>8. CASE Fail(r) \/ Refuse(r) \/ CommitRole(r) \/ CommitStatus(r) \/ CommitInvite(r)
  BY <1>2, <1>6, <1>8 DEF Fail, Refuse, CommitRole, CommitStatus, CommitInvite
<1>9. CASE \/ Lock(r) \/ Guard(r) \/ ExpirePending(r) \/ CheckMember(r) \/ InsertInvitation(r)
           \/ FindInvitation(r) \/ FindAccount(r) \/ Accept(r)
  <2>1. End(r) \/ \E pc : Goto(r, pc)
    BY <1>9 DEF Lock, Guard, ExpirePending, CheckMember, InsertInvitation, FindInvitation,
                FindAccount, Accept
  <2> QED
    BY <1>2, <1>5, <1>6, <1>9, <2>1
<1>10. CASE CheckAdministrator(r) \/ InsertMember(r)
  BY <1>2, <1>3, <1>4, <1>6, <1>10 DEF CheckAdministrator, InsertMember
<1> QED
  BY <1>7, <1>8, <1>9, <1>10 DEF Proceed

LEMMA InsertBootstrapped ==
  ASSUME Administered, Bootstrapped, NEW r \in Requests, InsertAccount(r)
  PROVE  Bootstrapped'
<1>1. /\ bootstraps' = bootstraps /\ users' = users /\ Proceed(r)
      /\ requests[r].op \in {"join", "register", "bootstrap"} /\ requests[r].pc = "account"
  BY RequestFields DEF InsertAccount, Proceed, PlacedAt, At, tables
<1>2. CASE End(r)
  BY <1>1, <1>2, EndMoves, BootstrapStep DEF WroteAccount
<1>3. CASE ~ End(r)
  <2>1. /\ \E pc : Goto(r, pc)
        /\ requests[r].who \notin users /\ AccountFree(r, requests[r].who)
    BY <1>3, ReadyMeans DEF InsertAccount
  <2>2. /\ requests'[r].op = requests[r].op /\ requests'[r].who = requests[r].who
        /\ requests'[r].before = requests[r].before
    BY <2>1, GotoMoves
  <2>3. requests[r].op = "bootstrap" => requests[r].who = Operator /\ ~ requests[r].before
    BY <1>1 DEF Bootstrapped
  <2> QED
    BY <1>1, <2>1, <2>2, <2>3, BootstrapStep
<1> QED
  BY <1>2, <1>3

(* An account appears: of somebody for whom nobody else creates one. *)
LEMMA CommitBootstrapped ==
  ASSUME Administered, Bootstrapped, NEW r \in Requests, CommitAccept(r) \/ CommitRegister(r)
  PROVE  Bootstrapped'
<1> PICK who \in People : who = requests[r].who
  BY RequestFields
<1>1. /\ End(r) /\ users' = users \cup {who} /\ requests[r].pc = "commit" /\ Proceed(r)
      /\ requests[r].op \in {"accept", "join", "register", "bootstrap"}
  BY DEF CommitAccept, CommitRegister, At, Proceed
<1>2. \A q \in Requests \ {r} : requests'[q] = requests[q]
  BY <1>1 DEF End, Administered, Typed
<1>3. requests'[r].pc = "idle" /\ requests'[r].op = "none"
  BY <1>1, EndMoves
<1>4. who \in users \/ WroteAccount(r, who)
  BY <1>1 DEF WroteAccount, Bootstrapped
<1>5. bootstraps' \in 0..1 /\ (bootstraps' = 1 => Operator \in users')
  <2>1. CASE bootstraps' = bootstraps
    BY <1>1, <2>1 DEF Bootstrapped
  <2>2. CASE bootstraps' # bootstraps
    <3>1. requests[r].op = "bootstrap" /\ bootstraps' = bootstraps + 1
      BY <2>2 DEF CommitAccept, CommitRegister
    <3>2. who = Operator /\ who \notin users
      BY <1>1, <3>1 DEF WroteAccount, Bootstrapped
    <3> QED
      BY <1>1, <3>1, <3>2 DEF Bootstrapped
  <2> QED
    BY <2>1, <2>2
<1>6. ASSUME NEW q \in Requests, WroteAccount(q, requests[q].who)'
      PROVE  requests'[q].who \notin users' /\ AccountFree(q, requests[q].who)'
  <2>1. q # r /\ requests'[q] = requests[q] /\ WroteAccount(q, requests[q].who)
    BY <1>2, <1>3, <1>6 DEF WroteAccount
  <2>2. requests[q].who \notin users /\ AccountFree(q, requests[q].who)
    BY <2>1 DEF Bootstrapped
  <2>3. requests[q].who # who
    BY <1>4, <2>1, <2>2 DEF AccountFree
  <2>4. AccountFree(q, requests[q].who)'
    BY <1>2, <1>3, <2>1, <2>2 DEF AccountFree, WroteAccount
  <2> QED
    BY <1>1, <2>1, <2>2, <2>3, <2>4
<1>7. \A q \in Requests :
        /\ requests'[q].op = "bootstrap" => requests'[q].who = Operator
        /\ requests'[q].op = "accept" => requests'[q].who \in users'
        /\ requests'[q].op = "bootstrap" /\ requests'[q].pc \in {"account", "commit"}
             => ~ requests'[q].before
  BY <1>1, <1>2, <1>3 DEF Bootstrapped
<1> QED
  BY <1>5, <1>6, <1>7 DEF Bootstrapped

LEMMA NextBootstrapped == Administered /\ Bootstrapped /\ [Next]_vars => Bootstrapped'
<1> SUFFICES ASSUME Administered, Bootstrapped, [Next]_vars PROVE Bootstrapped'
  OBVIOUS
<1>1. CASE UNCHANGED vars
  BY <1>1 DEF Bootstrapped, WroteAccount, AccountFree, vars
<1>2. ASSUME NEW r \in Requests, Start(r) PROVE Bootstrapped'
  BY <1>2, StartBootstrapped
<1>3. ASSUME NEW r \in Requests, Proceed(r) \/ Fail(r) PROVE Bootstrapped'
  BY <1>3, OthersBootstrapped, InsertBootstrapped, CommitBootstrapped
<1>4. ASSUME NEW i \in Invitations, Age(i) PROVE Bootstrapped'
  BY <1>4 DEF Age, Bootstrapped, WroteAccount, AccountFree, tables
<1> QED
  BY <1>1, <1>2, <1>3, <1>4 DEF Next

(* Bootstrap commands that run one after the other or together create one  *)
(* administrator at most, and none when there was one (bootstrap.ts).      *)
THEOREM BootstrapAlwaysOnce == Spec => []BootstrapOnce
<1>1. Bootstrapped => BootstrapOnce
  BY DEF Bootstrapped, BootstrapOnce, At
<1> QED
  BY <1>1, InitBootstrapped, NextBootstrapped, AlwaysAdministered, PTL DEF Spec

-----------------------------------------------------------------------------
(* Invitations.  The requests that may insert one are fewer than those left *)
(* to insert; a request that has written the pending entry of a person is   *)
(* alone with it, so the invitation it accepts stays pending until then.    *)
Inviting == {r \in Requests : requests[r].op = "invite"}

Accepting(r) ==
  requests[r].op \in {"accept", "join"} /\ requests[r].pc \in {"account", "insert", "commit"}

UsedBy(r) ==
  /\ At(r, "idle") => requests[r].op = "none"
  /\ \A i \in requests[r].over : invitations[i].status # "none"
  /\ WrotePending(r, requests[r].who) => PendingFree(r, requests[r].who)
  /\ Accepting(r) => /\ invitations[requests[r].row].status = "pending"
                     /\ invitations[requests[r].row].email = requests[r].who

Used ==
  /\ InvitationUsedOnce /\ DOMAIN made = Invitations
  /\ IsFiniteSet(Inviting) /\ Cardinality(Inviting) <= Cardinality(UnusedInvitations)
  /\ \A r \in Requests : UsedBy(r)

LEMMA UnusedFinite == IsFiniteSet(UnusedInvitations) /\ Cardinality(UnusedInvitations) \in Nat
<1>1. IsFiniteSet(1..MaxInvitations)
  BY FS_Interval, InvitationsAssumption
<1>2. UnusedInvitations \subseteq 1..MaxInvitations
  BY DEF UnusedInvitations, Invitations
<1>3. IsFiniteSet(UnusedInvitations)
  BY <1>1, <1>2, FS_Subset
<1> QED
  BY <1>3, FS_CardinalityType

LEMMA InitUsed == Init => Used
<1> SUFFICES ASSUME Init PROVE Used
  OBVIOUS
<1>1. \A r \in Requests : requests[r] = Idle
  BY DEF Init
<1>2. Inviting = {}
  BY <1>1 DEF Inviting, Idle
<1>3. IsFiniteSet(Inviting) /\ Cardinality(Inviting) <= Cardinality(UnusedInvitations)
  BY <1>2, FS_EmptySet, UnusedFinite
<1>4. InvitationUsedOnce /\ DOMAIN made = Invitations
  BY DEF Init, OrganizationInit, InvitationUsedOnce, NoInvitation
<1>5. \A r \in Requests : UsedBy(r)
  BY <1>1 DEF UsedBy, Idle, WrotePending, Accepting, At
<1> QED
  BY <1>3, <1>4, <1>5 DEF Used

(* The invitations stay what they are: it is enough to look at r. *)
LEMMA QuietStep ==
  ASSUME Administered, Used, NEW r \in Requests, Start(r) \/ Proceed(r) \/ Fail(r),
         UNCHANGED <<invitations, made>>,
         \/ requests'[r].op # "invite" \/ requests[r].op = "invite"
         \/ r \notin Inviting /\ Cardinality(Inviting) < Cardinality(UnusedInvitations),
         At(r, "idle")' => requests'[r].op = "none",
         \A i \in requests'[r].over : invitations[i].status # "none",
         WrotePending(r, requests[r].who)' => PendingFree(r, requests'[r].who),
         Accepting(r)' => /\ invitations[requests'[r].row].status = "pending"
                          /\ invitations[requests'[r].row].email = requests'[r].who
  PROVE  Used'
<1>1. \A p : PendingFor(p)' = PendingFor(p)
  BY DEF PendingFor
<1>2. ASSUME NEW q \in Requests, NEW p, q # r PROVE WrotePending(q, p)' <=> WrotePending(q, p)
  BY <1>1, <1>2, OthersUnmoved DEF WrotePending
<1>3. ASSUME NEW q \in Requests PROVE UsedBy(q)'
  <2>1. CASE q = r
    BY <1>2, <2>1 DEF UsedBy, PendingFree
  <2>2. CASE q # r
    <3>1. /\ requests'[q].pc = requests[q].pc /\ requests'[q].op = requests[q].op
          /\ requests'[q].who = requests[q].who /\ requests'[q].over = requests[q].over
          /\ requests[q].op # "change" => requests'[q].row = requests[q].row
          /\ UsedBy(q)
      BY <2>2, OthersUnmoved DEF Used
    <3>2. ASSUME WrotePending(q, requests[q].who)' PROVE PendingFree(q, requests[q].who)'
      <4>1. WrotePending(q, requests[q].who) /\ PendingFree(q, requests[q].who)
        BY <1>2, <2>2, <3>1, <3>2 DEF UsedBy
      <4>2. ~ WrotePending(r, requests[q].who)'
        <5> SUFFICES ASSUME WrotePending(r, requests[q].who)' PROVE FALSE
          OBVIOUS
        <5>1. requests'[r].who = requests[q].who /\ WrotePending(r, requests[r].who)'
          BY <3>1 DEF WrotePending
        <5> QED
          BY <2>2, <4>1, <5>1 DEF PendingFree
      <4> QED
        BY <1>2, <3>1, <4>1, <4>2 DEF PendingFree
    <3> QED
      BY <3>1, <3>2 DEF UsedBy, At, Accepting
  <2> QED
    BY <2>1, <2>2
<1>4. IsFiniteSet(Inviting') /\ Cardinality(Inviting') <= Cardinality(UnusedInvitations')
  <2>1. UnusedInvitations' = UnusedInvitations
    BY DEF UnusedInvitations
  <2>2. IsFiniteSet(Inviting) /\ Cardinality(Inviting) <= Cardinality(UnusedInvitations)
    BY DEF Used
  <2>3. CASE Inviting' \subseteq Inviting
    <3>1. IsFiniteSet(Inviting') /\ Cardinality(Inviting') <= Cardinality(Inviting)
      BY <2>2, <2>3, FS_Subset
    <3>2. Cardinality(Inviting') \in Nat /\ Cardinality(Inviting) \in Nat
      BY <2>2, <3>1, FS_CardinalityType
    <3> QED
      BY <2>1, <2>2, <3>1, <3>2, UnusedFinite
  <2>4. CASE /\ Inviting' = Inviting \cup {r} /\ r \notin Inviting
             /\ Cardinality(Inviting) < Cardinality(UnusedInvitations)
    <3>1. IsFiniteSet(Inviting') /\ Cardinality(Inviting') = Cardinality(Inviting) + 1
      BY <2>2, <2>4, FS_AddElement
    <3>2. Cardinality(Inviting) \in Nat
      BY <2>2, FS_CardinalityType
    <3> QED
      BY <2>1, <2>4, <3>1, <3>2, UnusedFinite
  <2> QED
    BY <2>3, <2>4, OthersUnmoved DEF Inviting
<1>5. InvitationUsedOnce' /\ DOMAIN made' = Invitations
  BY DEF Used, InvitationUsedOnce
<1> QED
  BY <1>3, <1>4, <1>5 DEF Used

LEMMA EndUsed ==
  ASSUME Administered, Used, NEW r \in Requests, Proceed(r) \/ Fail(r),
         UNCHANGED <<invitations, made>>, requests'[r] = Idle
  PROVE  Used'
<1>1. requests'[r].op = "none" /\ requests'[r].over = {}
  BY DEF Idle
<1> QED
  BY <1>1, QuietStep DEF WrotePending, Accepting

LEMMA GotoUsed ==
  ASSUME Administered, Used, NEW r \in Requests, NEW pc \in Places \ {"idle"}, Goto(r, pc), Proceed(r),
         UNCHANGED <<invitations, made>>,
         WrotePending(r, requests[r].who)' => PendingFree(r, requests[r].who),
         requests[r].op \in {"accept", "join"} /\ pc \in {"account", "insert", "commit"}
           => /\ invitations[requests[r].row].status = "pending"
              /\ invitations[requests[r].row].email = requests[r].who
  PROVE  Used'
<1>1. /\ requests'[r].pc = pc /\ requests'[r].op = requests[r].op
      /\ requests'[r].who = requests[r].who /\ requests'[r].row = requests[r].row
      /\ requests'[r].over = requests[r].over
  BY RequestFields DEF Goto, Request, Administered, Typed
<1>2. UsedBy(r)
  BY DEF Used
<1> QED
  BY <1>1, <1>2, QuietStep DEF UsedBy, At, Accepting

LEMMA StartUsed ==
  ASSUME Administered, Used, NEW r \in Requests, Start(r) PROVE Used'
<1>1. /\ UNCHANGED <<invitations, made>> /\ At(r, "idle")
      /\ requests[r].op = "none" /\ requests[r] \in Request
  <2>1. UNCHANGED <<invitations, made>> /\ At(r, "idle")
    BY DEF Start, StartChange, StartInvite, StartAccept, StartJoin, StartRegister,
           StartBootstrap, Begin, tables
  <2> QED
    BY <2>1, RequestFields DEF Used, UsedBy
<1>2. ASSUME NEW pc \in {"lock", "expire", "accept", "find", "account", "hasAdministrator"}, NEW op,
             NEW p, NEW row, NEW to, Begin(r, pc, op, p, row, to),
             pc = "account" => op = "register",
             op = "invite" => Cardinality(Inviting) < Cardinality(UnusedInvitations)
      PROVE  Used'
  <2>1. /\ requests'[r].pc = pc /\ requests'[r].op = op
        /\ requests'[r].over = IF op \in {"invite", "accept", "join"}
                               THEN over \cap PendingFor(p) ELSE {}
    BY <1>2 DEF Begin, Administered, Typed
  <2>2. \A i \in requests'[r].over : invitations[i].status # "none"
    BY <2>1 DEF PendingFor
  <2>3. ~ Accepting(r)' /\ ~ WrotePending(r, requests[r].who)'
    BY <1>2, <2>1 DEF Accepting, WrotePending
  <2>4. r \notin Inviting
    BY <1>1 DEF Inviting
  <2> QED
    BY <1>1, <1>2, <2>1, <2>2, <2>3, <2>4, QuietStep DEF At
<1>3. CASE StartChange(r)
  <2> PICK q \in People, to \in Targets : Begin(r, "lock", "change", q, 1, to)
    BY <1>3 DEF StartChange
  <2> QED
    BY <1>2
<1>4. CASE StartInvite(r)
  <2> PICK q \in People, role \in Roles :
        /\ Cardinality(Inviting) < Cardinality(UnusedInvitations)
        /\ Begin(r, "expire", "invite", q, 0, role)
    BY <1>4 DEF StartInvite, Inviting
  <2> QED
    BY <1>2
<1>5. CASE StartAccept(r) \/ StartJoin(r)
  BY <1>2, <1>5 DEF StartAccept, StartJoin
<1>6. CASE StartRegister(r) \/ StartBootstrap(r)
  BY <1>2, <1>6 DEF StartRegister, StartBootstrap
<1> QED
  BY <1>3, <1>4, <1>5, <1>6 DEF Start

(* The steps that leave the invitations alone. *)
LEMMA ProceedUsed ==
  ASSUME Administered, Used, NEW r \in Requests, Proceed(r) \/ Fail(r),
         ~ (CommitInvite(r) \/ CommitAccept(r))
  PROVE  Used'
<1>1. UNCHANGED <<invitations, made>>
  BY DEF Fail, Proceed, Lock, Guard, Refuse, CommitRole, CommitStatus, CommitRemoval, Changing,
         ExpirePending, CheckMember, InsertInvitation, FindInvitation, FindAccount,
         Accept, InsertMember, CheckAdministrator, InsertAccount, CommitRegister, tables
<1>2. requests[r] \in Request /\ PlacedAt(requests[r]) /\ UsedBy(r)
  BY RequestFields DEF Used
<1>3. CASE requests'[r] = Idle
  BY <1>1, <1>3, EndUsed
<1>4. End(r) => requests'[r] = Idle
  BY DEF End, Administered, Typed
<1>5. ASSUME NEW pc, Goto(r, pc)
      PROVE  /\ requests'[r].pc = pc /\ requests'[r].op = requests[r].op
             /\ requests'[r].who = requests[r].who /\ requests'[r].over = requests[r].over
  BY <1>5, RequestFields DEF Goto, Request, Administered, Typed
<1>6. \A p : PendingFor(p)' = PendingFor(p)
  BY <1>1 DEF PendingFor
<1>7. ASSUME NEW pc \in Places \ {"idle"}, Goto(r, pc), Proceed(r),
             requests[r].op \notin {"accept", "join", "invite"} \/ pc \in {"findAccount", "accept"}
      PROVE  Used'
  BY <1>1, <1>5, <1>7, GotoUsed DEF WrotePending
<1>8. CASE Lock(r)
  <2>1. Goto(r, "guard") /\ requests[r].op = "change"
    BY <1>2, <1>8 DEF Lock, PlacedAt, At
  <2> QED
    BY <1>7, <1>8, <2>1 DEF Proceed, Places
<1>9. CASE Guard(r)
  <2>1. requests[r].op = "change" /\ (End(r) \/ Goto(r, "refused") \/ Goto(r, "commit"))
    BY <1>2, <1>9 DEF Guard, PlacedAt, At
  <2> QED
    BY <1>3, <1>4, <1>7, <1>9, <2>1 DEF Proceed, Places
<1>10. CASE ExpirePending(r)
  <2>1. /\ Goto(r, "check") /\ requests[r].op = "invite"
        /\ PendingFor(requests[r].who) \cap requests[r].over # {} => PendingFree(r, requests[r].who)
    BY <1>2, <1>10, ReadyMeans DEF ExpirePending, PlacedAt, At
  <2>2. WrotePending(r, requests[r].who)' => PendingFree(r, requests[r].who)
    BY <1>5, <1>6, <2>1 DEF WrotePending
  <2> QED
    BY <1>1, <1>10, <2>1, <2>2, GotoUsed DEF Proceed, Places
<1>11. CASE CheckMember(r) /\ ~ End(r)
  <2>1. Goto(r, "insert") /\ requests[r].op = "invite" /\ requests[r].pc = "check"
    BY <1>2, <1>11 DEF CheckMember, PlacedAt, At
  <2>2. WrotePending(r, requests[r].who)' => WrotePending(r, requests[r].who)
    BY <1>5, <1>6, <2>1 DEF WrotePending
  <2> QED
    BY <1>1, <1>2, <1>11, <2>1, <2>2, GotoUsed DEF Proceed, Places, UsedBy
<1>12. CASE InsertInvitation(r) /\ ~ End(r)
  <2>1. Goto(r, "commit") /\ requests[r].op = "invite" /\ PendingFree(r, requests[r].who)
    BY <1>12, ReadyMeans DEF InsertInvitation
  <2> QED
    BY <1>1, <1>12, <2>1, GotoUsed DEF Proceed, Places
<1>13. CASE (FindInvitation(r) \/ FindAccount(r)) /\ ~ End(r)
  <2>1. Goto(r, "findAccount") \/ Goto(r, "accept")
    BY <1>13 DEF FindInvitation, FindAccount
  <2> QED
    BY <1>7, <1>13, <2>1 DEF Proceed, Places
<1>14. CASE Accept(r) /\ ~ End(r)
  <2>1. /\ Acceptable(r) /\ invitations[requests[r].row].email = requests[r].who
        /\ PendingFree(r, requests[r].who) /\ (Goto(r, "account") \/ Goto(r, "insert"))
    BY <1>14, ReadyMeans DEF Accept
  <2> QED
    BY <1>1, <1>14, <2>1, GotoUsed DEF Proceed, Places, Acceptable
<1>15. CASE InsertMember(r) /\ ~ End(r)
  <2>1. /\ Goto(r, "commit") /\ requests[r].op \in {"accept", "join"} /\ requests[r].pc = "insert"
    BY <1>15 DEF InsertMember, At
  <2>2. WrotePending(r, requests[r].who) /\ Accepting(r)
    BY <2>1 DEF WrotePending, Accepting
  <2> QED
    BY <1>1, <1>2, <1>15, <2>1, <2>2, GotoUsed DEF Proceed, Places, UsedBy
<1>16. CASE CheckAdministrator(r) /\ ~ End(r)
  <2>1. Goto(r, "account") /\ requests[r].op = "bootstrap"
    BY <1>2, <1>16 DEF CheckAdministrator, PlacedAt, At
  <2> QED
    BY <1>7, <1>16, <2>1 DEF Proceed, Places
<1>17. CASE InsertAccount(r) /\ ~ End(r)
  <2>1. /\ requests[r].pc = "account" /\ requests[r].op \in {"join", "register", "bootstrap"}
        /\ Goto(r, IF requests[r].op = "join" THEN "insert" ELSE "commit")
    BY <1>2, <1>17 DEF InsertAccount, PlacedAt, At
  <2>2. CASE requests[r].op = "join"
    <3>1. WrotePending(r, requests[r].who) /\ Accepting(r)
      BY <2>1, <2>2 DEF WrotePending, Accepting
    <3> QED
      BY <1>1, <1>2, <1>17, <2>1, <2>2, <3>1, GotoUsed DEF Proceed, Places, UsedBy
  <2> QED
    BY <1>7, <1>17, <2>1, <2>2 DEF Proceed, Places
<1>18. CASE CommitRemoval(r)
  BY <1>3, <1>18 DEF CommitRemoval
<1>19. CASE Fail(r) \/ Refuse(r) \/ CommitRole(r) \/ CommitStatus(r) \/ CommitRegister(r)
  BY <1>3, <1>4, <1>19 DEF Fail, Refuse, CommitRole, CommitStatus, CommitRegister
<1> QED
  BY <1>3, <1>4, <1>8, <1>9, <1>10, <1>11, <1>12, <1>13, <1>14, <1>15, <1>16, <1>17, <1>18, <1>19
     DEF Proceed

(* r has written the pending entry of a person and commits: the invitations *)
(* of other people, and those that were not pending, stay what they were.   *)
LEMMA WriterCommits ==
  ASSUME Administered, Used, NEW r \in Requests, End(r), NEW who,
         WrotePending(r, who), who = requests[r].who,
         \A i \in Invitations :
           \/ invitations'[i] = invitations[i]
           \/ invitations[i].status = "none" /\ invitations'[i].status # "none"
           \/ /\ invitations[i].status = "pending" /\ invitations[i].email = who
              /\ invitations'[i].status \notin {"none", "pending"}
  PROVE  \A q \in Requests : UsedBy(q)'
<1>1. requests'[r] = Idle /\ \A q \in Requests \ {r} : requests'[q] = requests[q]
  BY DEF End, Administered, Typed
<1>2. ASSUME NEW q \in Requests, q # r PROVE UsedBy(q)'
  <2>1. requests'[q] = requests[q] /\ UsedBy(q) /\ requests[q] \in Request /\ PlacedAt(requests[q])
        /\ UsedBy(r)
    BY <1>1, <1>2, RequestFields DEF Used
  <2>2. ASSUME NEW p, NEW s \in Requests, WrotePending(s, p)'
        PROVE  s # r /\ WrotePending(s, p)
    <3>1. s # r /\ requests'[s] = requests[s] /\ requests[s] \in Request /\ UsedBy(s)
      BY <1>1, <2>2, RequestFields DEF WrotePending, Idle, Used
    <3>2. PendingFor(p)' \cap requests[s].over \subseteq PendingFor(p) \cap requests[s].over
      BY <3>1 DEF PendingFor, UsedBy, Request
    <3> QED
      BY <2>2, <3>1, <3>2 DEF WrotePending
  <2>3. WrotePending(q, requests[q].who)' => PendingFree(q, requests[q].who)'
    BY <2>1, <2>2 DEF UsedBy, PendingFree
  <2>4. Accepting(q) => invitations'[requests[q].row] = invitations[requests[q].row]
    <3> SUFFICES ASSUME Accepting(q)
                 PROVE  invitations'[requests[q].row] = invitations[requests[q].row]
      OBVIOUS
    <3>1. /\ invitations[requests[q].row].status = "pending"
          /\ invitations[requests[q].row].email = requests[q].who
          /\ requests[q].row \in Invitations
      BY <2>1 DEF UsedBy, Accepting, PlacedAt
    <3>2. WrotePending(q, requests[q].who)
      BY DEF Accepting, WrotePending
    <3>3. requests[q].who # who
      BY <1>2, <2>1, <3>2 DEF UsedBy, PendingFree
    <3> QED
      BY <3>1, <3>3
  <2>5. \A i \in requests[q].over : invitations'[i].status # "none"
    BY <2>1 DEF UsedBy, Request
  <2> QED
    BY <2>1, <2>3, <2>4, <2>5 DEF UsedBy, Accepting, At
<1>3. UsedBy(r)'
  BY <1>1 DEF UsedBy, Idle, WrotePending, Accepting, At
<1> QED
  BY <1>2, <1>3

(* The lowest free row: the naturals are well founded. *)
LEMMA LowestUnused ==
  ASSUME UnusedInvitations # {}
  PROVE  \E i \in UnusedInvitations : \A j \in UnusedInvitations : i <= j
<1> DEFINE less == {ss \in Nat \X Nat : ss[1] < ss[2]}
<1>1. IsWellFoundedOn(less, Nat)
  BY NatLessThanWellFounded DEF OpToRel
<1>2. UnusedInvitations \subseteq Nat
  BY InvitationsAssumption DEF UnusedInvitations, Invitations
<1>3. PICK i \in UnusedInvitations : \A j \in UnusedInvitations : ~ (<<j, i>> \in less)
  <2> HIDE DEF less
  <2> QED
    BY <1>1, <1>2, WFMin
<1>4. ASSUME NEW j \in UnusedInvitations PROVE i <= j
  <2>1. i \in Nat /\ j \in Nat /\ <<j, i>> \in Nat \X Nat
    BY <1>2
  <2>2. j < i => <<j, i>> \in less
    <3> DEFINE jj == <<j, i>>
    <3>1. jj \in Nat \X Nat /\ jj[1] = j /\ jj[2] = i
      BY <2>1
    <3> HIDE DEF jj
    <3>2. j < i => jj \in less
      BY <3>1
    <3> QED
      BY <3>2 DEF jj
  <2>3. ~ (<<j, i>> \in less)
    BY <1>3
  <2> HIDE DEF less
  <2> QED
    BY <2>1, <2>2, <2>3
<1> QED
  BY <1>4

(* There is a row left for an invitation that commits. *)
LEMMA NewIsUnused ==
  ASSUME Used, NEW r \in Requests, requests[r].op = "invite"
  PROVE  (CHOOSE i \in UnusedInvitations : \A j \in UnusedInvitations : i <= j) \in UnusedInvitations
<1>1. r \in Inviting /\ IsFiniteSet(Inviting) /\ Cardinality(Inviting) <= Cardinality(UnusedInvitations)
  BY DEF Inviting, Used
<1>2. UnusedInvitations # {}
  <2> SUFFICES ASSUME UnusedInvitations = {} PROVE FALSE
    OBVIOUS
  <2>1. Cardinality(UnusedInvitations) = 0
    BY FS_EmptySet
  <2>2. Cardinality(Inviting) \in Nat /\ Cardinality(Inviting) # 0
    BY <1>1, FS_CardinalityType, FS_EmptySet
  <2> QED
    BY <1>1, <2>1, <2>2
<1> QED
  BY <1>2, LowestUnused

LEMMA InviteUsed ==
  ASSUME Administered, Used, NEW r \in Requests, CommitInvite(r) PROVE Used'
<1> DEFINE p == requests[r].who
           new == CHOOSE i \in UnusedInvitations : \A j \in UnusedInvitations : i <= j
           gone == PendingFor(p) \cap requests[r].over
<1>1. /\ End(r) /\ requests[r].op = "invite" /\ requests[r].pc = "commit" /\ UNCHANGED made
      /\ invitations' = [i \in Invitations |->
           IF i = new THEN [email |-> p, role |-> requests[r].to, status |-> "pending"]
           ELSE IF i \in gone THEN [invitations[i] EXCEPT !.status = "expired"] ELSE invitations[i]]
  BY DEF CommitInvite, At
<1>2. requests'[r] = Idle /\ \A q \in Requests \ {r} : requests'[q] = requests[q]
  BY <1>1 DEF End, Administered, Typed
<1>3. /\ Inviting' = Inviting \ {r} /\ r \in Inviting /\ IsFiniteSet(Inviting)
      /\ Cardinality(Inviting) <= Cardinality(UnusedInvitations)
  BY <1>1, <1>2 DEF Inviting, Idle, Used
<1>4. /\ IsFiniteSet(Inviting') /\ Cardinality(Inviting') = Cardinality(Inviting) - 1
      /\ Cardinality(Inviting) \in Nat /\ Cardinality(Inviting') \in Nat
  <2>1. IsFiniteSet(Inviting') /\ Cardinality(Inviting') = Cardinality(Inviting) - 1
    BY <1>3, FS_RemoveElement
  <2> QED
    BY <1>3, <2>1, FS_CardinalityType
<1>5. new \in UnusedInvitations
  BY <1>1, NewIsUnused
<1> HIDE DEF new
<1>6. \A i \in Invitations :
        /\ invitations[i] \in [email : People, role : Roles,
                               status : {"none", "pending", "accepted", "expired"}]
        /\ i = new => invitations[i].status = "none" /\ invitations'[i].status = "pending"
        /\ i # new /\ i \in gone
             => /\ invitations[i].status = "pending" /\ invitations[i].email = p
                /\ invitations'[i].status = "expired"
        /\ i # new /\ i \notin gone => invitations'[i] = invitations[i]
  BY <1>1, <1>5 DEF Administered, Typed, TypeOK, UnusedInvitations, PendingFor
<1>7. new \in Invitations /\ UnusedInvitations' = UnusedInvitations \ {new}
  BY <1>5, <1>6 DEF UnusedInvitations
<1>8. Cardinality(UnusedInvitations') = Cardinality(UnusedInvitations) - 1
  BY <1>5, <1>7, UnusedFinite, FS_RemoveElement
<1>9. InvitationUsedOnce'
  <2>1. \A i \in Invitations :
          made[i] = IF invitations[i].status = "accepted" THEN <<invitations[i].email>> ELSE <<>>
    BY DEF Used, InvitationUsedOnce
  <2>2. \A i \in Invitations :
          made'[i] = IF invitations'[i].status = "accepted" THEN <<invitations'[i].email>> ELSE <<>>
    BY <1>1, <1>6, <2>1
  <2> QED
    BY <2>2 DEF InvitationUsedOnce
<1>10. WrotePending(r, p)
  BY <1>1 DEF WrotePending
<1>11. \A i \in Invitations :
           \/ invitations'[i] = invitations[i]
           \/ invitations[i].status = "none" /\ invitations'[i].status # "none"
           \/ /\ invitations[i].status = "pending" /\ invitations[i].email = p
              /\ invitations'[i].status \notin {"none", "pending"}
  BY <1>6
<1>12. \A q \in Requests : UsedBy(q)'
  BY <1>1, <1>10, <1>11, WriterCommits
<1>13. DOMAIN made' = Invitations
  BY <1>1 DEF Used
<1>14. IsFiniteSet(Inviting)' /\ Cardinality(Inviting)' <= Cardinality(UnusedInvitations)'
  <2>1. Cardinality(UnusedInvitations) \in Nat
    BY UnusedFinite
  <2> QED
    BY <1>3, <1>4, <1>8, <2>1
<1> QED
  BY <1>9, <1>12, <1>13, <1>14 DEF Used

LEMMA AcceptUsed ==
  ASSUME Administered, Used, NEW r \in Requests, CommitAccept(r) PROVE Used'
<1> DEFINE i == requests[r].row
           p == requests[r].who
<1>1. /\ End(r) /\ requests[r].op \in {"accept", "join"} /\ requests[r].pc = "commit"
      /\ invitations' = [invitations EXCEPT ![i].status = "accepted"]
      /\ made' = [made EXCEPT ![i] = Append(@, p)]
  BY DEF CommitAccept, At
<1>2. requests'[r] = Idle /\ \A q \in Requests \ {r} : requests'[q] = requests[q]
  BY <1>1 DEF End, Administered, Typed
<1>3. WrotePending(r, p) /\ Accepting(r)
  BY <1>1 DEF WrotePending, Accepting
<1>4. i \in Invitations /\ invitations[i].status = "pending" /\ invitations[i].email = p
  BY <1>1, <1>3, RequestFields DEF Used, UsedBy, PlacedAt
<1>5. /\ \A j \in Invitations : j # i => invitations'[j] = invitations[j]
      /\ invitations'[i].status = "accepted" /\ invitations'[i].email = p
  BY <1>1, <1>4 DEF Administered, Typed, TypeOK
<1>6. UnusedInvitations' = UnusedInvitations
  BY <1>4, <1>5 DEF UnusedInvitations
<1>7. Inviting' = Inviting
  BY <1>1, <1>2 DEF Inviting, Idle
<1>8. InvitationUsedOnce'
  <2>1. DOMAIN made = Invitations
    BY DEF Used
  <2>2. \A j \in Invitations :
          made[j] = IF invitations[j].status = "accepted" THEN <<invitations[j].email>> ELSE <<>>
    BY DEF Used, InvitationUsedOnce
  <2>3. made'[i] = <<p>> /\ \A j \in Invitations : j # i => made'[j] = made[j]
    <3>1. made[i] = <<>>
      BY <1>4, <2>2
    <3>2. made'[i] = Append(made[i], p) /\ \A j \in Invitations : j # i => made'[j] = made[j]
      BY <1>1, <1>4, <2>1
    <3>3. Append(<<>>, p) = <<p>>
      OBVIOUS
    <3> QED
      BY <3>1, <3>2, <3>3
  <2>4. \A j \in Invitations :
          made'[j] = IF invitations'[j].status = "accepted" THEN <<invitations'[j].email>> ELSE <<>>
    BY <1>5, <2>2, <2>3
  <2> QED
    BY <2>4 DEF InvitationUsedOnce
<1>9. \A j \in Invitations :
           \/ invitations'[j] = invitations[j]
           \/ invitations[j].status = "none" /\ invitations'[j].status # "none"
           \/ /\ invitations[j].status = "pending" /\ invitations[j].email = p
              /\ invitations'[j].status \notin {"none", "pending"}
  BY <1>4, <1>5
<1>10. \A q \in Requests : UsedBy(q)'
  BY <1>1, <1>3, <1>9, WriterCommits
<1>11. DOMAIN made' = Invitations
  BY <1>1 DEF Used
<1> QED
  BY <1>6, <1>7, <1>8, <1>10, <1>11 DEF Used

LEMMA NextUsed == Administered /\ Used /\ [Next]_vars => Used'
<1> SUFFICES ASSUME Administered, Used, [Next]_vars PROVE Used'
  OBVIOUS
<1>1. CASE UNCHANGED vars \/ \E i \in Invitations : Age(i)
  <2>1. UNCHANGED <<invitations, made, requests>>
    BY <1>1 DEF vars, Age, tables
  <2> QED
    BY <2>1 DEF Used, UsedBy, InvitationUsedOnce, Inviting, UnusedInvitations, WrotePending,
                PendingFor, PendingFree, Accepting, At
<1>2. ASSUME NEW r \in Requests, Start(r) PROVE Used'
  BY <1>2, StartUsed
<1>3. ASSUME NEW r \in Requests, Proceed(r) \/ Fail(r) PROVE Used'
  BY <1>3, ProceedUsed, InviteUsed, AcceptUsed
<1> QED
  BY <1>1, <1>2, <1>3 DEF Next

(* However acceptances, expiries, new invitations and failures interleave,  *)
(* an accepted invitation has made one member, the person it was for, and   *)
(* any other none.                                                          *)
THEOREM InvitationAlwaysUsedOnce == Spec => []InvitationUsedOnce
<1>1. Used => InvitationUsedOnce
  BY DEF Used
<1> QED
  BY <1>1, InitUsed, NextUsed, AlwaysAdministered, PTL DEF Spec
-----------------------------------------------------------------------------
(* Waiting.  Whoever holds the organization is a change past the lock.     *)
Changed(r) == At(r, "guard") \/ At(r, "refused") \/ (At(r, "commit") /\ requests[r].op = "change")

Held == \A r \in Requests : orgLock = r => Changed(r)

(* A step of r that leaves the organization to others. *)
LEMMA LeftKeepsHeld ==
  ASSUME Administered, Held, NEW r \in Requests, Start(r) \/ Proceed(r) \/ Fail(r),
         Unlock(r) \/ (orgLock' = orgLock /\ ~ Changed(r))
  PROVE  Held'
<1>1. orgLock' # r /\ \A q \in Requests : orgLock' = q => orgLock = q
  BY NobodyAssumption DEF Unlock, Held
<1> QED
  BY <1>1, OthersUnmoved DEF Held, Changed, At

LEMMA NextHeld == Administered /\ Held /\ [Next]_vars => Held'
<1> SUFFICES ASSUME Administered, Held, [Next]_vars PROVE Held'
  OBVIOUS
<1>1. CASE UNCHANGED vars \/ \E i \in Invitations : Age(i)
  BY <1>1 DEF vars, Age, Held, Changed, At
<1>2. ASSUME NEW r \in Requests, Start(r) PROVE Held'
  <2>1. At(r, "idle") /\ orgLock' = orgLock
    BY <1>2 DEF Start, StartChange, StartInvite, StartAccept, StartJoin, StartRegister,
                StartBootstrap, Begin
  <2> QED
    BY <1>2, <2>1, LeftKeepsHeld DEF Changed, At
<1>3. ASSUME NEW r \in Requests, Proceed(r) \/ Fail(r) PROVE Held'
  <2>1. CASE Lock(r)
    <3>1. orgLock' = r /\ requests'[r].pc = "guard" /\ Proceed(r)
      BY <2>1, GotoMoves DEF Lock, Proceed
    <3> QED
      BY <3>1 DEF Held, Changed, At
  <2>2. CASE Guard(r)
    <3>1. CASE Unlock(r)
      BY <1>3, <3>1, LeftKeepsHeld
    <3>2. CASE orgLock' = orgLock /\ (Goto(r, "refused") \/ Goto(r, "commit"))
      <4>1. requests[r].op = "change"
        BY <2>2, RequestFields DEF Guard, PlacedAt, At
      <4>2. Changed(r)'
        BY <3>2, <4>1, GotoMoves DEF Changed, At
      <4> QED
        BY <1>3, <3>2, <4>2, OthersUnmoved DEF Held, Changed, At
    <3> QED
      BY <2>2, <3>1, <3>2 DEF Guard
  <2>3. CASE Fail(r) \/ Refuse(r) \/ CommitRole(r) \/ CommitStatus(r) \/ CommitRemoval(r)
    <3>1. Unlock(r)
      BY <2>3 DEF Fail, Refuse, CommitRole, CommitStatus, CommitRemoval, Changing
    <3> QED
      BY <1>3, <3>1, LeftKeepsHeld
  <2>4. CASE \/ ExpirePending(r) \/ CheckMember(r) \/ InsertInvitation(r) \/ CommitInvite(r)
             \/ FindInvitation(r) \/ FindAccount(r) \/ Accept(r) \/ InsertMember(r)
             \/ CommitAccept(r) \/ CheckAdministrator(r) \/ InsertAccount(r) \/ CommitRegister(r)
    <3>1. orgLock' = orgLock /\ ~ Changed(r)
      BY <2>4 DEF ExpirePending, CheckMember, InsertInvitation, CommitInvite, FindInvitation,
                  FindAccount, Accept, InsertMember, CommitAccept, CheckAdministrator,
                  InsertAccount, CommitRegister, Changed, At
    <3> QED
      BY <1>3, <3>1, LeftKeepsHeld
  <2> QED
    BY <1>3, <2>1, <2>2, <2>3, <2>4 DEF Proceed
<1> QED
  BY <1>1, <1>2, <1>3 DEF Next

(* What a request waits for is behind it: the order in which the           *)
(* transactions of members.ts, registerUser and bootstrap.ts take their    *)
(* locks (organization, pending entry, account, membership) is the same.   *)
Level(r) ==
  IF requests[r].pc \in {"expire", "accept", "lock"} THEN 3
  ELSE IF At(r, "insert") /\ requests[r].op = "invite" /\ ~ WrotePending(r, requests[r].who) THEN 3
  ELSE IF At(r, "account") THEN 2
  ELSE IF At(r, "insert") THEN 1 ELSE 0

LEMMA WaitsBehind ==
  ASSUME Administered, Used, Held, NEW r \in Requests, NEW q \in Requests, WaitsFor(r, q)
  PROVE  Level(q) < Level(r) /\ ~ At(q, "idle")
<1>1. /\ requests[r] \in Request /\ PlacedAt(requests[r])
      /\ requests[q] \in Request /\ PlacedAt(requests[q])
  BY RequestFields
<1>2. CASE WaitsForOrg(r, q)
  <2>1. orgLock = q => Level(q) = 0 /\ ~ At(q, "idle")
    BY <1>1 DEF Held, Changed, Level, At
  <2>2. SharesOrg(q) => Level(q) = 0 /\ ~ At(q, "idle")
    BY DEF SharesOrg, Level, At
  <2>3. Level(r) \in {1, 3}
    BY <1>2 DEF WaitsForOrg, Level, At
  <2> QED
    BY <1>2, <2>1, <2>2, <2>3 DEF WaitsForOrg
<1>3. ASSUME NEW p, WrotePending(q, p) PROVE Level(q) \in {0, 1, 2} /\ ~ At(q, "idle")
  BY <1>3 DEF WrotePending, Level, At
<1>4. CASE WaitsForEntry(r, q)
  <2>1. CASE At(r, "expire") \/ At(r, "accept")
    <3>1. Level(r) = 3
      BY <2>1 DEF Level, At
    <3>2. \E p : WrotePending(q, p)
      BY <1>4, <2>1 DEF WaitsForEntry, At
    <3> QED
      BY <1>3, <3>1, <3>2
  <2>2. CASE At(r, "insert") /\ requests[r].op = "invite"
    <3>1. WrotePending(q, requests[r].who) /\ q # r
      BY <1>4, <2>2 DEF WaitsForEntry, WaitsFor, At
    <3>2. ~ WrotePending(r, requests[r].who)
      BY <3>1 DEF Used, UsedBy, PendingFree
    <3>3. Level(r) = 3
      BY <2>2, <3>2 DEF Level, At
    <3> QED
      BY <1>3, <3>1, <3>3
  <2>3. CASE At(r, "insert") /\ requests[r].op \in {"accept", "join"}
    <3>1. WroteMember(q, requests[r].who) /\ Level(r) = 1
      BY <1>4, <2>3 DEF WaitsForEntry, Level, At
    <3> QED
      BY <3>1 DEF WroteMember, Level, At
  <2>4. CASE At(r, "account")
    <3>1. WroteAccount(q, requests[r].who) /\ Level(r) = 2
      BY <1>4, <2>4 DEF WaitsForEntry, Level, At
    <3> QED
      BY <3>1 DEF WroteAccount, Level, At
  <2> QED
    BY <1>4, <2>1, <2>2, <2>3, <2>4 DEF WaitsForEntry
<1> QED
  BY <1>2, <1>4 DEF WaitsFor

(* Requests never wait for each other in a circle, nor for what one that   *)
(* has ended left locked, so a transaction can always go on (the order of  *)
(* the statements of members.ts, registerUser and bootstrap.ts).           *)
THEOREM NeverLockCycle == Spec => []NoLockCycle
<1>1. Administered /\ Used /\ Held => NoLockCycle
  <2> SUFFICES ASSUME Administered, Used, Held, NEW waiting \in SUBSET Requests, waiting # {}
               PROVE  \E r \in waiting : \A q \in Requests :
                        WaitsFor(r, q) => q \notin waiting /\ ~ At(q, "idle")
    BY DEF NoLockCycle
  <2>1. \A r \in waiting : Level(r) \in 0..3
    BY DEF Level
  <2>2. \E r \in waiting : \A q \in waiting : Level(r) <= Level(q)
    <3>1. CASE \E r \in waiting : Level(r) = 0
      BY <2>1, <3>1
    <3>2. CASE (\A r \in waiting : Level(r) # 0) /\ \E r \in waiting : Level(r) = 1
      BY <2>1, <3>2
    <3>3. CASE (\A r \in waiting : Level(r) \notin 0..1) /\ \E r \in waiting : Level(r) = 2
      BY <2>1, <3>3
    <3>4. CASE \A r \in waiting : Level(r) \notin 0..2
      BY <2>1, <3>4
    <3> QED
      BY <2>1, <3>1, <3>2, <3>3, <3>4
  <2>3. PICK r \in waiting : \A q \in waiting : Level(r) <= Level(q)
    BY <2>2
  <2>4. ASSUME NEW q \in Requests, WaitsFor(r, q) PROVE q \notin waiting /\ ~ At(q, "idle")
    <3>1. Level(q) < Level(r) /\ ~ At(q, "idle")
      BY <2>4, WaitsBehind
    <3>2. q \in waiting => Level(r) <= Level(q) /\ Level(q) \in 0..3 /\ Level(r) \in 0..3
      BY <2>1, <2>3
    <3> QED
      BY <3>1, <3>2
  <2> QED
    BY <2>3, <2>4
<1>2. Init => Held
  BY NobodyAssumption DEF Init, Held
<1> QED
  BY <1>1, <1>2, NextHeld, InitUsed, NextUsed, AlwaysAdministered, PTL DEF Spec
(* Hence the transactions under way are never all waiting: one of them has *)
(* a statement that waits for nobody, however many there are.              *)
THEOREM SomebodyIsReady ==
  Spec => []((\E r \in Requests : ~ At(r, "idle"))
               => \E r \in Requests : ~ At(r, "idle") /\ Ready(r))
<1>1. ASSUME NoLockCycle, \E r \in Requests : ~ At(r, "idle")
      PROVE  \E r \in Requests : ~ At(r, "idle") /\ Ready(r)
  <2> DEFINE active == {r \in Requests : ~ At(r, "idle")}
  <2>1. active \in SUBSET Requests /\ active # {}
    BY <1>1
  <2>2. PICK r \in active : \A q \in Requests : WaitsFor(r, q) => q \notin active /\ ~ At(q, "idle")
    <3> HIDE DEF active
    <3> QED
      BY <1>1, <2>1 DEF NoLockCycle
  <2>3. Ready(r)
    BY <2>2 DEF Ready
  <2> QED
    BY <2>3
<1> QED
  BY <1>1, NeverLockCycle, PTL

-----------------------------------------------------------------------------
(* The transactions do what Organization says.  The one that replaces an   *)
(* invitation has seen every pending one of the person, though it read     *)
(* them several statements ago and its now() is that of its start.         *)
Serial ==
  \A r \in Requests :
    /\ \A i \in requests[r].over : invitations[i].status = "pending" => i \in over
    /\ At(r, "commit") /\ requests[r].op = "invite"
         => PendingFor(requests[r].who) \subseteq requests[r].over

(* The steps that leave the invitations alone. *)
LEMMA QuietSerial ==
  ASSUME Administered, Serial, NEW r \in Requests, Start(r) \/ Proceed(r) \/ Fail(r),
         UNCHANGED <<invitations, over>>,
         requests'[r].over \subseteq over \/ requests'[r].over = requests[r].over,
         requests'[r].pc = "commit" /\ requests'[r].op = "invite"
           => PendingFor(requests'[r].who) \subseteq requests'[r].over
  PROVE  Serial'
<1>1. \A p : PendingFor(p)' = PendingFor(p)
  BY DEF PendingFor
<1>2. ASSUME NEW q \in Requests, q # r
      PROVE  /\ \A i \in requests'[q].over : invitations'[i].status = "pending" => i \in over'
             /\ At(q, "commit")' /\ requests'[q].op = "invite"
                  => PendingFor(requests[q].who)' \subseteq requests'[q].over
  BY <1>1, <1>2, OthersUnmoved DEF Serial, At
<1>3. /\ \A i \in requests'[r].over : invitations'[i].status = "pending" => i \in over'
      /\ At(r, "commit")' /\ requests'[r].op = "invite"
           => PendingFor(requests[r].who)' \subseteq requests'[r].over
  BY <1>1 DEF Serial, At
<1> QED
  BY <1>2, <1>3 DEF Serial

LEMMA StartSerial ==
  ASSUME Administered, Serial, NEW r \in Requests, Start(r) PROVE Serial'
<1>1. UNCHANGED <<invitations, over>>
  BY DEF Start, StartChange, StartInvite, StartAccept, StartJoin, StartRegister, StartBootstrap,
         tables
<1>2. ASSUME NEW pc \in Places \ {"commit"}, NEW op, NEW p, NEW row, NEW to,
             Begin(r, pc, op, p, row, to)
      PROVE  requests'[r].over \subseteq over /\ requests'[r].pc # "commit"
  BY <1>2 DEF Begin, Administered, Typed
<1>3. requests'[r].over \subseteq over /\ requests'[r].pc # "commit"
  BY <1>2 DEF Start, StartChange, StartInvite, StartAccept, StartJoin, StartRegister,
              StartBootstrap, Places
<1> QED
  BY <1>1, <1>3, QuietSerial

LEMMA ProceedSerial ==
  ASSUME Administered, Used, Serial, NEW r \in Requests, Proceed(r) \/ Fail(r),
         ~ (CommitInvite(r) \/ CommitAccept(r))
  PROVE  Serial'
<1>1. UNCHANGED <<invitations, over>>
  BY DEF Fail, Proceed, Lock, Guard, Refuse, CommitRole, CommitStatus, CommitRemoval, Changing,
         ExpirePending, CheckMember, InsertInvitation, FindInvitation, FindAccount,
         Accept, InsertMember, CheckAdministrator, InsertAccount, CommitRegister, tables
<1>2. CASE requests'[r] = Idle
  BY <1>1, <1>2, QuietSerial DEF Idle
<1>3. End(r) => requests'[r] = Idle
  BY DEF End, Administered, Typed
<1>4. ASSUME NEW pc, Goto(r, pc)
      PROVE  /\ requests'[r].pc = pc /\ requests'[r].op = requests[r].op
             /\ requests'[r].who = requests[r].who /\ requests'[r].over = requests[r].over
  BY <1>4, RequestFields DEF Goto, Request, Administered, Typed
<1>5. CASE InsertInvitation(r) /\ ~ End(r)
  <2>1. Goto(r, "commit") /\ PendingFor(requests[r].who) \subseteq requests[r].over
    BY <1>5 DEF InsertInvitation
  <2> QED
    BY <1>1, <1>4, <1>5, <2>1, QuietSerial DEF Proceed
<1>6. CASE \/ Lock(r) \/ Guard(r) \/ InsertMember(r) \/ InsertAccount(r)
           \/ ((FindInvitation(r) \/ FindAccount(r) \/ Accept(r)) /\ ~ End(r))
           \/ (CheckAdministrator(r) /\ ~ End(r))
  <2>1. requests[r].op # "invite"
    BY <1>6, RequestFields
       DEF Lock, Guard, InsertMember, InsertAccount, FindInvitation, FindAccount, Accept,
           CheckAdministrator, PlacedAt, At
  <2>2. End(r) \/ \E pc : Goto(r, pc)
    BY <1>6 DEF Lock, Guard, InsertMember, InsertAccount, FindInvitation, FindAccount, Accept,
                CheckAdministrator
  <2> QED
    BY <1>1, <1>2, <1>3, <1>4, <1>6, <2>1, <2>2, QuietSerial
<1>7. CASE (ExpirePending(r) \/ CheckMember(r)) /\ ~ End(r)
  <2>1. Goto(r, "check") \/ Goto(r, "insert")
    BY <1>7 DEF ExpirePending, CheckMember
  <2> QED
    BY <1>1, <1>4, <1>7, <2>1, QuietSerial
<1>8. CASE \/ Fail(r) \/ Refuse(r) \/ CommitRole(r) \/ CommitStatus(r) \/ CommitRemoval(r)
           \/ CommitRegister(r)
  BY <1>2, <1>3, <1>8 DEF Fail, Refuse, CommitRole, CommitStatus, CommitRemoval, CommitRegister
<1> QED
  BY <1>2, <1>3, <1>5, <1>6, <1>7, <1>8 DEF Proceed

(* Who writes the pending entry of a person does not touch those of others. *)
LEMMA WriterSerial ==
  ASSUME Administered, Used, Serial, NEW r \in Requests, End(r), NEW who,
         WrotePending(r, who), who = requests[r].who,
         \A i \in Invitations :
           \/ invitations'[i] = invitations[i] /\ (i \in over => i \in over')
           \/ invitations[i].status = "none" /\ invitations'[i].email = who
           \/ invitations'[i].status # "pending"
  PROVE  Serial'
<1>1. requests'[r] = Idle /\ \A q \in Requests \ {r} : requests'[q] = requests[q]
  BY DEF End, Administered, Typed
<1>2. ASSUME NEW q \in Requests, q # r
      PROVE  /\ \A i \in requests'[q].over : invitations'[i].status = "pending" => i \in over'
             /\ At(q, "commit")' /\ requests'[q].op = "invite"
                  => PendingFor(requests[q].who)' \subseteq requests'[q].over
  <2>1. requests'[q] = requests[q] /\ requests[q] \in Request /\ UsedBy(q)
    BY <1>1, <1>2, RequestFields DEF Used
  <2>2. ASSUME NEW i \in requests[q].over, invitations'[i].status = "pending" PROVE i \in over'
    <3>1. i \in Invitations /\ invitations[i].status # "none"
      BY <2>1 DEF UsedBy, Request
    <3>2. invitations'[i] = invitations[i] /\ (i \in over => i \in over')
      BY <2>2, <3>1
    <3> QED
      BY <2>2, <3>2 DEF Serial
  <2>3. ASSUME At(q, "commit"), requests[q].op = "invite",
               NEW i \in PendingFor(requests[q].who)'
        PROVE  i \in requests[q].over
    <3>1. WrotePending(q, requests[q].who)
      BY <2>3 DEF WrotePending, At
    <3>2. requests[q].who # who
      BY <1>2, <2>1, <3>1 DEF UsedBy, PendingFree
    <3>3. /\ i \in Invitations /\ invitations'[i].status = "pending"
          /\ invitations'[i].email = requests[q].who
      BY <2>1, <2>3 DEF PendingFor
    <3>4. i \in PendingFor(requests[q].who)
      BY <3>2, <3>3 DEF PendingFor
    <3> QED
      BY <2>3, <3>4 DEF Serial
  <2> QED
    BY <2>1, <2>2, <2>3 DEF At
<1>3. requests'[r].pc = "idle" /\ requests'[r].over = {}
  BY <1>1 DEF Idle
<1> QED
  BY <1>2, <1>3 DEF Serial, At

LEMMA InviteSerial ==
  ASSUME Administered, Used, Serial, NEW r \in Requests, CommitInvite(r) PROVE Serial'
<1> DEFINE p == requests[r].who
           new == CHOOSE i \in UnusedInvitations : \A j \in UnusedInvitations : i <= j
           gone == PendingFor(p) \cap requests[r].over
<1>1. /\ End(r) /\ requests[r].op = "invite" /\ requests[r].pc = "commit"
      /\ invitations' = [i \in Invitations |->
           IF i = new THEN [email |-> p, role |-> requests[r].to, status |-> "pending"]
           ELSE IF i \in gone THEN [invitations[i] EXCEPT !.status = "expired"] ELSE invitations[i]]
      /\ over' = over \ gone
  BY DEF CommitInvite, At
<1>2. new \in UnusedInvitations
  BY <1>1, NewIsUnused
<1> HIDE DEF new, gone
<1>3. WrotePending(r, p)
  BY <1>1 DEF WrotePending
<1>4. ASSUME NEW i \in Invitations
      PROVE  \/ invitations'[i] = invitations[i] /\ (i \in over => i \in over')
             \/ invitations[i].status = "none" /\ invitations'[i].email = p
             \/ invitations'[i].status # "pending"
  <2>1. invitations[i] \in [email : People, role : Roles,
                            status : {"none", "pending", "accepted", "expired"}]
    BY DEF Administered, Typed, TypeOK
  <2>2. CASE i = new
    BY <1>1, <1>2, <2>2 DEF UnusedInvitations
  <2>3. CASE i # new /\ i \in gone
    BY <1>1, <2>1, <2>3
  <2>4. CASE i # new /\ i \notin gone
    BY <1>1, <2>4
  <2> QED
    BY <2>2, <2>3, <2>4
<1> QED
  BY <1>1, <1>3, <1>4, WriterSerial

LEMMA AcceptSerial ==
  ASSUME Administered, Used, Serial, NEW r \in Requests, CommitAccept(r) PROVE Serial'
<1> DEFINE i == requests[r].row
           p == requests[r].who
<1>1. /\ End(r) /\ requests[r].op \in {"accept", "join"} /\ requests[r].pc = "commit"
      /\ invitations' = [invitations EXCEPT ![i].status = "accepted"]
      /\ over' = over \ {i}
  BY DEF CommitAccept, At
<1>2. WrotePending(r, p) /\ i \in Invitations
  BY <1>1, RequestFields DEF WrotePending, PlacedAt
<1>3. invitations \in [Invitations -> [email : People, role : Roles,
                                       status : {"none", "pending", "accepted", "expired"}]]
  BY DEF Administered, Typed, TypeOK
<1>4. \A j \in Invitations : \/ invitations'[j] = invitations[j] /\ (j \in over => j \in over')
                            \/ invitations'[j].status # "pending"
  BY <1>1, <1>2, <1>3
<1> QED
  BY <1>1, <1>2, <1>4, WriterSerial

LEMMA NextSerial == Administered /\ Used /\ Serial /\ [Next]_vars => Serial'
<1> SUFFICES ASSUME Administered, Used, Serial, [Next]_vars PROVE Serial'
  OBVIOUS
<1>1. CASE UNCHANGED vars \/ \E i \in Invitations : Age(i)
  <2>1. UNCHANGED <<invitations, requests>> /\ over \subseteq over'
    BY <1>1 DEF vars, Age, tables
  <2> QED
    BY <2>1 DEF Serial, PendingFor, At
<1>2. ASSUME NEW r \in Requests, Start(r) PROVE Serial'
  BY <1>2, StartSerial
<1>3. ASSUME NEW r \in Requests, Proceed(r) \/ Fail(r) PROVE Serial'
  BY <1>3, ProceedSerial, InviteSerial, AcceptSerial
<1> QED
  BY <1>1, <1>2, <1>3 DEF Next

(* The commits, one by one. *)
LEMMA ChangeImplements ==
  ASSUME Administered, Administered', NEW r \in Requests,
         CommitRole(r) \/ CommitStatus(r) \/ CommitRemoval(r)
  PROVE  \E p \in People : ChangeRole(p) \/ ChangeStatus(p) \/ Remove(p)
<1> PICK p \in People : p = requests[r].who
  BY RequestFields
<1>1. /\ Present(p) /\ founded /\ founded' = founded
      /\ UNCHANGED <<users, elsewhere, founded, invitations, made, over, bootstraps>>
  BY RequestFields, Founded
     DEF CommitRole, CommitStatus, CommitRemoval, Changing, Administered, NamesMember, At
<1>2. UNCHANGED <<accounts, invited>> /\ ActiveAdmins' # {}
  BY <1>1 DEF accounts, invited, Administered, AdministratorRemains
<1>3. CASE CommitRole(r)
  <2>1. requests[r].to \in Roles
        /\ members' = [members EXCEPT ![p] = [members[p] EXCEPT !.role = requests[r].to]]
    BY <1>3 DEF CommitRole, Changing
  <2>2. ChangeRole(p)
    BY <1>1, <1>2, <2>1 DEF ChangeRole, Change
  <2> QED
    BY <2>2
<1>4. CASE CommitStatus(r)
  <2>1. requests[r].to \in Statuses
        /\ members' = [members EXCEPT ![p] = [members[p] EXCEPT !.status = requests[r].to]]
    BY <1>4 DEF CommitStatus, Changing
  <2>2. ChangeStatus(p)
    BY <1>1, <1>2, <2>1 DEF ChangeStatus, Change
  <2> QED
    BY <2>2
<1>5. CASE CommitRemoval(r)
  <2>1. Remove(p)
    BY <1>1, <1>2, <1>5 DEF CommitRemoval, Remove, Change
  <2> QED
    BY <2>1
<1> QED
  BY <1>3, <1>4, <1>5

LEMMA InviteImplements ==
  ASSUME Administered, Used, Serial, NEW r \in Requests, CommitInvite(r)
  PROVE  \E p \in People : Invite(p)
<1> DEFINE p == requests[r].who
           new == CHOOSE i \in UnusedInvitations : \A j \in UnusedInvitations : i <= j
<1>1. /\ requests[r].op = "invite" /\ requests[r].pc = "commit"
      /\ UNCHANGED <<users, elsewhere, founded, members, made, bootstraps>>
      /\ invitations' = [i \in Invitations |->
           IF i = new THEN [email |-> p, role |-> requests[r].to, status |-> "pending"]
           ELSE IF i \in PendingFor(p) \cap requests[r].over
           THEN [invitations[i] EXCEPT !.status = "expired"] ELSE invitations[i]]
      /\ over' = over \ (PendingFor(p) \cap requests[r].over)
  BY DEF CommitInvite, At
<1>2. p \in People /\ requests[r].to \in Roles /\ founded
  BY <1>1, RequestFields, Founded DEF PlacedAt
<1>3. PendingFor(p) \subseteq requests[r].over /\ PendingFor(p) \subseteq over
  BY <1>1 DEF Serial, At, PendingFor
<1>4. PendingFor(p) \cap requests[r].over = PendingFor(p)
  BY <1>3
<1>5. new \in UnusedInvitations
  BY <1>1, NewIsUnused
<1>6. UNCHANGED <<accounts, members, made>>
  BY <1>1 DEF accounts
<1> HIDE DEF new, p
<1>7. /\ invitations' = [j \in Invitations |->
           IF j = new THEN [email |-> p, role |-> requests[r].to, status |-> "pending"]
           ELSE IF j \in PendingFor(p)
           THEN [invitations[j] EXCEPT !.status = "expired"] ELSE invitations[j]]
      /\ over' = over \ PendingFor(p)
  BY <1>1, <1>4
<1>8. Invite(p)
  BY <1>2, <1>3, <1>5, <1>6, <1>7 DEF Invite
<1> QED
  BY <1>2, <1>8

LEMMA AcceptImplements ==
  ASSUME Administered, Used, NEW r \in Requests, CommitAccept(r)
  PROVE  \E i \in Invitations : BecomeMember(i)
<1> DEFINE i == requests[r].row
           p == requests[r].who
<1>1. requests[r].op \in {"accept", "join"} /\ requests[r].pc = "commit"
  BY DEF CommitAccept, At
<1>2. /\ i \in Invitations /\ invitations[i].status = "pending" /\ invitations[i].email = p
      /\ ~ Present(p)
  BY <1>1, RequestFields DEF Used, UsedBy, Accepting, PlacedAt, Administered, Inserting, At
<1>3. BecomeMember(i)
  BY <1>2 DEF CommitAccept, BecomeMember
<1> QED
  BY <1>2, <1>3

LEMMA RegisterImplements ==
  ASSUME Administered, Bootstrapped, NEW r \in Requests, CommitRegister(r)
  PROVE  Bootstrap \/ \E p \in People : Register(p)
<1> PICK p \in People : p = requests[r].who
  BY RequestFields
<1>1. /\ requests[r].op \in {"register", "bootstrap"} /\ requests[r].pc = "commit"
      /\ UNCHANGED <<invitations, made, over>>
  BY DEF CommitRegister, At
<1>2. p \notin users /\ (requests[r].op = "bootstrap" => p = Operator)
  BY <1>1 DEF Bootstrapped, WroteAccount
<1>3. Found(p)
  BY <1>1, <1>2 DEF CommitRegister, Found, invited
<1>4. CASE requests[r].op = "bootstrap"
  BY <1>2, <1>3, <1>4 DEF CommitRegister, Bootstrap
<1>5. CASE requests[r].op # "bootstrap"
  BY <1>3, <1>5 DEF CommitRegister, Register
<1> QED
  BY <1>4, <1>5

LEMMA StepImplements ==
  ASSUME Administered, Administered', Bootstrapped, Used, Serial, [Next]_vars
  PROVE  [OrganizationNext]_organization
<1>1. CASE UNCHANGED <<tables, over>> \/ UNCHANGED vars
  BY <1>1 DEF tables, vars, organization, accounts, invited
<1>2. ASSUME NEW r \in Requests, Start(r) PROVE UNCHANGED <<tables, over>>
  BY <1>2 DEF Start, StartChange, StartInvite, StartAccept, StartJoin, StartRegister, StartBootstrap
<1>3. ASSUME NEW r \in Requests, Proceed(r) \/ Fail(r)
      PROVE  UNCHANGED <<tables, over>> \/ OrganizationNext
  <2>1. CASE CommitRole(r) \/ CommitStatus(r) \/ CommitRemoval(r)
    BY <2>1, ChangeImplements DEF OrganizationNext
  <2>2. CASE CommitInvite(r)
    BY <2>2, InviteImplements DEF OrganizationNext
  <2>3. CASE CommitAccept(r)
    BY <2>3, AcceptImplements DEF OrganizationNext
  <2>4. CASE CommitRegister(r)
    BY <2>4, RegisterImplements DEF OrganizationNext
  <2>5. CASE \/ Fail(r) \/ Lock(r) \/ Guard(r) \/ Refuse(r) \/ ExpirePending(r) \/ CheckMember(r)
             \/ InsertInvitation(r) \/ FindInvitation(r) \/ FindAccount(r) \/ Accept(r)
             \/ InsertMember(r) \/ CheckAdministrator(r) \/ InsertAccount(r)
    BY <2>5 DEF Fail, Lock, Guard, Refuse, ExpirePending, CheckMember, InsertInvitation,
                FindInvitation, FindAccount, Accept, InsertMember, CheckAdministrator, InsertAccount
  <2> QED
    BY <1>3, <2>1, <2>2, <2>3, <2>4, <2>5 DEF Proceed
<1>4. ASSUME NEW i \in Invitations, Age(i) PROVE OrganizationNext
  <2>1. RunOut(i)
    BY <1>4 DEF Age, RunOut, accounts, tables
  <2> QED
    BY <1>4, <2>1 DEF OrganizationNext
<1> QED
  BY <1>1, <1>2, <1>3, <1>4 DEF Next

(* Whatever the statements of concurrent requests do in between, each       *)
(* transaction of routes/members.ts, registerUser and the bootstrap command *)
(* that commits does in one step what Organization says, and one that does  *)
(* not commit does nothing.                                                 *)
THEOREM MembershipImplements == Spec => ImplementsOrganization
<1>1. Init => OrganizationInit /\ Serial
  BY DEF Init, Serial, Idle, At
<1> QED
  BY <1>1, InitBootstrapped, InitUsed, NextBootstrapped, NextUsed, NextSerial, StepImplements,
     AlwaysAdministered, PTL DEF Spec, OrganizationSpec, ImplementsOrganization

-----------------------------------------------------------------------------
(* What Organization promises, Membership keeps. *)
InvitationsTyped ==
  invitations \in [Invitations -> [email : People, role : Roles,
                                   status : {"none", "pending", "accepted", "expired"}]]

LEMMA OrganizationTyped == InvitationsTyped /\ [OrganizationNext]_organization => InvitationsTyped'
<1> SUFFICES ASSUME InvitationsTyped, [OrganizationNext]_organization PROVE InvitationsTyped'
  OBVIOUS
<1> USE DEF InvitationsTyped
<1>1. CASE invitations' = invitations
  BY <1>1
<1>2. ASSUME NEW p \in People, Invite(p) PROVE InvitationsTyped'
  BY <1>2 DEF Invite
<1>3. ASSUME NEW i \in Invitations, BecomeMember(i) PROVE InvitationsTyped'
  BY <1>3 DEF BecomeMember
<1>4. OrganizationNext => \/ invitations' = invitations \/ \E p \in People : Invite(p)
                          \/ \E i \in Invitations : BecomeMember(i)
  BY DEF OrganizationNext, ChangeRole, ChangeStatus, Remove, Change, Register, Bootstrap, Found,
         RunOut, invited
<1> QED
  BY <1>1, <1>2, <1>3, <1>4 DEF organization, invited

LEMMA OrganizationOnePending ==
  InvitationsTyped /\ OnePending /\ [OrganizationNext]_organization => OnePending'
<1> SUFFICES ASSUME InvitationsTyped, OnePending, [OrganizationNext]_organization PROVE OnePending'
  OBVIOUS
<1>1. CASE invitations' = invitations
  BY <1>1 DEF OnePending
<1>2. ASSUME NEW p \in People, Invite(p) PROVE OnePending'
  <2> PICK new \in UnusedInvitations, role \in Roles :
        invitations' = [j \in Invitations |->
          IF j = new THEN [email |-> p, role |-> role, status |-> "pending"]
          ELSE IF j \in PendingFor(p) THEN [invitations[j] EXCEPT !.status = "expired"]
          ELSE invitations[j]]
    BY <1>2 DEF Invite
  <2>1. ASSUME NEW j \in Invitations, invitations'[j].status = "pending", j # new
        PROVE  invitations'[j] = invitations[j] /\ invitations[j].email # p
    BY <2>1 DEF InvitationsTyped, PendingFor
  <2>2. new \in Invitations /\ invitations'[new].email = p
    BY DEF UnusedInvitations
  <2> SUFFICES ASSUME NEW i \in Invitations, NEW j \in Invitations,
                      invitations'[i].status = "pending", invitations'[j].status = "pending",
                      invitations'[i].email = invitations'[j].email
               PROVE  i = j
    BY DEF OnePending
  <2>3. CASE i # new /\ j # new
    BY <2>1, <2>3 DEF OnePending
  <2>4. CASE (i = new \/ j = new) /\ i # j
    BY <2>1, <2>2, <2>4
  <2> QED
    BY <2>3, <2>4
<1>3. ASSUME NEW i \in Invitations, BecomeMember(i) PROVE OnePending'
  <2>1. /\ invitations'[i].status = "accepted"
        /\ \A j \in Invitations \ {i} : invitations'[j] = invitations[j]
    BY <1>3 DEF BecomeMember, InvitationsTyped
  <2> QED
    BY <2>1 DEF OnePending
<1>4. OrganizationNext => \/ invitations' = invitations \/ \E p \in People : Invite(p)
                          \/ \E i \in Invitations : BecomeMember(i)
  BY DEF OrganizationNext, ChangeRole, ChangeStatus, Remove, Change, Register, Bootstrap, Found,
         RunOut, invited
<1> QED
  BY <1>1, <1>2, <1>3, <1>4 DEF organization, invited

(* Nobody ever has two pending invitations, two links that are both good:   *)
(* of Organization, and so of Membership (expirePendingForEmail and the     *)
(* unique index of pending invitations).                                    *)
THEOREM OnePendingAlways == Spec => []OnePending
<1>1. OrganizationInit => InvitationsTyped /\ OnePending
  BY PeopleAssumption DEF OrganizationInit, InvitationsTyped, OnePending, NoInvitation, Roles
<1>2. OrganizationSpec => []OnePending
  BY <1>1, OrganizationTyped, OrganizationOnePending, PTL DEF OrganizationSpec
<1> QED
  BY <1>2, MembershipImplements, PTL DEF ImplementsOrganization
=============================================================================
