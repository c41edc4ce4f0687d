-------------------------- MODULE WorkspaceMembers --------------------------
(***************************************************************************)
(* The people of one workspace (workspace_app/member_service.py): members, *)
(* their roles and statuses, the invitations that reserve seats, and the   *)
(* sessions that have the workspace selected.  Requests of several people  *)
(* run at the same time, each in one PostgreSQL transaction at READ        *)
(* COMMITTED: what a statement reads may be changed by the next one.       *)
(*                                                                         *)
(* A transaction is a sequence of steps, one for each lock it takes and    *)
(* for each read that another commit can make stale; its writes appear     *)
(* with Commit.  A row lock is held until the transaction ends.  The       *)
(* workspace row is also locked FOR KEY SHARE by the foreign key of every  *)
(* audit event (and session) that is inserted, which waits for a FOR       *)
(* UPDATE of that row; the insert is followed by nothing but the commit,   *)
(* so the two are one step.  PostgreSQL breaks a cycle of waiting requests *)
(* by failing one of them (BreakDeadlock).                                 *)
(*                                                                         *)
(* Abstractions.  A user stands for an email and its account, which is     *)
(* active; passwords are right; the entitlement workspace_members.enabled  *)
(* is on, its limit does not change, and the workspace begins within it.   *)
(* The clock is the set of the invitations that have expired, which a      *)
(* request copies when it starts.                                          *)
(***************************************************************************)
EXTENDS Naturals, FiniteSets

CONSTANTS
    Users,        \* people, each with one email
    Invitations,  \* bound: rows of workspace_invitations ever inserted
    Requests,     \* requests that may be in flight at the same time
    SeatLimit,    \* limit_value of workspace_members.enabled
    Beginnings,   \* rosters and pending invitations the workspace may start with
    Guests,       \* bound: users whose email is ever invited
    Offers,       \* bound: roles ever offered by an invitation
    RoleChanges,  \* bound: roles ever requested by change_member_role
    StatusChanges,\* bound: statuses ever requested by change_member_status
    MaxRequests,  \* bound: requests ever started
    Free          \* no transaction: the row is not locked

Roles == {"OWNER", "ADMIN", "MEMBER"}
MemberStatus == {"none", "active", "suspended", "revoked"}
InvitationStatus == {"unused", "PENDING", "ACCEPTED", "REVOKED"}

ASSUME MembersAssumption ==
    /\ IsFiniteSet(Users)
    /\ IsFiniteSet(Invitations) /\ Invitations # {}
    /\ Users \cap Requests = {}
    /\ Free \notin Requests
    /\ SeatLimit \in Nat
    /\ MaxRequests \in Nat
    /\ \A b \in Beginnings :
         /\ b.roster \in [Users -> [status : MemberStatus, role : Roles]]
         /\ \E u \in Users : b.roster[u] = [status |-> "active", role |-> "OWNER"]
         /\ DOMAIN b.invited \subseteq Invitations
         /\ \A i \in DOMAIN b.invited : b.invited[i] \in Users
         /\ \A i, j \in DOMAIN b.invited : b.invited[i] = b.invited[j] => i = j
         /\ Cardinality({u \in Users : b.roster[u].status = "active"})
              + Cardinality(DOMAIN b.invited) <= SeatLimit
    /\ Guests \subseteq Users
    /\ Offers \subseteq Roles
    /\ RoleChanges \subseteq Roles
    /\ StatusChanges \subseteq {"active", "suspended", "revoked"}

\* The steps of a request: the row it is about to lock, the count it is about
\* to take, the request to write a session, the commit.
Steps == {"workspace", "entitlement", "invitation", "member",
          "count_members", "count_pending", "commit"}
Operations == {"invite", "reissue", "withdraw", "accept",
               "role", "status", "select"}

VARIABLES
    members,         \* workspace_memberships: [status, role] of each user
    invitations,     \* workspace_invitations: [status, email, role]
    expired,         \* invitations whose expires_at has passed
    selected,        \* users with a session whose active workspace is this one
    request,         \* transaction of each request, or Idle
    workspaceLock,   \* request that holds the workspace row FOR UPDATE
    entitlementLock, \* ... the entitlement row
    invitationLock,  \* ... each invitation row
    memberLock,      \* ... each membership row
    started,         \* number of requests started
    straddled        \* an acceptance has fallen between the two counts of a
                     \* request, or after the expiry of its invitation

rows == <<members, invitations, expired, selected>>
locks == <<workspaceLock, entitlementLock, invitationLock, memberLock>>
membersVars == <<rows, request, locks, started, straddled>>

Someone == CHOOSE u \in Users : TRUE
SomeInvitation == CHOOSE i \in Invitations : TRUE

Idle == [op |-> "idle"]

\* actor and target are users, inv the invitation of a reissue, a withdrawal or
\* an acceptance, role and status what is offered or requested, now the clock,
\* authority the role a manager was found to have under the workspace lock,
\* seats the members counted.
Transactions ==
    [op : Operations, at : Steps, actor : Users, target : Users,
     inv : Invitations, role : Roles, status : MemberStatus,
     now : SUBSET Invitations, authority : Roles \cup {"none"}, seats : Nat]

Blank(op, a, u) ==
    [op |-> op, at |-> "commit", actor |-> a, target |-> u,
     inv |-> SomeInvitation, role |-> "MEMBER", status |-> "none",
     now |-> expired, authority |-> "none", seats |-> 0]

MembersTypeOK ==
    /\ members \in [Users -> [status : MemberStatus, role : Roles]]
    /\ invitations \in [Invitations ->
                          [status : InvitationStatus, email : Users, role : Roles]]
    /\ expired \subseteq Invitations
    /\ selected \subseteq Users
    /\ request \in [Requests -> Transactions \cup {Idle}]
    /\ workspaceLock \in Requests \cup {Free}
    /\ entitlementLock \in Requests \cup {Free}
    /\ invitationLock \in [Invitations -> Requests \cup {Free}]
    /\ memberLock \in [Users -> Requests \cup {Free}]
    /\ started \in 0..MaxRequests
    /\ straddled \in BOOLEAN

-----------------------------------------------------------------------------
(* What a statement reads.                                                 *)

Active(u) == members[u].status = "active"
Owner(u) == Active(u) /\ members[u].role = "OWNER"
Owners == {u \in Users : Owner(u)}
ActiveMembers == {u \in Users : Active(u)}

\* authorize for workspace.members.manage and workspace.members.invite.
MayManage(u) == Active(u) /\ members[u].role \in {"OWNER", "ADMIN"}

PendingFor(u) ==
    {i \in Invitations : invitations[i].status = "PENDING"
                         /\ invitations[i].email = u}

\* Unexpired pending invitations, as of the clock of request r.
Reserved(now) ==
    {i \in Invitations : invitations[i].status = "PENDING"} \ now

\* An ADMIN may not offer the role OWNER.
MayOffer(authority, role) == ~(authority = "ADMIN" /\ role = "OWNER")

\* Mutant: what the request asks for is compared, not what the member is.
AuthorityForRequested(authority, present, requested) ==
    authority = "OWNER" \/ requested # "OWNER"

\* Only an OWNER touches an OWNER or grants the role.
OwnerAuthorityHeld(authority, present, requested) ==
    authority = "OWNER" \/ (present # "OWNER" /\ requested # "OWNER")

-----------------------------------------------------------------------------
(* Transactions.                                                           *)

Released(lock, r) == [x \in DOMAIN lock |-> IF lock[x] = r THEN Free ELSE lock[x]]

\* The end of a transaction, committed or not.
End(r) ==
    /\ request' = [request EXCEPT ![r] = Idle]
    /\ workspaceLock' = IF workspaceLock = r THEN Free ELSE workspaceLock
    /\ entitlementLock' = IF entitlementLock = r THEN Free ELSE entitlementLock
    /\ invitationLock' = Released(invitationLock, r)
    /\ memberLock' = Released(memberLock, r)

Start(r, transaction) ==
    /\ request[r] = Idle
    /\ started < MaxRequests
    /\ started' = started + 1
    /\ request' = [request EXCEPT ![r] = transaction]
    /\ UNCHANGED <<rows, locks, straddled>>

Continue(r, step) == request' = [request EXCEPT ![r].at = step]

At(r, step) == request[r] # Idle /\ request[r].at = step

\* ActionDenied: the transaction is rolled back.
Refuse(r) == End(r) /\ UNCHANGED <<rows, started, straddled>>

\* The request fails or loses its connection.
Fail(r) == request[r] # Idle /\ Refuse(r)

-----------------------------------------------------------------------------
(* A request starts: authorize, or the token of the link.                  *)

\* Bound: there is an unused row for every request that may insert one.
RowsLeft ==
    Cardinality({r \in Requests : request[r].op \in {"invite", "reissue"}})
      < Cardinality({i \in Invitations : invitations[i].status = "unused"})

BeginInvite(r, a, u, role) ==
    /\ MayManage(a)
    /\ RowsLeft
    /\ Start(r, [Blank("invite", a, u) EXCEPT !.at = "entitlement", !.role = role])

BeginReissue(r, a, i) ==
    /\ MayManage(a)
    /\ invitations[i].status # "unused"
    /\ RowsLeft
    /\ Start(r, [Blank("reissue", a, invitations[i].email)
                    EXCEPT !.at = "entitlement", !.inv = i])

BeginWithdraw(r, a, i) ==
    /\ MayManage(a)
    /\ invitations[i].status # "unused"
    /\ Start(r, [Blank("withdraw", a, invitations[i].email)
                    EXCEPT !.at = "invitation", !.inv = i])

BeginAccept(r, i) ==
    /\ invitations[i].status # "unused"
    /\ Start(r, [Blank("accept", invitations[i].email, invitations[i].email)
                    EXCEPT !.at = "invitation", !.inv = i])

BeginRole(r, a, u, role) ==
    /\ MayManage(a)
    /\ members[u].status # "none"
    /\ Start(r, [Blank("role", a, u) EXCEPT !.at = "workspace", !.role = role])

BeginStatus(r, a, u, status) ==
    /\ MayManage(a)
    /\ members[u].status # "none"
    /\ Start(r, [Blank("status", a, u) EXCEPT !.at = "workspace", !.status = status])

\* A session selects the workspace: set_active_workspace of workspace_app/auth.py.
BeginSelect(r, u) == Active(u) /\ Start(r, Blank("select", u, u))

-----------------------------------------------------------------------------
(* The steps of a request.                                                 *)

\* Mutant: the workspace row is read, not locked.
ReadWorkspace(r) ==
    /\ At(r, "workspace")
    /\ MayManage(request[r].actor)
    /\ request' = [request EXCEPT ![r].at = "member",
                     ![r].authority = members[request[r].actor].role]
    /\ UNCHANGED <<rows, locks, started, straddled>>

\* _lock_workspace_management: authority is checked again under the lock.
LockWorkspace(r) ==
    /\ At(r, "workspace")
    /\ workspaceLock = Free
    /\ MayManage(request[r].actor)
    /\ workspaceLock' = r
    /\ request' = [request EXCEPT ![r].at = "member",
                     ![r].authority = members[request[r].actor].role]
    /\ UNCHANGED <<rows, entitlementLock, invitationLock, memberLock,
                   started, straddled>>

ManagerLostAuthority(r) ==
    /\ At(r, "workspace")
    /\ workspaceLock = Free
    /\ ~MayManage(request[r].actor)
    /\ Refuse(r)

\* What create_invitation reads once it has the entitlement row: the role that
\* the actor has by then, and that the email belongs to no member.  The
\* capability that authorize found is not looked at again.
MayInvite(t) ==
    /\ Active(t.actor)
    /\ MayOffer(members[t.actor].role, t.role)
    /\ members[t.target].status = "none"

\* Mutant: the entitlement is read, not locked.
ReadEntitlement(r) ==
    LET t == request[r] IN
    /\ At(r, "entitlement")
    /\ t.op = "invite" => MayInvite(t)
    /\ request' = [request EXCEPT
         ![r].at = IF t.op = "reissue" THEN "invitation" ELSE "count_members"]
    /\ UNCHANGED <<rows, locks, started, straddled>>

LockEntitlement(r) ==
    LET t == request[r] IN
    /\ At(r, "entitlement")
    /\ entitlementLock = Free
    /\ t.op = "invite" => MayInvite(t)
    /\ entitlementLock' = r
    /\ request' = [request EXCEPT
         ![r].at = IF t.op = "reissue" THEN "invitation" ELSE "count_members"]
    /\ UNCHANGED <<rows, workspaceLock, invitationLock, memberLock,
                   started, straddled>>

InviteRefused(r) ==
    /\ At(r, "entitlement")
    /\ entitlementLock = Free
    /\ request[r].op = "invite"
    /\ ~MayInvite(request[r])
    /\ Refuse(r)

\* What the locked invitation must be for each operation on it.
Usable(t) ==
    LET invitation == invitations[t.inv] IN
    /\ invitation.status = "PENDING"
    /\ t.op = "accept" => t.inv \notin t.now
    /\ t.op = "reissue" =>
         /\ Active(t.actor)
         /\ MayOffer(members[t.actor].role, invitation.role)
         /\ members[t.target].status = "none"

\* Mutant: the invitation is read, not locked.
ReadInvitation(r) ==
    LET t == request[r] IN
    /\ At(r, "invitation")
    /\ Usable(t)
    /\ request' = [request EXCEPT
         ![r].at = CASE t.op = "reissue" -> "count_members"
                     [] t.op = "accept" -> "member"
                     [] OTHER -> "commit"]
    /\ UNCHANGED <<rows, locks, started, straddled>>

\* Mutant: an acceptance counts the seats too, after it has the invitation.
LockInvitationThenCount(r) ==
    LET t == request[r] IN
    /\ At(r, "invitation")
    /\ invitationLock[t.inv] = Free
    /\ Usable(t)
    /\ invitationLock' = [invitationLock EXCEPT ![t.inv] = r]
    /\ request' = [request EXCEPT
         ![r].at = CASE t.op = "reissue" -> "count_members"
                     [] t.op = "accept" -> "entitlement"
                     [] OTHER -> "commit"]
    /\ UNCHANGED <<rows, workspaceLock, entitlementLock, memberLock,
                   started, straddled>>

LockInvitation(r) ==
    LET t == request[r] IN
    /\ At(r, "invitation")
    /\ invitationLock[t.inv] = Free
    /\ Usable(t)
    /\ invitationLock' = [invitationLock EXCEPT ![t.inv] = r]
    /\ request' = [request EXCEPT
         ![r].at = CASE t.op = "reissue" -> "count_members"
                     [] t.op = "accept" -> "member"
                     [] OTHER -> "commit"]
    /\ UNCHANGED <<rows, workspaceLock, entitlementLock, memberLock,
                   started, straddled>>

InvitationUnusable(r) ==
    /\ At(r, "invitation")
    /\ invitationLock[request[r].inv] = Free
    /\ ~Usable(request[r])
    /\ Refuse(r)

\* The last active owner may not be demoted, suspended or revoked.
LastOwner(u) == Owner(u) /\ Cardinality(Owners) <= 1

\* What change_member_role and change_member_status demand of the locked row.
RoleChangeable(t) ==
    /\ OwnerAuthorityHeld(t.authority, members[t.target].role, t.role)
    /\ members[t.target].role # t.role
    /\ t.role # "OWNER" => ~LastOwner(t.target)

StatusChangeable(t) ==
    LET present == members[t.target].status IN
    /\ OwnerAuthorityHeld(t.authority, members[t.target].role, "MEMBER")
    /\ CASE t.status = "suspended" -> present = "active"
         [] t.status = "revoked" -> present \in {"active", "suspended"}
         [] OTHER -> present \in {"suspended", "revoked"}
    /\ t.status # "active" => t.target # t.actor /\ ~LastOwner(t.target)

Changeable(t) ==
    CASE t.op = "accept" -> ~Active(t.target)
      [] t.op = "role" -> RoleChangeable(t)
      [] OTHER -> StatusChangeable(t)

\* There is no row to lock for somebody who was never a member.
LockMember(r) ==
    LET t == request[r] IN
    /\ At(r, "member")
    /\ memberLock[t.target] = Free
    /\ Changeable(t)
    /\ memberLock' = IF members[t.target].status = "none" THEN memberLock
                     ELSE [memberLock EXCEPT ![t.target] = r]
    /\ Continue(r, IF t.op = "status" /\ t.status = "active"
                   THEN "entitlement" ELSE "commit")
    /\ UNCHANGED <<rows, workspaceLock, entitlementLock, invitationLock,
                   started, straddled>>

MemberUnchangeable(r) ==
    /\ At(r, "member")
    /\ memberLock[request[r].target] = Free
    /\ ~Changeable(request[r])
    /\ Refuse(r)

\* create_invitation refuses a second pending invitation of an email; then
\* _seat_usage counts the active members.
NoneOutstanding(t) == t.op = "invite" => PendingFor(t.target) = {}

CountMembers(r) ==
    /\ At(r, "count_members")
    /\ NoneOutstanding(request[r])
    /\ request' = [request EXCEPT ![r].at = "count_pending",
                                  ![r].seats = Cardinality(ActiveMembers)]
    /\ UNCHANGED <<rows, locks, started, straddled>>

AlreadyInvited(r) ==
    /\ At(r, "count_members")
    /\ ~NoneOutstanding(request[r])
    /\ Refuse(r)

\* _seat_usage, second statement; a reissue has revoked the old row by then.
SeatsUsed(t) ==
    t.seats + Cardinality(Reserved(t.now)
                            \ (IF t.op = "reissue" THEN {t.inv} ELSE {}))

CountPending(r) ==
    /\ At(r, "count_pending")
    /\ SeatsUsed(request[r]) < SeatLimit
    /\ request' = [request EXCEPT ![r].at = "commit", ![r].seats = 0]
    /\ UNCHANGED <<rows, locks, started, straddled>>

NoSeatLeft(r) ==
    /\ At(r, "count_pending")
    /\ SeatsUsed(request[r]) >= SeatLimit
    /\ Refuse(r)

-----------------------------------------------------------------------------
(* Commits.  The foreign key of the audit event or session that every      *)
(* operation inserts waits for a manager that holds the workspace row.     *)

Commits(r, op) ==
    /\ At(r, "commit")
    /\ request[r].op = op
    /\ workspaceLock \in {Free, r}
    /\ End(r)
    /\ UNCHANGED started

\* Mutant: the row that is replaced gets a status of its own.
InsertSuperseding(i, t, email, role) ==
    /\ invitations[i].status = "unused"
    /\ PendingFor(email) \subseteq {t.inv}
    /\ invitations' = [j \in Invitations |->
         CASE j = i -> [status |-> "PENDING", email |-> email, role |-> role]
           [] j # i /\ t.op = "reissue" /\ j = t.inv ->
                [invitations[j] EXCEPT !.status = "SUPERSEDED"]
           [] OTHER -> invitations[j]]

\* A fresh row; the partial unique index refuses a second pending one.
Insert(i, t, email, role) ==
    /\ invitations[i].status = "unused"
    /\ PendingFor(email) \subseteq {t.inv}
    /\ invitations' = [j \in Invitations |->
         CASE j = i -> [status |-> "PENDING", email |-> email, role |-> role]
           [] j # i /\ t.op = "reissue" /\ j = t.inv ->
                [invitations[j] EXCEPT !.status = "REVOKED"]
           [] OTHER -> invitations[j]]

CommitInvite(r, i) ==
    /\ Commits(r, "invite")
    /\ PendingFor(request[r].target) = {}
    /\ Insert(i, request[r], request[r].target, request[r].role)
    /\ UNCHANGED <<members, expired, selected, straddled>>

CommitReissue(r, i) ==
    /\ Commits(r, "reissue")
    /\ Insert(i, request[r], request[r].target, invitations[request[r].inv].role)
    /\ UNCHANGED <<members, expired, selected, straddled>>

CommitWithdraw(r) ==
    /\ Commits(r, "withdraw")
    /\ invitations' = [invitations EXCEPT ![request[r].inv].status = "REVOKED"]
    /\ UNCHANGED <<members, expired, selected, straddled>>

\* The member row is inserted or reactivated with the role offered, and the
\* session that is created has the workspace selected.
CommitAccept(r) ==
    LET t == request[r] IN
    /\ Commits(r, "accept")
    /\ members' = [members EXCEPT ![t.target] =
                     [status |-> "active", role |-> invitations[t.inv].role]]
    /\ invitations' = [invitations EXCEPT ![t.inv].status = "ACCEPTED"]
    /\ selected' = selected \cup {t.target}
    /\ straddled' = (straddled \/ t.inv \in expired
                       \/ \E q \in Requests : At(q, "count_pending"))
    /\ UNCHANGED expired

CommitRole(r) ==
    /\ Commits(r, "role")
    /\ members' = [members EXCEPT ![request[r].target].role = request[r].role]
    /\ UNCHANGED <<invitations, expired, selected, straddled>>

\* Suspension and revocation clear the workspace from the member's sessions.
CommitStatus(r) ==
    LET t == request[r] IN
    /\ Commits(r, "status")
    /\ members' = [members EXCEPT ![t.target].status = t.status]
    /\ selected' = IF t.status = "active" THEN selected ELSE selected \ {t.target}
    /\ UNCHANGED <<invitations, expired, straddled>>

CommitSelect(r) ==
    /\ Commits(r, "select")
    /\ selected' = selected \cup {request[r].target}
    /\ UNCHANGED <<members, invitations, expired, straddled>>

-----------------------------------------------------------------------------
(* The clock and the database.                                             *)

Expire(i) ==
    /\ invitations[i].status = "PENDING"
    /\ i \notin expired
    /\ expired' = expired \cup {i}
    /\ UNCHANGED <<members, invitations, selected, request, locks, started, straddled>>

\* The request that holds the row r is waiting for, or Free.
WaitsFor(r) ==
    LET t == request[r] IN
    CASE At(r, "workspace") -> workspaceLock
      [] At(r, "entitlement") -> entitlementLock
      [] At(r, "invitation") -> invitationLock[t.inv]
      [] At(r, "member") -> memberLock[t.target]
      [] At(r, "commit") -> IF workspaceLock = r THEN Free ELSE workspaceLock
      [] OTHER -> Free

\* A cycle of requests each waiting for the next: one of them is failed.
Deadlocked(r) ==
    \E cycle \in SUBSET Requests :
        r \in cycle /\ {WaitsFor(q) : q \in cycle} = cycle

BreakDeadlock(r) == Deadlocked(r) /\ Refuse(r)

Progress(r) ==
    \/ LockWorkspace(r) \/ ManagerLostAuthority(r)
    \/ LockEntitlement(r) \/ InviteRefused(r)
    \/ LockInvitation(r) \/ InvitationUnusable(r)
    \/ LockMember(r) \/ MemberUnchangeable(r)
    \/ CountMembers(r) \/ AlreadyInvited(r)
    \/ CountPending(r) \/ NoSeatLeft(r)
    \/ \E i \in Invitations : CommitInvite(r, i) \/ CommitReissue(r, i)
    \/ CommitWithdraw(r) \/ CommitAccept(r)
    \/ CommitRole(r) \/ CommitStatus(r) \/ CommitSelect(r)

Begin(r) ==
    \/ \E a \in Users :
         \/ \E u \in Guests, role \in Offers : BeginInvite(r, a, u, role)
         \/ \E i \in Invitations : BeginReissue(r, a, i) \/ BeginWithdraw(r, a, i)
         \/ \E u \in Users : \/ \E role \in RoleChanges : BeginRole(r, a, u, role)
                             \/ \E s \in StatusChanges : BeginStatus(r, a, u, s)
    \/ \E i \in Invitations : BeginAccept(r, i)
    \/ \E u \in Users : BeginSelect(r, u)

MembersInit ==
    /\ \E b \in Beginnings :
         /\ members = b.roster
         /\ invitations = [i \in Invitations |->
              IF i \in DOMAIN b.invited
              THEN [status |-> "PENDING", email |-> b.invited[i],
                    role |-> "MEMBER"]
              ELSE [status |-> "unused", email |-> Someone, role |-> "MEMBER"]]
    /\ expired = {}
    /\ selected = {}
    /\ request = [r \in Requests |-> Idle]
    /\ workspaceLock = Free
    /\ entitlementLock = Free
    /\ invitationLock = [i \in Invitations |-> Free]
    /\ memberLock = [u \in Users |-> Free]
    /\ started = 0
    /\ straddled = FALSE

MembersNext ==
    \/ \E r \in Requests : Begin(r) \/ Progress(r) \/ Fail(r) \/ BreakDeadlock(r)
    \/ \E i \in Invitations : Expire(i)

MembersSpec == MembersInit /\ [][MembersNext]_membersVars

-----------------------------------------------------------------------------
(* Properties.                                                             *)

\* The workspace always has an active owner, whatever owners demote, suspend
\* or revoke each other (or themselves) at the same time: _active_owner_count
\* is taken under the lock of the workspace row.
OwnerRemains == Owners # {}

\* Among members, the role OWNER is given, taken, switched off or switched on
\* only by a request of somebody who is an active owner when it commits: the
\* role read under the workspace lock cannot go stale.
OwnersTouchOwners ==
    [][\A u \in Users :
         (Owner(u) # Owner(u)') =>
            \E r \in Requests :
               /\ request[r] # Idle /\ request'[r] = Idle
               /\ \/ request[r].op = "accept" /\ request[r].target = u
                  \/ request[r].op \in {"role", "status"} /\ Owner(request[r].actor)
      ]_membersVars

\* The seats of docs/WORKSPACE_PRODUCT_COMPLETION_03D: active memberships and
\* unexpired pending invitations.
SeatsTaken == Cardinality(ActiveMembers) + Cardinality(Reserved(expired))

\* Invitations, reissues and reactivations that run together never take more
\* seats than the limit, as long as no acceptance straddles a count: the lock
\* of the entitlement row makes them count one after the other.
SeatsReserved == ~straddled => SeatsTaken <= SeatLimit

\* What the document promises without that condition ("Concurrent growth
\* actions therefore cannot exceed a configured limit").
SeatsWithinLimit == SeatsTaken <= SeatLimit

\* A request that is about to insert an invitation does not meet the unique
\* index on pending invitations of one email: the person who invites gets the
\* refusal of create_invitation, never a database error.
InviteNeverConflicts ==
    \A r \in Requests :
        At(r, "commit") /\ request[r].op \in {"invite", "reissue"} =>
            PendingFor(request[r].target)
              \subseteq (IF request[r].op = "reissue" THEN {request[r].inv} ELSE {})

\* An invitation is used or withdrawn once and for all: of an acceptance, a
\* withdrawal and a reissue that meet, one wins and the others find it settled.
SettledInvitations ==
    [][\A i \in Invitations :
         invitations[i].status \in {"ACCEPTED", "REVOKED"} =>
            invitations'[i] = invitations[i]]_membersVars

\* Requests that wait for each other are always some of them managers who
\* change a role or a status: invitations, reissues, withdrawals, acceptances
\* and selections take their rows in one order and never deadlock by themselves.
DeadlocksHaveManager ==
    \A cycle \in SUBSET Requests :
        cycle # {} /\ {WaitsFor(r) : r \in cycle} = cycle
          => workspaceLock \in cycle
=============================================================================
