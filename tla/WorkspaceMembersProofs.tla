----------------------- MODULE WorkspaceMembersProofs -----------------------
(***************************************************************************)
(* Theorems about WorkspaceMembers for every number of people, invitations *)
(* and concurrent requests, and every limit.                               *)
(*                                                                         *)
(* A transaction relies on what it has read.  The inductive invariant says *)
(* for each request what it still may rely on at the step it has reached,  *)
(* and which lock makes that so; no other request that could disturb it    *)
(* can commit while the lock is held.                                      *)
(***************************************************************************)
EXTENDS WorkspaceMembers, FiniteSetTheorems, TLAPS

-----------------------------------------------------------------------------
(* What each request relies on.                                            *)

\* The steps each operation goes through.
StepsOf(op) ==
    CASE op = "invite" -> {"entitlement", "count_members", "count_pending", "commit"}
      [] op = "reissue" -> {"entitlement", "invitation", "count_members",
                            "count_pending", "commit"}
      [] op = "withdraw" -> {"invitation", "commit"}
      [] op = "accept" -> {"invitation", "member", "commit"}
      [] op = "role" -> {"workspace", "member", "commit"}
      [] op = "status" -> {"workspace", "member", "entitlement", "count_members",
                           "count_pending", "commit"}
      [] OTHER -> {"commit"}

Orderly(r) == request[r] # Idle => request[r].at \in StepsOf(request[r].op)

Manages(r) == request[r].op \in {"role", "status"}

\* A manager past the lock of the workspace row holds it, and is still the
\* active owner or administrator it was found to be.
ManagerHolds(r) ==
    Manages(r) /\ request[r].at # "workspace" =>
        /\ workspaceLock = r
        /\ Active(request[r].actor)
        /\ members[request[r].actor].role = request[r].authority

\* What a manager found about the member it has locked is still so.
CheckHolds(r) ==
    Manages(r) /\ request[r].at \notin {"workspace", "member"} =>
        /\ Changeable(request[r])
        /\ memberLock[request[r].target] = r

\* A manager changes somebody who has a membership row, and never deletes it.
TargetExists(r) ==
    Manages(r) => /\ members[request[r].target].status # "none"
                  /\ request[r].op = "status" => request[r].status # "none"

Names(r) == request[r].op \in {"reissue", "withdraw", "accept"}

\* A request on an invitation names a row; past its lock the row is pending.
InvitationHolds(r) ==
    Names(r) =>
        /\ invitations[request[r].inv].status # "unused"
        /\ invitations[request[r].inv].email = request[r].target
        /\ request[r].at \notin {"entitlement", "invitation"} =>
             /\ invitationLock[request[r].inv] = r
             /\ invitations[request[r].inv].status = "PENDING"

\* Nobody lets the person in while the acceptance is about to commit.
AcceptHolds(r) ==
    request[r].op = "accept" /\ request[r].at = "commit" =>
        /\ ~Active(request[r].target)
        /\ members[request[r].target].status # "none"
             => memberLock[request[r].target] = r

\* Whoever counts seats to add an invitation holds the entitlement row, and
\* no other invitation of the email turns up.
EntitlementHolds(r) ==
    request[r].op \in {"invite", "reissue"} /\ request[r].at # "entitlement" =>
        /\ entitlementLock = r
        /\ request[r].op = "invite" /\ request[r].at # "count_members"
             => PendingFor(request[r].target) = {}

Relies(r) ==
    /\ Orderly(r) /\ ManagerHolds(r) /\ CheckHolds(r) /\ TargetExists(r)
    /\ InvitationHolds(r) /\ AcceptHolds(r) /\ EntitlementHolds(r)

\* The unique index on pending invitations.
PendingUnique ==
    \A i, j \in Invitations :
        /\ invitations[i].status = "PENDING" /\ invitations[j].status = "PENDING"
        /\ invitations[i].email = invitations[j].email
        => i = j

\* The inductive invariant.
MembersInv ==
    /\ MembersTypeOK
    /\ OwnerRemains
    /\ PendingUnique
    /\ \A r \in Requests : Relies(r)

-----------------------------------------------------------------------------
(* The initial states.                                                     *)

LEMMA MembersInitInv == MembersInit => MembersInv
<1> SUFFICES ASSUME MembersInit PROVE MembersInv
  OBVIOUS
<1> USE MembersAssumption
<1>1. PICK b \in Beginnings :
        /\ members = b.roster
        /\ invitations = [i \in Invitations |->
              IF i \in DOMAIN b.invited
              THEN [status |-> "PENDING", email |-> b.invited[i],
                    role |-> "MEMBER"]
              ELSE [status |-> "unused", email |-> Someone, role |-> "MEMBER"]]
  BY DEF MembersInit
<1>2. PICK u \in Users : b.roster[u] = [status |-> "active", role |-> "OWNER"]
  OBVIOUS
<1>3. Someone \in Users
  BY <1>2 DEF Someone
<1>4. MembersTypeOK
  <2>1. members \in [Users -> [status : MemberStatus, role : Roles]]
    BY <1>1
  <2>2. invitations \in [Invitations ->
                          [status : InvitationStatus, email : Users, role : Roles]]
    BY <1>1, <1>3 DEF InvitationStatus, Roles
  <2>3. /\ expired = {} /\ selected = {} /\ request = [r \in Requests |-> Idle]
        /\ workspaceLock = Free /\ entitlementLock = Free
        /\ invitationLock = [i \in Invitations |-> Free]
        /\ memberLock = [v \in Users |-> Free]
        /\ started = 0 /\ straddled = FALSE
    BY DEF MembersInit
  <2>4. 0 \in 0..MaxRequests
    OBVIOUS
  <2> HIDE MembersAssumption
  <2> QED
    BY <2>1, <2>2, <2>3, <2>4 DEF MembersTypeOK
<1>5. OwnerRemains
  BY <1>1, <1>2 DEF OwnerRemains, Owners, Owner, Active
<1>6. PendingUnique
  BY <1>1 DEF PendingUnique
<1>7. \A r \in Requests : Relies(r)
  BY DEF MembersInit, Relies, Orderly, ManagerHolds, CheckHolds, TargetExists, InvitationHolds,
         AcceptHolds, EntitlementHolds, Manages, Names, Idle
<1> QED
  BY <1>4, <1>5, <1>6, <1>7 DEF MembersInv

-----------------------------------------------------------------------------
(* Type correctness of each step.                                          *)

\* The tables of rows.
RowsOK ==
    /\ members \in [Users -> [status : MemberStatus, role : Roles]]
    /\ invitations \in [Invitations ->
                          [status : InvitationStatus, email : Users, role : Roles]]
    /\ expired \subseteq Invitations
    /\ selected \subseteq Users

\* The transactions and the locks they hold.
RequestsOK ==
    /\ request \in [Requests -> Transactions \cup {Idle}]
    /\ workspaceLock \in Requests \cup {Free}
    /\ entitlementLock \in Requests \cup {Free}
    /\ invitationLock \in [Invitations -> Requests \cup {Free}]
    /\ memberLock \in [Users -> Requests \cup {Free}]

LEMMA TypeParts ==
    MembersTypeOK <=> /\ RowsOK /\ RequestsOK
                      /\ started \in 0..MaxRequests /\ straddled \in BOOLEAN
  BY DEF MembersTypeOK, RowsOK, RequestsOK

LEMMA TypePartsNext ==
    MembersTypeOK' <=> /\ RowsOK' /\ RequestsOK'
                       /\ started' \in 0..MaxRequests /\ straddled' \in BOOLEAN
  BY DEF MembersTypeOK, RowsOK, RequestsOK

\* A request that is under way is a transaction with an operation and a step.
LEMMA UnderWay ==
    ASSUME RequestsOK, NEW r \in Requests, request[r] # Idle
    PROVE  /\ request[r] \in Transactions
           /\ request[r].op \in Operations /\ request[r].at \in Steps
           /\ request[r].actor \in Users /\ request[r].target \in Users
           /\ request[r].inv \in Invitations /\ request[r].role \in Roles
           /\ request[r].status \in MemberStatus
           /\ request[r].now \in SUBSET Invitations
           /\ request[r].authority \in Roles \cup {"none"}
           /\ request[r].seats \in Nat
<1>1. request[r] \in Transactions
  BY DEF RequestsOK
<1> QED
  BY <1>1 DEF Transactions

\* Ending a transaction keeps the shape of transactions and locks.
LEMMA EndType ==
    ASSUME RequestsOK, NEW r \in Requests, End(r)
    PROVE  RequestsOK'
<1>1. request' \in [Requests -> Transactions \cup {Idle}]
  BY DEF RequestsOK, End
<1>2. workspaceLock' \in Requests \cup {Free} /\ entitlementLock' \in Requests \cup {Free}
  BY DEF RequestsOK, End
<1>3. invitationLock' \in [Invitations -> Requests \cup {Free}]
  BY DEF RequestsOK, End, Released
<1>4. memberLock' \in [Users -> Requests \cup {Free}]
  BY DEF RequestsOK, End, Released
<1> QED
  BY <1>1, <1>2, <1>3, <1>4 DEF RequestsOK

LEMMA SomeInvitationExists == SomeInvitation \in Invitations
  BY MembersAssumption DEF SomeInvitation

LEMMA BlankType ==
    ASSUME RowsOK, NEW op \in Operations, NEW a \in Users, NEW u \in Users
    PROVE  Blank(op, a, u) = [op |-> op, at |-> "commit", actor |-> a, target |-> u,
             inv |-> SomeInvitation, role |-> "MEMBER", status |-> "none",
             now |-> expired, authority |-> "none", seats |-> 0]
           /\ Blank(op, a, u) \in Transactions
  BY SomeInvitationExists
     DEF Blank, Transactions, Steps, Roles, MemberStatus, RowsOK

\* A transaction with other fields is a transaction.
LEMMA FieldsType ==
    ASSUME NEW t \in Transactions, NEW at \in Steps
    PROVE  /\ [t EXCEPT !.at = at] \in Transactions
           /\ \A role \in Roles : [t EXCEPT !.at = at, !.role = role] \in Transactions
           /\ \A i \in Invitations : [t EXCEPT !.at = at, !.inv = i] \in Transactions
           /\ \A s \in MemberStatus : [t EXCEPT !.at = at, !.status = s] \in Transactions
           /\ \A x \in Roles : [t EXCEPT !.at = at, !.authority = x] \in Transactions
           /\ \A n \in Nat : [t EXCEPT !.at = at, !.seats = n] \in Transactions
<1> USE DEF Transactions
<1>1. [t EXCEPT !.at = at] \in Transactions
  OBVIOUS
<1>2. ASSUME NEW role \in Roles PROVE [t EXCEPT !.at = at, !.role = role] \in Transactions
  OBVIOUS
<1>3. ASSUME NEW i \in Invitations PROVE [t EXCEPT !.at = at, !.inv = i] \in Transactions
  OBVIOUS
<1>4. ASSUME NEW s \in MemberStatus PROVE [t EXCEPT !.at = at, !.status = s] \in Transactions
  OBVIOUS
<1>5. ASSUME NEW x \in Roles PROVE [t EXCEPT !.at = at, !.authority = x] \in Transactions
  OBVIOUS
<1>6. ASSUME NEW n \in Nat PROVE [t EXCEPT !.at = at, !.seats = n] \in Transactions
  OBVIOUS
<1> QED
  BY <1>1, <1>2, <1>3, <1>4, <1>5, <1>6

\* A step begins, continues or ends one transaction.
LEMMA StartType ==
    ASSUME MembersTypeOK, NEW r \in Requests, NEW t \in Transactions, Start(r, t)
    PROVE  MembersTypeOK'
<1>1. RowsOK' /\ straddled' \in BOOLEAN
  BY DEF MembersTypeOK, RowsOK, Start, rows
<1>2. RequestsOK'
  BY DEF MembersTypeOK, RequestsOK, Start, locks
<1>3. started' \in 0..MaxRequests
  BY MembersAssumption DEF MembersTypeOK, Start
<1> QED
  BY <1>1, <1>2, <1>3, TypePartsNext

\* A request begins with the clock it reads and a row to lock, or commits at once.
JustBegun(t) ==
    /\ t.now = expired
    /\ \/ t.at \in {"workspace", "invitation"}
       \/ t.at = "entitlement" /\ t.op \in {"invite", "reissue"}
       \/ t.at = "commit" /\ t.op = "select"

LEMMA FreshFields ==
    ASSUME RowsOK, NEW op \in Operations, NEW a \in Users, NEW u \in Users
    PROVE  LET e == Blank(op, a, u)
               Good(t) == t \in Transactions /\ JustBegun(t)
           IN  /\ op = "select" => Good(e)
               /\ \A at \in {"workspace", "entitlement", "invitation"} :
                    (at = "entitlement" => op \in {"invite", "reissue"}) =>
                    /\ \A role \in Roles : Good([e EXCEPT !.at = at, !.role = role])
                    /\ \A i \in Invitations : Good([e EXCEPT !.at = at, !.inv = i])
                    /\ \A s \in MemberStatus : Good([e EXCEPT !.at = at, !.status = s])
<1> DEFINE e == Blank(op, a, u)
<1>1. e \in Transactions /\ e.now = expired /\ e.at = "commit" /\ e.op = op
  BY BlankType
<1>2. op = "select" => JustBegun(e)
  BY <1>1 DEF JustBegun
<1> HIDE DEF e
<1>3. ASSUME NEW at \in {"workspace", "entitlement", "invitation"},
             at = "entitlement" => op \in {"invite", "reissue"}
      PROVE  /\ \A role \in Roles : JustBegun([e EXCEPT !.at = at, !.role = role])
             /\ \A i \in Invitations : JustBegun([e EXCEPT !.at = at, !.inv = i])
             /\ \A s \in MemberStatus : JustBegun([e EXCEPT !.at = at, !.status = s])
  <2>1. \A t \in Transactions :
          LET Kept(f) == f.at = at /\ f.op = t.op /\ f.now = t.now IN
          /\ \A role \in Roles : Kept([t EXCEPT !.at = at, !.role = role])
          /\ \A i \in Invitations : Kept([t EXCEPT !.at = at, !.inv = i])
          /\ \A s \in MemberStatus : Kept([t EXCEPT !.at = at, !.status = s])
    BY DEF Transactions
  <2> QED
    BY <1>1, <1>3, <2>1 DEF JustBegun
<1>4. {"workspace", "entitlement", "invitation"} \subseteq Steps
  BY DEF Steps
<1> QED
  BY <1>1, <1>2, <1>3, <1>4, FieldsType DEF e

LEMMA BeginStarts ==
    ASSUME MembersTypeOK, NEW r \in Requests, Begin(r)
    PROVE  \E t \in Transactions : Start(r, t) /\ JustBegun(t)
<1>a. RowsOK /\ \A i \in Invitations : invitations[i].email \in Users
  BY TypeParts DEF RowsOK
<1>b. Guests \subseteq Users /\ Offers \subseteq Roles /\ RoleChanges \subseteq Roles
      /\ StatusChanges \subseteq MemberStatus
  BY MembersAssumption DEF MemberStatus
<1>c. {"workspace", "entitlement", "invitation"} \subseteq Steps
  BY DEF Steps
<1>d. {"invite", "reissue", "withdraw", "accept", "role", "status", "select"}
        \subseteq Operations
  BY DEF Operations
<1>1. ASSUME NEW a \in Users, NEW u \in Guests, NEW role \in Offers,
             BeginInvite(r, a, u, role)
      PROVE  \E e \in Transactions : Start(r, e) /\ JustBegun(e)
  <2> DEFINE t == [Blank("invite", a, u) EXCEPT !.at = "entitlement", !.role = role]
  <2>1. t \in Transactions /\ JustBegun(t)
    BY <1>a, <1>b, <1>c, <1>d, FreshFields
  <2>2. Start(r, t)
    BY <1>1 DEF BeginInvite
  <2> QED
    BY <2>1, <2>2
<1>2. ASSUME NEW a \in Users, NEW i \in Invitations, BeginReissue(r, a, i)
      PROVE  \E e \in Transactions : Start(r, e) /\ JustBegun(e)
  <2> DEFINE t == [Blank("reissue", a, invitations[i].email)
                     EXCEPT !.at = "entitlement", !.inv = i]
  <2>1. t \in Transactions /\ JustBegun(t)
    BY <1>a, <1>b, <1>c, <1>d, FreshFields
  <2>2. Start(r, t)
    BY <1>2 DEF BeginReissue
  <2> QED
    BY <2>1, <2>2
<1>3. ASSUME NEW a \in Users, NEW i \in Invitations, BeginWithdraw(r, a, i)
      PROVE  \E e \in Transactions : Start(r, e) /\ JustBegun(e)
  <2> DEFINE t == [Blank("withdraw", a, invitations[i].email)
                     EXCEPT !.at = "invitation", !.inv = i]
  <2>1. t \in Transactions /\ JustBegun(t)
    BY <1>a, <1>b, <1>c, <1>d, FreshFields
  <2>2. Start(r, t)
    BY <1>3 DEF BeginWithdraw
  <2> QED
    BY <2>1, <2>2
<1>4. ASSUME NEW i \in Invitations, BeginAccept(r, i)
      PROVE  \E e \in Transactions : Start(r, e) /\ JustBegun(e)
  <2> DEFINE t == [Blank("accept", invitations[i].email, invitations[i].email)
                     EXCEPT !.at = "invitation", !.inv = i]
  <2>1. t \in Transactions /\ JustBegun(t)
    BY <1>a, <1>b, <1>c, <1>d, FreshFields
  <2>2. Start(r, t)
    BY <1>4 DEF BeginAccept
  <2> QED
    BY <2>1, <2>2
<1>5. ASSUME NEW a \in Users, NEW u \in Users, NEW role \in RoleChanges,
             BeginRole(r, a, u, role)
      PROVE  \E e \in Transactions : Start(r, e) /\ JustBegun(e)
  <2> DEFINE t == [Blank("role", a, u) EXCEPT !.at = "workspace", !.role = role]
  <2>1. t \in Transactions /\ JustBegun(t)
    BY <1>a, <1>b, <1>c, <1>d, FreshFields
  <2>2. Start(r, t)
    BY <1>5 DEF BeginRole
  <2> QED
    BY <2>1, <2>2
<1>6. ASSUME NEW a \in Users, NEW u \in Users, NEW s \in StatusChanges,
             BeginStatus(r, a, u, s)
      PROVE  \E e \in Transactions : Start(r, e) /\ JustBegun(e)
  <2> DEFINE t == [Blank("status", a, u) EXCEPT !.at = "workspace", !.status = s]
  <2>1. t \in Transactions /\ JustBegun(t)
    BY <1>a, <1>b, <1>c, <1>d, FreshFields
  <2>2. Start(r, t)
    BY <1>6 DEF BeginStatus
  <2> QED
    BY <2>1, <2>2
<1>7. ASSUME NEW u \in Users, BeginSelect(r, u)
      PROVE  \E e \in Transactions : Start(r, e) /\ JustBegun(e)
  BY <1>7, <1>a, <1>d, FreshFields DEF BeginSelect
<1> QED
  BY <1>1, <1>2, <1>3, <1>4, <1>5, <1>6, <1>7 DEF Begin

LEMMA BeginType ==
    ASSUME MembersTypeOK, NEW r \in Requests, Begin(r)
    PROVE  MembersTypeOK'
  BY BeginStarts, StartType

\* A refusal is the end of the transaction.
LEMMA RefuseType ==
    ASSUME MembersTypeOK, NEW r \in Requests, Refuse(r)
    PROVE  MembersTypeOK'
<1>1. RequestsOK'
  BY EndType, TypeParts DEF Refuse
<1>2. RowsOK' /\ started' \in 0..MaxRequests /\ straddled' \in BOOLEAN
  BY DEF MembersTypeOK, RowsOK, Refuse, rows
<1> QED
  BY <1>1, <1>2, TypePartsNext

-----------------------------------------------------------------------------
(* Requests that do not take the step.                                     *)

\* The other requests and their locks are left alone.
OthersKept(r) ==
    \A q \in Requests \ {r} :
        /\ request'[q] = request[q]
        /\ workspaceLock = q => workspaceLock' = q
        /\ entitlementLock = q => entitlementLock' = q
        /\ \A i \in Invitations : invitationLock[i] = q => invitationLock'[i] = q
        /\ \A u \in Users : memberLock[u] = q => memberLock'[u] = q

LEMMA EndKeepsOthers ==
    ASSUME RequestsOK, NEW r \in Requests, End(r)
    PROVE  OthersKept(r) /\ request'[r] = Idle
  BY DEF RequestsOK, End, Released, OthersKept

LEMMA IdleRelies ==
    ASSUME NEW r \in Requests, request'[r] = Idle
    PROVE  Relies(r)'
  BY DEF Relies, Orderly, ManagerHolds, CheckHolds, TargetExists, InvitationHolds,
         AcceptHolds, EntitlementHolds, Manages, Names, Idle

\* What a manager found stays so while no membership changes.
LEMMA ChangeableKept ==
    ASSUME NEW q \in Requests, request'[q] = request[q], members' = members
    PROVE  Changeable(request[q])' <=> Changeable(request[q])
<1>1. Owners' = Owners
  BY DEF Owners, Owner, Active
<1>2. \A u : Active(u)' <=> Active(u)
  BY DEF Active
<1>3. LastOwner(request[q].target)' <=> LastOwner(request[q].target)
  BY <1>1 DEF LastOwner, Owner, Active
<1> QED
  BY <1>1, <1>2, <1>3
     DEF Changeable, RoleChangeable, StatusChangeable, OwnerAuthorityHeld, Active

LEMMA QuietOthers ==
    ASSUME MembersTypeOK, NEW r \in Requests, OthersKept(r),
           members' = members, invitations' = invitations,
           NEW q \in Requests \ {r}, Relies(q)
    PROVE  Relies(q)'
<1>1. /\ request'[q] = request[q]
      /\ workspaceLock = q => workspaceLock' = q
      /\ entitlementLock = q => entitlementLock' = q
      /\ \A i \in Invitations : invitationLock[i] = q => invitationLock'[i] = q
      /\ \A u \in Users : memberLock[u] = q => memberLock'[u] = q
  BY DEF OthersKept
<1>2. request[q] # Idle => request[q].target \in Users /\ request[q].inv \in Invitations
  BY UnderWay, TypeParts
<1>3. Manages(q) \/ Names(q) \/ request[q].op \in {"invite"} => request[q] # Idle
  BY DEF Manages, Names, Idle
<1>4. Orderly(q)' /\ ManagerHolds(q)' /\ TargetExists(q)'
  BY <1>1 DEF Relies, Orderly, ManagerHolds, TargetExists, Manages, Active
<1>5. CheckHolds(q)'
  BY <1>1, <1>2, <1>3, ChangeableKept DEF Relies, CheckHolds, Manages
<1>6. InvitationHolds(q)' /\ AcceptHolds(q)'
  BY <1>1, <1>2, <1>3 DEF Relies, InvitationHolds, AcceptHolds, Names, Active
<1>7. EntitlementHolds(q)'
  <2>1. \A u : PendingFor(u)' = PendingFor(u)
    BY DEF PendingFor
  <2> QED
    BY <1>1, <2>1 DEF Relies, EntitlementHolds
<1> QED
  BY <1>4, <1>5, <1>6, <1>7 DEF Relies

\* A step that writes no row preserves the invariant if the request that takes
\* it may rely on what it has read.
LEMMA QuietStep ==
    ASSUME MembersInv, NEW r \in Requests, OthersKept(r), Relies(r)',
           rows' = rows, RequestsOK', started' \in 0..MaxRequests,
           straddled' \in BOOLEAN
    PROVE  MembersInv'
<1>1. members' = members /\ invitations' = invitations
      /\ expired' = expired /\ selected' = selected
  BY DEF rows
<1>2. MembersTypeOK'
  BY <1>1, TypePartsNext DEF MembersInv, MembersTypeOK, RowsOK
<1>3. OwnerRemains' /\ PendingUnique'
  BY <1>1 DEF MembersInv, OwnerRemains, Owners, Owner, Active, PendingUnique
<1>4. ASSUME NEW q \in Requests PROVE Relies(q)'
  BY <1>1, QuietOthers DEF MembersInv
<1> QED
  BY <1>2, <1>3, <1>4 DEF MembersInv

LEMMA RefuseInv ==
    ASSUME MembersInv, NEW r \in Requests, Refuse(r)
    PROVE  MembersInv'
<1>1. RequestsOK /\ End(r) /\ rows' = rows
  BY TypeParts DEF MembersInv, Refuse
<1>2. MembersTypeOK'
  BY RefuseType DEF MembersInv
<1>3. OthersKept(r) /\ Relies(r)'
  BY <1>1, EndKeepsOthers, IdleRelies
<1> QED
  BY <1>1, <1>2, <1>3, QuietStep, TypePartsNext

-----------------------------------------------------------------------------
(* Requests begin.                                                         *)

LEMMA StartInv ==
    ASSUME MembersInv, MembersTypeOK', NEW r \in Requests, NEW t, Start(r, t), Relies(r)'
    PROVE  MembersInv'
<1>1. OthersKept(r) /\ rows' = rows
  BY DEF Start, OthersKept, locks, MembersInv, MembersTypeOK
<1> QED
  BY <1>1, QuietStep, TypePartsNext

LEMMA BeginInv ==
    ASSUME MembersInv, NEW r \in Requests, Begin(r)
    PROVE  MembersInv'
<1>1. MembersTypeOK'
  BY BeginType DEF MembersInv
<1> USE DEF Relies, Orderly, ManagerHolds, CheckHolds, TargetExists, InvitationHolds,
            AcceptHolds, EntitlementHolds, Manages, Names, StepsOf, Blank, Idle
<1>2. ASSUME NEW t, Start(r, t)
      PROVE  /\ request'[r] = t /\ members' = members /\ invitations' = invitations
  BY <1>2 DEF Start, rows, MembersInv, MembersTypeOK
<1>3. ASSUME NEW a \in Users, NEW u \in Guests, NEW role \in Offers,
             BeginInvite(r, a, u, role)
      PROVE  MembersInv'
  <2> DEFINE t == [Blank("invite", a, u) EXCEPT !.at = "entitlement", !.role = role]
  <2>1. Start(r, t)
    BY <1>3 DEF BeginInvite
  <2>2. t.op = "invite" /\ t.at = "entitlement"
    OBVIOUS
  <2>3. Relies(r)'
    BY <2>1, <2>2, <1>2
  <2> QED
    BY <1>1, <2>1, <2>3, StartInv
<1>4. ASSUME NEW a \in Users, NEW i \in Invitations, BeginReissue(r, a, i)
      PROVE  MembersInv'
  <2> DEFINE t == [Blank("reissue", a, invitations[i].email)
                     EXCEPT !.at = "entitlement", !.inv = i]
  <2>1. Start(r, t) /\ invitations[i].status # "unused"
    BY <1>4 DEF BeginReissue
  <2>2. t.op = "reissue" /\ t.at = "entitlement" /\ t.inv = i
        /\ t.target = invitations[i].email
    OBVIOUS
  <2>3. Relies(r)'
    BY <2>1, <2>2, <1>2
  <2> QED
    BY <1>1, <2>1, <2>3, StartInv
<1>5. ASSUME NEW a \in Users, NEW i \in Invitations, BeginWithdraw(r, a, i)
      PROVE  MembersInv'
  <2> DEFINE t == [Blank("withdraw", a, invitations[i].email)
                     EXCEPT !.at = "invitation", !.inv = i]
  <2>1. Start(r, t) /\ invitations[i].status # "unused"
    BY <1>5 DEF BeginWithdraw
  <2>2. t.op = "withdraw" /\ t.at = "invitation" /\ t.inv = i
        /\ t.target = invitations[i].email
    OBVIOUS
  <2>3. Relies(r)'
    BY <2>1, <2>2, <1>2
  <2> QED
    BY <1>1, <2>1, <2>3, StartInv
<1>6. ASSUME NEW i \in Invitations, BeginAccept(r, i)
      PROVE  MembersInv'
  <2> DEFINE t == [Blank("accept", invitations[i].email, invitations[i].email)
                     EXCEPT !.at = "invitation", !.inv = i]
  <2>1. Start(r, t) /\ invitations[i].status # "unused"
    BY <1>6 DEF BeginAccept
  <2>2. t.op = "accept" /\ t.at = "invitation" /\ t.inv = i
        /\ t.target = invitations[i].email
    OBVIOUS
  <2>3. Relies(r)'
    BY <2>1, <2>2, <1>2
  <2> QED
    BY <1>1, <2>1, <2>3, StartInv
<1>7. ASSUME NEW a \in Users, NEW u \in Users, NEW role \in RoleChanges,
             BeginRole(r, a, u, role)
      PROVE  MembersInv'
  <2> DEFINE t == [Blank("role", a, u) EXCEPT !.at = "workspace", !.role = role]
  <2>1. Start(r, t) /\ members[u].status # "none"
    BY <1>7 DEF BeginRole
  <2>2. t.op = "role" /\ t.at = "workspace" /\ t.target = u
    OBVIOUS
  <2>3. Relies(r)'
    BY <2>1, <2>2, <1>2
  <2> QED
    BY <1>1, <2>1, <2>3, StartInv
<1>8. ASSUME NEW a \in Users, NEW u \in Users, NEW s \in StatusChanges,
             BeginStatus(r, a, u, s)
      PROVE  MembersInv'
  <2> DEFINE t == [Blank("status", a, u) EXCEPT !.at = "workspace", !.status = s]
  <2>1. Start(r, t) /\ members[u].status # "none" /\ s # "none"
    BY <1>8, MembersAssumption DEF BeginStatus
  <2>2. t.op = "status" /\ t.at = "workspace" /\ t.target = u /\ t.status = s
    OBVIOUS
  <2> HIDE DEF t
  <2>3. Relies(r)'
    <3>1. request'[r] = t /\ members' = members /\ invitations' = invitations
      BY <2>1, <1>2
    <3> QED
      BY <2>1, <2>2, <3>1
  <2> QED
    BY <1>1, <2>1, <2>3, StartInv
<1>9. ASSUME NEW u \in Users, BeginSelect(r, u)
      PROVE  MembersInv'
  <2> DEFINE t == Blank("select", u, u)
  <2>1. Start(r, t)
    BY <1>9 DEF BeginSelect
  <2>2. t.op = "select" /\ t.at = "commit"
    OBVIOUS
  <2>3. Relies(r)'
    BY <2>1, <2>2, <1>2
  <2> QED
    BY <1>1, <2>1, <2>3, StartInv
<1> QED
  BY <1>3, <1>4, <1>5, <1>6, <1>7, <1>8, <1>9 DEF Begin

-----------------------------------------------------------------------------
(* Requests lock and count.                                                *)

\* What the steps share: r goes on with another step, and takes at most locks
\* that nobody holds.
LEMMA OnwardFacts ==
    ASSUME MembersInv, NEW r \in Requests, NEW step \in Steps, At(r, step)
    PROVE  /\ RequestsOK /\ r # Free /\ request[r] \in Transactions
           /\ request[r].op \in Operations /\ request[r].at = step
           /\ request[r].target \in Users /\ request[r].inv \in Invitations
           /\ Relies(r)
  BY UnderWay, TypeParts, MembersAssumption DEF MembersInv, At

LEMMA LockWorkspaceInv ==
    ASSUME MembersInv, NEW r \in Requests, LockWorkspace(r)
    PROVE  MembersInv'
<1>0. At(r, "workspace") /\ "workspace" \in Steps /\ "member" \in Steps
  BY DEF LockWorkspace, Steps
<1> DEFINE t == [request[r] EXCEPT !.at = "member",
                                   !.authority = members[request[r].actor].role]
<1>1. RequestsOK /\ r # Free /\ request[r] \in Transactions /\ Relies(r)
      /\ request[r].op \in Operations /\ request[r].at = "workspace"
  BY <1>0, OnwardFacts
<1>2. request' = [request EXCEPT ![r] = t]
  BY DEF LockWorkspace
<1>3. members[request[r].actor].role \in Roles
  BY <1>0, UnderWay DEF MembersInv, MembersTypeOK, RequestsOK, At
<1>4. t \in Transactions
  BY <1>0, <1>1, <1>3, FieldsType
<1>5. RequestsOK'
  BY <1>1, <1>2, <1>4 DEF LockWorkspace, RequestsOK
<1>6. OthersKept(r) /\ rows' = rows
  BY <1>1, <1>2, MembersAssumption DEF LockWorkspace, OthersKept, RequestsOK
<1>7. request[r].op \in {"role", "status"}
  BY <1>1 DEF Relies, Orderly, StepsOf, Operations, Idle
<1>8. Relies(r)'
  <2>1. request'[r] = t /\ workspaceLock' = r /\ members' = members
    BY <1>1, <1>2 DEF LockWorkspace, RequestsOK, rows
  <2>2. /\ t.op = request[r].op /\ t.at = "member" /\ t.actor = request[r].actor
        /\ t.target = request[r].target
        /\ t.authority = members[request[r].actor].role
    BY <1>1 DEF Transactions
  <2>3. Active(request[r].actor)
    BY DEF LockWorkspace, MayManage
  <2> QED
    BY <1>1, <1>7, <2>1, <2>2, <2>3
       DEF Relies, Orderly, ManagerHolds, CheckHolds, TargetExists, InvitationHolds,
           AcceptHolds, EntitlementHolds, Manages, Names, StepsOf, Active
<1> QED
  BY <1>5, <1>6, <1>8, QuietStep DEF LockWorkspace, MembersInv, MembersTypeOK

\* A step that takes locks and moves on with the same transaction.
LEMMA OnwardInv ==
    ASSUME MembersInv, NEW r \in Requests, NEW step \in Steps, request[r] # Idle,
           Continue(r, step), RequestsOK', OthersKept(r), Relies(r)',
           rows' = rows, UNCHANGED <<started, straddled>>
    PROVE  MembersInv'
  BY QuietStep DEF MembersInv, MembersTypeOK

\* A transaction that continues only differs in its step.
LEMMA ContinueFacts ==
    ASSUME RequestsOK, NEW r \in Requests, request[r] # Idle, NEW step \in Steps,
           Continue(r, step)
    PROVE  /\ request' \in [Requests -> Transactions \cup {Idle}]
           /\ \A q \in Requests \ {r} : request'[q] = request[q]
           /\ request'[r] = [request[r] EXCEPT !.at = step]
           /\ request'[r] # Idle
           /\ request'[r].op = request[r].op /\ request'[r].at = step
           /\ request'[r].actor = request[r].actor
           /\ request'[r].target = request[r].target
           /\ request'[r].inv = request[r].inv
           /\ request'[r].authority = request[r].authority
           /\ request'[r].role = request[r].role
           /\ request'[r].status = request[r].status
<1> DEFINE t == [request[r] EXCEPT !.at = step]
<1>1. request[r] \in Transactions
  BY UnderWay
<1>2. t \in Transactions
  BY <1>1, FieldsType
<1>3. request' = [request EXCEPT ![r] = t]
  BY DEF Continue
<1>4. t # Idle
  BY <1>2 DEF Transactions, Operations, Idle
<1>5. /\ t.op = request[r].op /\ t.at = step
      /\ t.actor = request[r].actor /\ t.target = request[r].target
      /\ t.inv = request[r].inv /\ t.authority = request[r].authority
      /\ t.role = request[r].role /\ t.status = request[r].status
  BY <1>1 DEF Transactions
<1> HIDE DEF t
<1>6. request'[r] = t /\ request' \in [Requests -> Transactions \cup {Idle}]
      /\ \A q \in Requests \ {r} : request'[q] = request[q]
  BY <1>2, <1>3 DEF RequestsOK
<1> QED
  BY <1>4, <1>5, <1>6 DEF t

\* What r found stays so while it goes on and no membership changes.
LEMMA OnwardChangeable ==
    ASSUME NEW r \in Requests, members' = members,
           request'[r].op = request[r].op, request'[r].actor = request[r].actor,
           request'[r].target = request[r].target, request'[r].role = request[r].role,
           request'[r].status = request[r].status,
           request'[r].authority = request[r].authority
    PROVE  Changeable(request[r])' <=> Changeable(request[r])
<1>1. Owners' = Owners
  BY DEF Owners, Owner, Active
<1>2. LastOwner(request[r].target)' <=> LastOwner(request[r].target)
  BY <1>1 DEF LastOwner, Owner, Active
<1> QED
  BY <1>2 DEF Changeable, RoleChangeable, StatusChangeable, OwnerAuthorityHeld, Active

LEMMA LockEntitlementInv ==
    ASSUME MembersInv, NEW r \in Requests, LockEntitlement(r)
    PROVE  MembersInv'
<1> DEFINE step == IF request[r].op = "reissue" THEN "invitation" ELSE "count_members"
<1>0. At(r, "entitlement") /\ "entitlement" \in Steps /\ step \in Steps
      /\ request[r] # Idle /\ Continue(r, step)
  BY DEF LockEntitlement, Steps, Continue, At
<1>1. RequestsOK /\ r # Free /\ request[r] \in Transactions /\ Relies(r)
      /\ request[r].op \in Operations /\ request[r].at = "entitlement"
  BY <1>0, OnwardFacts
<1>2. request[r].op \in {"invite", "reissue", "status"}
  BY <1>0, <1>1 DEF Relies, Orderly, StepsOf, Operations
<1>3. /\ request' \in [Requests -> Transactions \cup {Idle}]
      /\ \A q \in Requests \ {r} : request'[q] = request[q]
      /\ request'[r] # Idle
      /\ request'[r].op = request[r].op /\ request'[r].at = step
      /\ request'[r].actor = request[r].actor /\ request'[r].target = request[r].target
      /\ request'[r].inv = request[r].inv /\ request'[r].authority = request[r].authority
      /\ request'[r].role = request[r].role /\ request'[r].status = request[r].status
  BY <1>0, <1>1, ContinueFacts
<1>4. RequestsOK' /\ OthersKept(r) /\ rows' = rows
  BY <1>1, <1>3, MembersAssumption DEF LockEntitlement, OthersKept, RequestsOK
<1>5. /\ members' = members /\ invitations' = invitations
      /\ workspaceLock' = workspaceLock /\ memberLock' = memberLock
      /\ entitlementLock' = r
  BY DEF LockEntitlement, rows
<1>6. Relies(r)'
  <2>1. Changeable(request[r])' <=> Changeable(request[r])
    BY <1>3, <1>5, OnwardChangeable
  <2>2. Orderly(r)' /\ ManagerHolds(r)' /\ TargetExists(r)' /\ AcceptHolds(r)'
    BY <1>1, <1>2, <1>3, <1>5 DEF Relies, Orderly, ManagerHolds, TargetExists, AcceptHolds,
       Manages, StepsOf, Active
  <2>3. CheckHolds(r)'
    BY <1>1, <1>2, <1>3, <1>5, <2>1 DEF Relies, CheckHolds, Manages
  <2>4. InvitationHolds(r)' /\ EntitlementHolds(r)'
    BY <1>1, <1>2, <1>3, <1>5 DEF Relies, InvitationHolds, EntitlementHolds, Names
  <2> QED
    BY <2>2, <2>3, <2>4 DEF Relies
<1> QED
  BY <1>0, <1>4, <1>6, OnwardInv DEF LockEntitlement

LEMMA LockInvitationInv ==
    ASSUME MembersInv, NEW r \in Requests, LockInvitation(r)
    PROVE  MembersInv'
<1> DEFINE step == CASE request[r].op = "reissue" -> "count_members"
                     [] request[r].op = "accept" -> "member"
                     [] OTHER -> "commit"
<1>0. At(r, "invitation") /\ "invitation" \in Steps /\ step \in Steps
      /\ request[r] # Idle /\ Continue(r, step)
  BY DEF LockInvitation, Steps, Continue, At
<1>1. RequestsOK /\ r # Free /\ request[r] \in Transactions /\ Relies(r)
      /\ request[r].op \in Operations /\ request[r].at = "invitation"
      /\ request[r].inv \in Invitations
  BY <1>0, OnwardFacts
<1>2. request[r].op \in {"reissue", "withdraw", "accept"}
  BY <1>0, <1>1 DEF Relies, Orderly, StepsOf, Operations
<1>3. /\ request' \in [Requests -> Transactions \cup {Idle}]
      /\ \A q \in Requests \ {r} : request'[q] = request[q]
      /\ request'[r] # Idle
      /\ request'[r].op = request[r].op /\ request'[r].at = step
      /\ request'[r].target = request[r].target
      /\ request'[r].inv = request[r].inv
  BY <1>0, <1>1, ContinueFacts
<1>4. RequestsOK' /\ OthersKept(r) /\ rows' = rows
  BY <1>1, <1>3, MembersAssumption DEF LockInvitation, OthersKept, RequestsOK
<1>5. /\ members' = members /\ invitations' = invitations
      /\ invitationLock'[request[r].inv] = r /\ entitlementLock' = entitlementLock
      /\ invitations[request[r].inv].status = "PENDING"
  BY <1>1 DEF LockInvitation, rows, Usable, RequestsOK
<1>6. Relies(r)'
  BY <1>1, <1>2, <1>3, <1>5
     DEF Relies, Orderly, ManagerHolds, CheckHolds, TargetExists, InvitationHolds,
         AcceptHolds, EntitlementHolds, Manages, Names, StepsOf
<1> QED
  BY <1>0, <1>4, <1>6, OnwardInv DEF LockInvitation

LEMMA LockMemberInv ==
    ASSUME MembersInv, NEW r \in Requests, LockMember(r)
    PROVE  MembersInv'
<1> DEFINE step == IF request[r].op = "status" /\ request[r].status = "active"
                   THEN "entitlement" ELSE "commit"
<1>0. At(r, "member") /\ "member" \in Steps /\ step \in Steps
      /\ request[r] # Idle /\ Continue(r, step)
  BY DEF LockMember, Steps, At
<1>1. RequestsOK /\ r # Free /\ request[r] \in Transactions /\ Relies(r)
      /\ request[r].op \in Operations /\ request[r].at = "member"
      /\ request[r].target \in Users
  BY <1>0, OnwardFacts
<1>2. request[r].op \in {"accept", "role", "status"}
  BY <1>0, <1>1 DEF Relies, Orderly, StepsOf, Operations
<1>3. /\ request' \in [Requests -> Transactions \cup {Idle}]
      /\ \A q \in Requests \ {r} : request'[q] = request[q]
      /\ request'[r] # Idle
      /\ request'[r].op = request[r].op /\ request'[r].at = step
      /\ request'[r].actor = request[r].actor /\ request'[r].target = request[r].target
      /\ request'[r].inv = request[r].inv /\ request'[r].authority = request[r].authority
      /\ request'[r].role = request[r].role /\ request'[r].status = request[r].status
  BY <1>0, <1>1, ContinueFacts
<1>4. RequestsOK' /\ OthersKept(r) /\ rows' = rows
  BY <1>1, <1>3, MembersAssumption DEF LockMember, OthersKept, RequestsOK
<1>5. /\ members' = members /\ invitations' = invitations
      /\ workspaceLock' = workspaceLock /\ invitationLock' = invitationLock
      /\ members[request[r].target].status # "none"
           => memberLock'[request[r].target] = r
      /\ Changeable(request[r])
  BY <1>1 DEF LockMember, rows, RequestsOK
<1>6. Relies(r)'
  <2>1. Changeable(request[r])' <=> Changeable(request[r])
    BY <1>3, <1>5, OnwardChangeable
  <2>2. Orderly(r)' /\ ManagerHolds(r)' /\ TargetExists(r)'
    BY <1>1, <1>2, <1>3, <1>5 DEF Relies, Orderly, ManagerHolds, TargetExists,
       Manages, StepsOf, Active
  <2>3. CheckHolds(r)'
    BY <1>1, <1>2, <1>3, <1>5, <2>1 DEF Relies, CheckHolds, TargetExists, Manages
  <2>4. InvitationHolds(r)' /\ EntitlementHolds(r)'
    BY <1>1, <1>2, <1>3, <1>5 DEF Relies, InvitationHolds, EntitlementHolds, Names
  <2>5. AcceptHolds(r)'
    BY <1>1, <1>2, <1>3, <1>5 DEF AcceptHolds, Changeable, Active
  <2> QED
    BY <2>2, <2>3, <2>4, <2>5 DEF Relies
<1> QED
  BY <1>0, <1>4, <1>6, OnwardInv DEF LockMember

\* A count continues with the number counted, and takes no lock.
LEMMA CountInv ==
    ASSUME MembersInv, NEW r \in Requests, NEW n \in Nat,
           \/ At(r, "count_members") /\ NoneOutstanding(request[r])
                /\ request' = [request EXCEPT ![r].at = "count_pending", ![r].seats = n]
           \/ At(r, "count_pending")
                /\ request' = [request EXCEPT ![r].at = "commit", ![r].seats = n],
           UNCHANGED <<rows, locks, started, straddled>>
    PROVE  MembersInv'
<1> PICK from \in {"count_members", "count_pending"},
         step \in {"count_pending", "commit"} :
      /\ At(r, from)
      /\ from = "count_members" => NoneOutstanding(request[r])
      /\ request' = [request EXCEPT ![r].at = step, ![r].seats = n]
  OBVIOUS
<1> DEFINE t == [request[r] EXCEPT !.at = step, !.seats = n]
<1>1. from \in Steps /\ step \in Steps
  BY DEF Steps
<1>2. RequestsOK /\ r # Free /\ request[r] \in Transactions /\ Relies(r)
      /\ request[r].op \in Operations /\ request[r].at = from /\ request[r] # Idle
  BY <1>1, OnwardFacts DEF At
<1>3. request[r].op \in {"invite", "reissue", "status"}
  BY <1>2 DEF Relies, Orderly, StepsOf, Operations
<1>4. t \in Transactions
  BY <1>1, <1>2, FieldsType
<1>5. request' = [request EXCEPT ![r] = t]
  OBVIOUS
<1>6. /\ t.op = request[r].op /\ t.at = step
      /\ t.actor = request[r].actor /\ t.target = request[r].target
      /\ t.inv = request[r].inv /\ t.authority = request[r].authority
      /\ t.role = request[r].role /\ t.status = request[r].status
  BY <1>2 DEF Transactions
<1> HIDE DEF t
<1>7. request'[r] = t /\ request' \in [Requests -> Transactions \cup {Idle}]
      /\ \A q \in Requests \ {r} : request'[q] = request[q]
  BY <1>2, <1>4, <1>5 DEF RequestsOK
<1>8. RequestsOK' /\ OthersKept(r) /\ rows' = rows
  BY <1>2, <1>7 DEF OthersKept, RequestsOK, locks
<1>9. /\ members' = members /\ invitations' = invitations
      /\ workspaceLock' = workspaceLock /\ entitlementLock' = entitlementLock
      /\ invitationLock' = invitationLock /\ memberLock' = memberLock
  BY DEF rows, locks
<1>10. Relies(r)'
  <2>1. Changeable(request[r])' <=> Changeable(request[r])
    BY <1>6, <1>7, <1>9, OnwardChangeable
  <2>2. Orderly(r)' /\ ManagerHolds(r)' /\ TargetExists(r)'
    BY <1>2, <1>3, <1>6, <1>7, <1>9 DEF Relies, Orderly, ManagerHolds, TargetExists,
       Manages, StepsOf, Active
  <2>3. CheckHolds(r)'
    BY <1>2, <1>3, <1>6, <1>7, <1>9, <2>1 DEF Relies, CheckHolds, Manages
  <2>4. InvitationHolds(r)' /\ AcceptHolds(r)'
    BY <1>2, <1>3, <1>6, <1>7, <1>9 DEF Relies, InvitationHolds, AcceptHolds, Names
  <2>5. PendingFor(request[r].target)' = PendingFor(request[r].target)
    BY <1>6, <1>7, <1>9 DEF PendingFor
  <2>6. EntitlementHolds(r)'
    BY <1>2, <1>3, <1>6, <1>7, <1>9, <2>5
       DEF Relies, EntitlementHolds, NoneOutstanding
  <2> QED
    BY <2>2, <2>3, <2>4, <2>6 DEF Relies
<1> QED
  BY <1>8, <1>10, QuietStep DEF MembersInv, MembersTypeOK

\* The people of a workspace can be counted.
LEMMA CountedMembers == Cardinality(ActiveMembers) \in Nat
  BY FS_Subset, FS_CardinalityType, MembersAssumption DEF ActiveMembers

LEMMA CountMembersInv ==
    ASSUME MembersInv, NEW r \in Requests, CountMembers(r)
    PROVE  MembersInv'
  BY CountInv, CountedMembers DEF CountMembers

LEMMA CountPendingInv ==
    ASSUME MembersInv, NEW r \in Requests, CountPending(r)
    PROVE  MembersInv'
  BY CountInv DEF CountPending

-----------------------------------------------------------------------------
(* Requests commit.                                                        *)

\* What a request that commits relies on, and what ending it leaves alone.
LEMMA CommitFacts ==
    ASSUME MembersInv, NEW r \in Requests, NEW op \in Operations, Commits(r, op)
    PROVE  /\ RowsOK /\ RequestsOK /\ RequestsOK' /\ started' \in 0..MaxRequests
           /\ OthersKept(r) /\ request'[r] = Idle /\ Relies(r)
           /\ request[r] # Idle /\ request[r].at = "commit" /\ request[r].op = op
           /\ request[r].target \in Users /\ request[r].inv \in Invitations
           /\ request[r].actor \in Users
           /\ request[r].role \in Roles /\ request[r].status \in MemberStatus
           /\ workspaceLock \in {Free, r}
<1>1. End(r) /\ At(r, "commit") /\ request[r].op = op /\ workspaceLock \in {Free, r}
      /\ started' = started
  BY DEF Commits
<1>2. RowsOK /\ RequestsOK /\ started \in 0..MaxRequests
  BY TypeParts DEF MembersInv
<1> QED
  BY <1>1, <1>2, EndType, EndKeepsOthers, UnderWay DEF MembersInv, At

\* The invariant after a commit, from its parts.
LEMMA CommitInv ==
    ASSUME MembersInv, NEW r \in Requests, NEW op \in Operations, Commits(r, op),
           RowsOK', straddled' \in BOOLEAN, OwnerRemains', PendingUnique',
           \A q \in Requests \ {r} : Relies(q)'
    PROVE  MembersInv'
<1>1. MembersTypeOK' /\ Relies(r)'
  BY CommitFacts, TypePartsNext, IdleRelies
<1> QED
  BY <1>1 DEF MembersInv

\* Nobody else who manages the workspace can be past its lock when a request
\* commits.
LEMMA NoOtherManager ==
    ASSUME MembersInv, NEW r \in Requests, NEW op \in Operations, Commits(r, op),
           NEW q \in Requests \ {r}, Manages(q)
    PROVE  request[q].at = "workspace" /\ request'[q] = request[q]
<1>1. workspaceLock \in {Free, r} /\ q # Free /\ Relies(q) /\ request'[q] = request[q]
  BY CommitFacts, MembersAssumption DEF MembersInv, OthersKept
<1> QED
  BY <1>1 DEF Relies, ManagerHolds

\* A commit that leaves the invitations alone and writes one membership leaves
\* the others what they rely on.
LEMMA MemberWritten ==
    ASSUME MembersInv, NEW r \in Requests, NEW op \in {"accept", "role", "status"},
           Commits(r, op), RowsOK', NEW m,
           members' = [members EXCEPT ![request[r].target] = m],
           m.status # "none",
           NEW q \in Requests \ {r}
    PROVE  /\ Orderly(q)' /\ ManagerHolds(q)' /\ CheckHolds(q)' /\ TargetExists(q)'
           /\ AcceptHolds(q)'
<1> DEFINE T == request[r].target
<1>0. op \in Operations
  BY DEF Operations
<1>1. /\ RowsOK /\ Relies(r) /\ Relies(q) /\ T \in Users
      /\ request[r].op = op /\ request[r].at = "commit" /\ request[r].inv \in Invitations
      /\ request'[q] = request[q]
      /\ \A u \in Users : memberLock[u] = q => memberLock'[u] = q
  BY <1>0, CommitFacts DEF MembersInv, OthersKept
<1>2. request[q] # Idle => request[q].target \in Users /\ request[q].inv \in Invitations
  BY <1>0, CommitFacts, UnderWay
<1>3. Manages(q) => request[q].at = "workspace"
  BY <1>0, NoOtherManager
<1>4. \A u \in Users : members'[u] = IF u = T THEN m ELSE members[u]
  BY <1>1 DEF RowsOK
<1>5. Orderly(q)' /\ ManagerHolds(q)' /\ CheckHolds(q)'
  BY <1>1, <1>3 DEF Relies, Orderly, ManagerHolds, CheckHolds, Manages
<1>6. TargetExists(q)'
  BY <1>1, <1>2, <1>4 DEF Relies, TargetExists, Manages, Idle
<1>7. AcceptHolds(q)'
  <2> SUFFICES ASSUME request[q].op = "accept", request[q].at = "commit"
               PROVE  /\ ~Active(request[q].target)'
                      /\ members'[request[q].target].status # "none"
                           => memberLock'[request[q].target] = q
    BY <1>1 DEF AcceptHolds, Active
  <2>1. /\ request[q].target \in Users /\ request[q].inv \in Invitations
        /\ ~Active(request[q].target)
        /\ members[request[q].target].status # "none"
             => memberLock[request[q].target] = q
    BY <1>1, <1>2 DEF Relies, AcceptHolds, Idle
  <2>2. CASE request[q].target # T
    BY <1>1, <1>4, <2>1, <2>2 DEF Active
  <2>3. CASE request[q].target = T /\ op = "accept"
    <3>1. /\ invitationLock[request[r].inv] = r
          /\ invitations[request[r].inv].status = "PENDING"
          /\ invitations[request[r].inv].email = T
      BY <1>1, <2>3 DEF Relies, InvitationHolds, Names
    <3>2. /\ invitationLock[request[q].inv] = q
          /\ invitations[request[q].inv].status = "PENDING"
          /\ invitations[request[q].inv].email = T
      BY <1>1, <2>3 DEF Relies, InvitationHolds, Names
    <3> QED
      BY <1>1, <2>1, <3>1, <3>2 DEF MembersInv, PendingUnique
  <2>4. CASE request[q].target = T /\ op # "accept"
    <3>1. memberLock[T] = r /\ members[T].status # "none"
      BY <1>1, <2>4 DEF Relies, CheckHolds, TargetExists, Manages
    <3> QED
      BY <2>1, <2>4, <3>1
  <2> QED
    BY <2>2, <2>3, <2>4
<1> QED
  BY <1>5, <1>6, <1>7

\* A commit that writes no membership leaves the managers what they rely on.
LEMMA NoMemberWritten ==
    ASSUME MembersInv, NEW r \in Requests, NEW op \in Operations,
           Commits(r, op), members' = members, NEW q \in Requests \ {r}
    PROVE  /\ Orderly(q)' /\ ManagerHolds(q)' /\ CheckHolds(q)' /\ TargetExists(q)'
           /\ AcceptHolds(q)'
<1>1. /\ Relies(q) /\ request'[q] = request[q]
      /\ \A u \in Users : memberLock[u] = q => memberLock'[u] = q
  BY CommitFacts DEF MembersInv, OthersKept
<1>2. request[q] # Idle => request[q].target \in Users
  BY CommitFacts, UnderWay
<1>3. Manages(q) => request[q].at = "workspace"
  BY NoOtherManager
<1> QED
  BY <1>1, <1>2, <1>3 DEF Relies, Orderly, ManagerHolds, CheckHolds, TargetExists,
     AcceptHolds, Manages, Active, Idle

\* Invitations are settled only under their lock: the others keep theirs.
LEMMA InvitationsKept ==
    ASSUME MembersInv, NEW r \in Requests, NEW op \in Operations, Commits(r, op),
           NEW q \in Requests \ {r},
           \A i \in Invitations :
              invitations[i].status # "unused" =>
                /\ invitations'[i].status # "unused"
                /\ invitations'[i].email = invitations[i].email
                /\ invitations'[i] = invitations[i]
                     \/ (Names(r) /\ request[r].inv = i)
    PROVE  InvitationHolds(q)'
<1>1. /\ Relies(r) /\ Relies(q) /\ request'[q] = request[q] /\ request[r].at = "commit"
      /\ \A i \in Invitations : invitationLock[i] = q => invitationLock'[i] = q
  BY CommitFacts DEF MembersInv, OthersKept
<1> SUFFICES ASSUME Names(q)
             PROVE  /\ invitations'[request[q].inv].status # "unused"
                    /\ invitations'[request[q].inv].email = request[q].target
                    /\ request[q].at \notin {"entitlement", "invitation"} =>
                         /\ invitationLock'[request[q].inv] = q
                         /\ invitations'[request[q].inv].status = "PENDING"
  BY <1>1 DEF InvitationHolds, Names
<1>2. request[q].inv \in Invitations
  BY CommitFacts, UnderWay DEF Names, Idle
<1>3. /\ invitations[request[q].inv].status # "unused"
      /\ invitations[request[q].inv].email = request[q].target
      /\ request[q].at \notin {"entitlement", "invitation"} =>
           /\ invitationLock[request[q].inv] = q
           /\ invitations[request[q].inv].status = "PENDING"
  BY <1>1 DEF Relies, InvitationHolds
<1>4. Names(r) => invitationLock[request[r].inv] = r
  BY <1>1 DEF Relies, InvitationHolds
<1> QED
  BY <1>1, <1>2, <1>3, <1>4

\* The person who counts seats is alone in adding invitations.
LEMMA EntitlementKept ==
    ASSUME MembersInv, NEW r \in Requests, NEW op \in Operations, Commits(r, op),
           NEW q \in Requests \ {r},
           \/ op \in {"invite", "reissue"}
           \/ \A u \in Users : PendingFor(u)' \subseteq PendingFor(u)
    PROVE  EntitlementHolds(q)'
<1>1. /\ Relies(r) /\ Relies(q) /\ request'[q] = request[q]
      /\ request[r].op = op /\ request[r].at = "commit"
      /\ entitlementLock = q => entitlementLock' = q
  BY CommitFacts DEF MembersInv, OthersKept
<1>2. request[q] # Idle => request[q].target \in Users
  BY CommitFacts, UnderWay
<1>3. op \in {"invite", "reissue"} => entitlementLock = r
  BY <1>1 DEF Relies, EntitlementHolds
<1>4. CASE op \in {"invite", "reissue"}
  BY <1>1, <1>3, <1>4 DEF Relies, EntitlementHolds
<1>5. CASE \A u \in Users : PendingFor(u)' \subseteq PendingFor(u)
  <2>1. request[q] # Idle => PendingFor(request[q].target)' \subseteq PendingFor(request[q].target)
    BY <1>1, <1>2, <1>5 DEF PendingFor
  <2> QED
    BY <1>1, <2>1 DEF Relies, EntitlementHolds, Idle
<1> QED
  BY <1>4, <1>5

\* The fresh row of an invitation or a reissue.
LEMMA InsertInv ==
    ASSUME MembersInv, NEW r \in Requests, NEW op \in {"invite", "reissue"},
           Commits(r, op), NEW i \in Invitations, NEW role \in Roles,
           Insert(i, request[r], request[r].target, role),
           op = "invite" => PendingFor(request[r].target) = {},
           UNCHANGED <<members, expired, selected, straddled>>
    PROVE  MembersInv'
<1> DEFINE t == request[r]
<1>0. op \in Operations
  BY DEF Operations
<1>1. /\ RowsOK /\ Relies(r) /\ t.op = op /\ t.at = "commit"
      /\ t.target \in Users /\ t.inv \in Invitations
  BY <1>0, CommitFacts
<1>2. /\ invitations[i].status = "unused"
      /\ PendingFor(t.target) \subseteq {t.inv}
      /\ \A j \in Invitations : invitations'[j] =
           CASE j = i -> [status |-> "PENDING", email |-> t.target, role |-> role]
             [] j # i /\ t.op = "reissue" /\ j = t.inv ->
                  [invitations[j] EXCEPT !.status = "REVOKED"]
             [] OTHER -> invitations[j]
      /\ DOMAIN invitations' = Invitations
  BY DEF Insert
<1>3. op = "reissue" => Names(r) /\ invitations[t.inv].status # "unused"
  BY <1>1 DEF Relies, InvitationHolds, Names
<1>4. \A j \in Invitations :
        /\ j = i => invitations'[j].status = "PENDING" /\ invitations'[j].email = t.target
        /\ j # i => /\ invitations'[j].email = invitations[j].email
                    /\ invitations'[j] = invitations[j]
                         \/ /\ op = "reissue" /\ j = t.inv
                            /\ invitations'[j].status = "REVOKED"
  BY <1>1, <1>2 DEF RowsOK
<1>5. RowsOK'
  <2>1. invitations' \in [Invitations ->
                            [status : InvitationStatus, email : Users, role : Roles]]
    <3>1. ASSUME NEW j \in Invitations
          PROVE  invitations'[j] \in
                   [status : InvitationStatus, email : Users, role : Roles]
      <4>1. invitations[j] \in [status : InvitationStatus, email : Users, role : Roles]
        BY <1>1 DEF RowsOK
      <4>2. [invitations[j] EXCEPT !.status = "REVOKED"] \in
              [status : InvitationStatus, email : Users, role : Roles]
        BY <4>1 DEF InvitationStatus
      <4>3. [status |-> "PENDING", email |-> t.target, role |-> role] \in
              [status : InvitationStatus, email : Users, role : Roles]
        BY <1>1 DEF InvitationStatus
      <4> QED
        BY <1>2, <4>1, <4>2, <4>3
    <3>2. invitations' = [j \in Invitations |-> invitations'[j]]
      BY DEF Insert
    <3> QED
      BY <3>1, <3>2
  <2> QED
    BY <1>1, <2>1 DEF RowsOK
<1>6. OwnerRemains'
  BY DEF MembersInv, OwnerRemains, Owners, Owner, Active
<1>7. PendingUnique'
  <2>0. ASSUME op = "reissue" PROVE invitations'[t.inv].status # "PENDING"
    <3>1. t.inv # i
      BY <1>2, <1>3, <2>0
    <3>2. invitations'[t.inv] = [invitations[t.inv] EXCEPT !.status = "REVOKED"]
      BY <1>1, <1>2, <2>0, <3>1
    <3>3. invitations[t.inv] \in [status : InvitationStatus, email : Users, role : Roles]
      BY <1>1 DEF RowsOK
    <3> QED
      BY <3>2, <3>3
  <2>1. ASSUME NEW j \in Invitations, j # i, invitations'[j].status = "PENDING"
        PROVE  /\ invitations[j].status = "PENDING"
               /\ invitations'[j].email = invitations[j].email
               /\ invitations[j].email # t.target
    <3>1. invitations'[j] = invitations[j]
      BY <1>4, <2>0, <2>1
    <3>2. op = "invite" => PendingFor(t.target) = {}
      OBVIOUS
    <3>3. op = "reissue" => j # t.inv
      BY <2>0, <2>1
    <3>4. j \notin PendingFor(t.target)
      BY <1>2, <3>2, <3>3
    <3> QED
      BY <2>1, <3>1, <3>4 DEF PendingFor
  <2> QED
    BY <1>4, <2>1 DEF MembersInv, PendingUnique
<1>8. ASSUME NEW q \in Requests \ {r} PROVE Relies(q)'
  <2>1. /\ Orderly(q)' /\ ManagerHolds(q)' /\ CheckHolds(q)' /\ TargetExists(q)'
        /\ AcceptHolds(q)'
    BY <1>0, NoMemberWritten
  <2>2. \A j \in Invitations :
           invitations[j].status # "unused" =>
             /\ invitations'[j].status # "unused"
             /\ invitations'[j].email = invitations[j].email
             /\ invitations'[j] = invitations[j] \/ (Names(r) /\ request[r].inv = j)
    <3> SUFFICES ASSUME NEW j \in Invitations, invitations[j].status # "unused"
                 PROVE  /\ invitations'[j].status # "unused"
                        /\ invitations'[j].email = invitations[j].email
                        /\ invitations'[j] = invitations[j]
                             \/ (Names(r) /\ request[r].inv = j)
      OBVIOUS
    <3>1. j # i
      BY <1>2
    <3>2. invitations'[j] = invitations[j] \/ invitations'[j].status = "REVOKED"
      BY <1>4, <3>1
    <3>3. invitations'[j].email = invitations[j].email
          /\ (invitations'[j] = invitations[j] \/ (op = "reissue" /\ j = t.inv))
      BY <1>4, <3>1
    <3> QED
      BY <1>3, <3>2, <3>3
  <2>4. InvitationHolds(q)'
    BY <1>0, <2>2, InvitationsKept
  <2>3. EntitlementHolds(q)'
    BY <1>0, EntitlementKept
  <2> QED
    BY <2>1, <2>3, <2>4 DEF Relies
<1>9. straddled' \in BOOLEAN
  BY DEF MembersInv, MembersTypeOK
<1> QED
  BY <1>0, <1>5, <1>6, <1>7, <1>8, <1>9, CommitInv

LEMMA CommitInviteInv ==
    ASSUME MembersInv, NEW r \in Requests, NEW i \in Invitations, CommitInvite(r, i)
    PROVE  MembersInv'
<1>1. Commits(r, "invite") /\ "invite" \in Operations
  BY DEF CommitInvite, Operations
<1>2. request[r].role \in Roles
  BY <1>1, CommitFacts
<1> QED
  BY <1>1, <1>2, InsertInv DEF CommitInvite

LEMMA CommitReissueInv ==
    ASSUME MembersInv, NEW r \in Requests, NEW i \in Invitations, CommitReissue(r, i)
    PROVE  MembersInv'
<1>1. Commits(r, "reissue") /\ "reissue" \in Operations
  BY DEF CommitReissue, Operations
<1>2. invitations[request[r].inv].role \in Roles
  BY <1>1, CommitFacts DEF RowsOK
<1> QED
  BY <1>1, <1>2, InsertInv DEF CommitReissue

\* The invitation that a withdrawal or an acceptance has locked is settled.
LEMMA SettleInv ==
    ASSUME MembersInv, NEW r \in Requests, NEW op \in {"withdraw", "accept"},
           Commits(r, op), NEW status \in {"ACCEPTED", "REVOKED"},
           invitations' = [invitations EXCEPT ![request[r].inv].status = status]
    PROVE  /\ invitations' \in [Invitations ->
                 [status : InvitationStatus, email : Users, role : Roles]]
           /\ PendingUnique'
           /\ \A q \in Requests \ {r} : InvitationHolds(q)' /\ EntitlementHolds(q)'
<1>0. op \in Operations
  BY DEF Operations
<1>1. RowsOK /\ Relies(r) /\ request[r].op = op /\ request[r].inv \in Invitations
  BY <1>0, CommitFacts
<1>2. Names(r)
  BY <1>1 DEF Names
<1>3. invitations' \in [Invitations ->
                          [status : InvitationStatus, email : Users, role : Roles]]
  BY <1>1 DEF RowsOK, InvitationStatus
<1>4. \A i \in Invitations :
        /\ invitations'[i].email = invitations[i].email
        /\ i = request[r].inv => invitations'[i].status = status
        /\ i # request[r].inv => invitations'[i] = invitations[i]
  BY <1>1 DEF RowsOK
<1>5. PendingUnique'
  BY <1>4 DEF MembersInv, PendingUnique
<1>6. \A u \in Users : PendingFor(u)' \subseteq PendingFor(u)
  BY <1>4 DEF PendingFor
<1>7. \A i \in Invitations :
        invitations[i].status # "unused" =>
          /\ invitations'[i].status # "unused"
          /\ invitations'[i].email = invitations[i].email
          /\ invitations'[i] = invitations[i] \/ (Names(r) /\ request[r].inv = i)
  <2>1. status # "unused"
    OBVIOUS
  <2> SUFFICES ASSUME NEW i \in Invitations, invitations[i].status # "unused"
               PROVE  /\ invitations'[i].status # "unused"
                      /\ invitations'[i].email = invitations[i].email
                      /\ invitations'[i] = invitations[i]
                           \/ (Names(r) /\ request[r].inv = i)
    OBVIOUS
  <2>2. CASE i = request[r].inv
    BY <1>2, <1>4, <2>1, <2>2
  <2>3. CASE i # request[r].inv
    BY <1>4, <2>3
  <2> QED
    BY <2>2, <2>3
<1>8. ASSUME NEW q \in Requests \ {r}
      PROVE  InvitationHolds(q)' /\ EntitlementHolds(q)'
  <2>1. InvitationHolds(q)'
    BY <1>0, <1>7, InvitationsKept
  <2>2. EntitlementHolds(q)'
    BY <1>0, <1>6, EntitlementKept
  <2> QED
    BY <2>1, <2>2
<1> QED
  BY <1>3, <1>5, <1>8

LEMMA CommitWithdrawInv ==
    ASSUME MembersInv, NEW r \in Requests, CommitWithdraw(r)
    PROVE  MembersInv'
<1>1. Commits(r, "withdraw") /\ "withdraw" \in Operations
  BY DEF CommitWithdraw, Operations
<1>2. /\ invitations' \in [Invitations ->
            [status : InvitationStatus, email : Users, role : Roles]]
      /\ PendingUnique'
      /\ \A q \in Requests \ {r} : InvitationHolds(q)' /\ EntitlementHolds(q)'
  BY <1>1, SettleInv DEF CommitWithdraw
<1>3. RowsOK'
  BY <1>1, <1>2, CommitFacts DEF CommitWithdraw, RowsOK
<1>4. OwnerRemains' /\ straddled' \in BOOLEAN
  BY DEF CommitWithdraw, MembersInv, MembersTypeOK, OwnerRemains, Owners, Owner, Active
<1>5. ASSUME NEW q \in Requests \ {r} PROVE Relies(q)'
  BY <1>1, <1>2, NoMemberWritten DEF CommitWithdraw, Relies
<1> QED
  BY <1>1, <1>2, <1>3, <1>4, <1>5, CommitInv

LEMMA CommitAcceptInv ==
    ASSUME MembersInv, NEW r \in Requests, CommitAccept(r)
    PROVE  MembersInv'
<1>1. Commits(r, "accept") /\ "accept" \in Operations
  BY DEF CommitAccept, Operations
<1> DEFINE m == [status |-> "active", role |-> invitations[request[r].inv].role]
<1>2. /\ RowsOK /\ Relies(r) /\ request[r].op = "accept" /\ request[r].at = "commit"
      /\ request[r].target \in Users /\ request[r].inv \in Invitations
  BY <1>1, CommitFacts
<1>3. members' = [members EXCEPT ![request[r].target] = m]
      /\ invitations' = [invitations EXCEPT ![request[r].inv].status = "ACCEPTED"]
      /\ expired' = expired /\ selected' = selected \cup {request[r].target}
  BY DEF CommitAccept
<1>4. /\ invitations' \in [Invitations ->
            [status : InvitationStatus, email : Users, role : Roles]]
      /\ PendingUnique'
      /\ \A q \in Requests \ {r} : InvitationHolds(q)' /\ EntitlementHolds(q)'
  BY <1>1, <1>3, SettleInv
<1>5. RowsOK'
  <2>1. m \in [status : MemberStatus, role : Roles]
    BY <1>2 DEF RowsOK, MemberStatus
  <2> QED
    BY <1>2, <1>3, <1>4, <2>1 DEF RowsOK
<1>6. OwnerRemains'
  <2>1. PICK u \in Users : Owner(u)
    BY DEF MembersInv, OwnerRemains, Owners
  <2>2. ~Active(request[r].target)
    BY <1>2 DEF Relies, AcceptHolds
  <2>3. members'[u] = members[u]
    BY <1>2, <1>3, <2>1, <2>2 DEF Owner, RowsOK
  <2> QED
    BY <2>1, <2>3 DEF OwnerRemains, Owners, Owner, Active
<1>7. straddled' \in BOOLEAN
  BY DEF CommitAccept, MembersInv, MembersTypeOK
<1>8. ASSUME NEW q \in Requests \ {r} PROVE Relies(q)'
  <2>1. m.status # "none"
    OBVIOUS
  <2>2. /\ Orderly(q)' /\ ManagerHolds(q)' /\ CheckHolds(q)' /\ TargetExists(q)'
        /\ AcceptHolds(q)'
    BY <1>1, <1>3, <1>5, <2>1, MemberWritten
  <2> QED
    BY <1>4, <2>2 DEF Relies
<1> QED
  BY <1>1, <1>4, <1>5, <1>6, <1>7, <1>8, CommitInv

\* There is another owner besides one who is not the last.
LEMMA AnotherOwner ==
    ASSUME OwnerRemains, NEW u \in Users, ~LastOwner(u)
    PROVE  \E v \in Users : v # u /\ Owner(v)
<1>1. CASE ~Owner(u)
  BY <1>1 DEF OwnerRemains, Owners
<1>2. CASE Owner(u)
  <2>1. Owners # {u}
    <3>1. Cardinality({u}) = 1
      BY FS_Singleton
    <3> QED
      BY <1>2, <3>1 DEF LastOwner
  <2> QED
    BY <1>2, <2>1 DEF Owners
<1> QED
  BY <1>1, <1>2

LEMMA CommitRoleInv ==
    ASSUME MembersInv, NEW r \in Requests, CommitRole(r)
    PROVE  MembersInv'
<1>1. Commits(r, "role") /\ "role" \in Operations
  BY DEF CommitRole, Operations
<1> DEFINE T == request[r].target
           m == [members[T] EXCEPT !.role = request[r].role]
<1>2. /\ RowsOK /\ Relies(r) /\ request[r].op = "role" /\ request[r].at = "commit"
      /\ T \in Users /\ request[r].role \in Roles
  BY <1>1, CommitFacts
<1>3. members' = [members EXCEPT ![T] = m]
      /\ invitations' = invitations /\ expired' = expired /\ selected' = selected
  BY DEF CommitRole
<1>4. RoleChangeable(request[r]) /\ members[T].status # "none"
  BY <1>2 DEF Relies, CheckHolds, TargetExists, Manages, Changeable
<1>5. m \in [status : MemberStatus, role : Roles]
      /\ m.status = members[T].status /\ m.role = request[r].role
  BY <1>2 DEF RowsOK
<1> HIDE DEF m
<1>6. RowsOK'
  BY <1>2, <1>3, <1>5 DEF RowsOK
<1>7. \A u \in Users : members'[u] = IF u = T THEN m ELSE members[u]
  BY <1>2, <1>3 DEF RowsOK
<1>8. OwnerRemains'
  <2>1. CASE request[r].role = "OWNER"
    <3>1. PICK u \in Users : Owner(u)
      BY DEF MembersInv, OwnerRemains, Owners
    <3>2. Owner(u)'
      BY <1>5, <1>7, <2>1, <3>1 DEF Owner, Active
    <3> QED
      BY <3>2 DEF OwnerRemains, Owners
  <2>2. CASE request[r].role # "OWNER"
    <3>1. ~LastOwner(T)
      BY <1>4, <2>2 DEF RoleChangeable
    <3>2. PICK v \in Users : v # T /\ Owner(v)
      BY <1>2, <3>1, AnotherOwner DEF MembersInv
    <3>3. Owner(v)'
      BY <1>7, <3>2 DEF Owner, Active
    <3> QED
      BY <3>3 DEF OwnerRemains, Owners
  <2> QED
    BY <2>1, <2>2
<1>9. PendingUnique' /\ straddled' \in BOOLEAN
  BY <1>3 DEF CommitRole, MembersInv, MembersTypeOK, PendingUnique
<1>10. ASSUME NEW q \in Requests \ {r} PROVE Relies(q)'
  <2>1. /\ Orderly(q)' /\ ManagerHolds(q)' /\ CheckHolds(q)' /\ TargetExists(q)'
        /\ AcceptHolds(q)'
    BY <1>1, <1>3, <1>4, <1>5, <1>6, MemberWritten
  <2>2. InvitationHolds(q)'
    <3>1. \A i \in Invitations :
             invitations[i].status # "unused" =>
               /\ invitations'[i].status # "unused"
               /\ invitations'[i].email = invitations[i].email
               /\ invitations'[i] = invitations[i] \/ (Names(r) /\ request[r].inv = i)
      BY <1>3
    <3> QED
      BY <1>1, <3>1, InvitationsKept
  <2>3. EntitlementHolds(q)'
    BY <1>1, <1>3, EntitlementKept DEF PendingFor
  <2> QED
    BY <2>1, <2>2, <2>3 DEF Relies
<1> QED
  BY <1>1, <1>6, <1>8, <1>9, <1>10, CommitInv

LEMMA CommitStatusInv ==
    ASSUME MembersInv, NEW r \in Requests, CommitStatus(r)
    PROVE  MembersInv'
<1>1. Commits(r, "status") /\ "status" \in Operations
  BY DEF CommitStatus, Operations
<1> DEFINE T == request[r].target
           m == [members[T] EXCEPT !.status = request[r].status]
<1>2. /\ RowsOK /\ Relies(r) /\ request[r].op = "status" /\ request[r].at = "commit"
      /\ T \in Users /\ request[r].status \in MemberStatus
  BY <1>1, CommitFacts
<1>3. members' = [members EXCEPT ![T] = m]
      /\ invitations' = invitations /\ expired' = expired
      /\ selected' \subseteq selected
  BY DEF CommitStatus
<1>4. StatusChangeable(request[r])
  BY <1>2 DEF Relies, CheckHolds, Manages, Changeable
<1>5. m \in [status : MemberStatus, role : Roles]
      /\ m.status = request[r].status /\ m.role = members[T].role
  BY <1>2 DEF RowsOK
<1> HIDE DEF m
<1>6. RowsOK'
  BY <1>2, <1>3, <1>5 DEF RowsOK
<1>7. \A u \in Users : members'[u] = IF u = T THEN m ELSE members[u]
  BY <1>2, <1>3 DEF RowsOK
<1>8. OwnerRemains'
  <2>1. CASE request[r].status = "active"
    <3>1. PICK u \in Users : Owner(u)
      BY DEF MembersInv, OwnerRemains, Owners
    <3>2. Owner(u)'
      BY <1>5, <1>7, <2>1, <3>1 DEF Owner, Active
    <3> QED
      BY <3>2 DEF OwnerRemains, Owners
  <2>2. CASE request[r].status # "active"
    <3>1. ~LastOwner(T)
      BY <1>4, <2>2 DEF StatusChangeable
    <3>2. PICK v \in Users : v # T /\ Owner(v)
      BY <1>2, <3>1, AnotherOwner DEF MembersInv
    <3>3. Owner(v)'
      BY <1>7, <3>2 DEF Owner, Active
    <3> QED
      BY <3>3 DEF OwnerRemains, Owners
  <2> QED
    BY <2>1, <2>2
<1>9. PendingUnique' /\ straddled' \in BOOLEAN
  BY <1>3 DEF CommitStatus, MembersInv, MembersTypeOK, PendingUnique
<1>10. m.status # "none"
  BY <1>2, <1>5 DEF Relies, TargetExists, Manages
<1>11. ASSUME NEW q \in Requests \ {r} PROVE Relies(q)'
  <2>1. /\ Orderly(q)' /\ ManagerHolds(q)' /\ CheckHolds(q)' /\ TargetExists(q)'
        /\ AcceptHolds(q)'
    BY <1>1, <1>3, <1>6, <1>10, MemberWritten
  <2>2. InvitationHolds(q)'
    <3>1. \A i \in Invitations :
             invitations[i].status # "unused" =>
               /\ invitations'[i].status # "unused"
               /\ invitations'[i].email = invitations[i].email
               /\ invitations'[i] = invitations[i] \/ (Names(r) /\ request[r].inv = i)
      BY <1>3
    <3> QED
      BY <1>1, <3>1, InvitationsKept
  <2>3. EntitlementHolds(q)'
    BY <1>1, <1>3, EntitlementKept DEF PendingFor
  <2> QED
    BY <2>1, <2>2, <2>3 DEF Relies
<1> QED
  BY <1>1, <1>6, <1>8, <1>9, <1>11, CommitInv

LEMMA CommitSelectInv ==
    ASSUME MembersInv, NEW r \in Requests, CommitSelect(r)
    PROVE  MembersInv'
<1>1. Commits(r, "select") /\ "select" \in Operations
  BY DEF CommitSelect, Operations
<1>2. /\ members' = members /\ invitations' = invitations /\ expired' = expired
      /\ selected' = selected \cup {request[r].target} /\ straddled' = straddled
  BY DEF CommitSelect
<1>3. RowsOK'
  BY <1>1, <1>2, CommitFacts DEF RowsOK
<1>4. OwnerRemains' /\ PendingUnique' /\ straddled' \in BOOLEAN
  BY <1>2 DEF MembersInv, MembersTypeOK, OwnerRemains, Owners, Owner, Active, PendingUnique
<1>5. ASSUME NEW q \in Requests \ {r} PROVE Relies(q)'
  <2>1. /\ Orderly(q)' /\ ManagerHolds(q)' /\ CheckHolds(q)' /\ TargetExists(q)'
        /\ AcceptHolds(q)'
    BY <1>1, <1>2, NoMemberWritten
  <2>2. InvitationHolds(q)'
    <3>1. \A i \in Invitations :
             invitations[i].status # "unused" =>
               /\ invitations'[i].status # "unused"
               /\ invitations'[i].email = invitations[i].email
               /\ invitations'[i] = invitations[i] \/ (Names(r) /\ request[r].inv = i)
      BY <1>2
    <3> QED
      BY <1>1, <3>1, InvitationsKept
  <2>3. EntitlementHolds(q)'
    BY <1>1, <1>2, EntitlementKept DEF PendingFor
  <2> QED
    BY <2>1, <2>2, <2>3 DEF Relies
<1> QED
  BY <1>1, <1>3, <1>4, <1>5, CommitInv

-----------------------------------------------------------------------------
(* Theorems.                                                               *)

\* The clock disturbs nobody: a request has its own.
LEMMA ExpireInv ==
    ASSUME MembersInv, NEW i \in Invitations, Expire(i)
    PROVE  MembersInv'
<1>1. /\ members' = members /\ invitations' = invitations /\ selected' = selected
      /\ request' = request /\ started' = started /\ straddled' = straddled
      /\ expired' = expired \cup {i}
      /\ workspaceLock' = workspaceLock /\ entitlementLock' = entitlementLock
      /\ invitationLock' = invitationLock /\ memberLock' = memberLock
  BY DEF Expire, locks
<1>2. MembersTypeOK'
  BY <1>1 DEF MembersInv, MembersTypeOK
<1>3. OwnerRemains' /\ PendingUnique'
  BY <1>1 DEF MembersInv, OwnerRemains, Owners, Owner, Active, PendingUnique
<1>4. ASSUME NEW q \in Requests PROVE Relies(q)'
  <2>1. PendingFor(request[q].target)' = PendingFor(request[q].target)
    BY <1>1 DEF PendingFor
  <2>2. Changeable(request[q])' <=> Changeable(request[q])
    BY <1>1, ChangeableKept
  <2> QED
    BY <1>1, <2>1, <2>2 DEF MembersInv, Relies, Orderly, ManagerHolds, CheckHolds,
       TargetExists, InvitationHolds, AcceptHolds, EntitlementHolds, Manages, Names, Active
<1> QED
  BY <1>2, <1>3, <1>4 DEF MembersInv

LEMMA MembersStepInv ==
    ASSUME MembersInv, [MembersNext]_membersVars
    PROVE  MembersInv'
<1>1. ASSUME NEW r \in Requests, Begin(r) PROVE MembersInv'
  BY <1>1, BeginInv
<1>2. ASSUME NEW r \in Requests, Progress(r) PROVE MembersInv'
  <2>1. ASSUME Refuse(r) PROVE MembersInv'
    BY <2>1, RefuseInv
  <2>2. CASE ManagerLostAuthority(r) \/ InviteRefused(r) \/ InvitationUnusable(r)
             \/ MemberUnchangeable(r) \/ AlreadyInvited(r) \/ NoSeatLeft(r)
    BY <2>1, <2>2 DEF ManagerLostAuthority, InviteRefused, InvitationUnusable,
       MemberUnchangeable, AlreadyInvited, NoSeatLeft
  <2> QED
    BY <1>2, <2>2, LockWorkspaceInv, LockEntitlementInv, LockInvitationInv, LockMemberInv,
       CountMembersInv, CountPendingInv, CommitInviteInv, CommitReissueInv,
       CommitWithdrawInv, CommitAcceptInv, CommitRoleInv, CommitStatusInv, CommitSelectInv
       DEF Progress
<1>3. ASSUME NEW r \in Requests, Fail(r) \/ BreakDeadlock(r) PROVE MembersInv'
  BY <1>3, RefuseInv DEF Fail, BreakDeadlock
<1>4. ASSUME NEW i \in Invitations, Expire(i) PROVE MembersInv'
  BY <1>4, ExpireInv
<1>5. ASSUME UNCHANGED membersVars PROVE MembersInv'
  <2>1. /\ members' = members /\ invitations' = invitations /\ selected' = selected
        /\ request' = request /\ started' = started /\ straddled' = straddled
        /\ expired' = expired
        /\ workspaceLock' = workspaceLock /\ entitlementLock' = entitlementLock
        /\ invitationLock' = invitationLock /\ memberLock' = memberLock
    BY <1>5 DEF membersVars, rows, locks
  <2>2. MembersTypeOK'
    BY <2>1 DEF MembersInv, MembersTypeOK
  <2>3. OwnerRemains' /\ PendingUnique'
    BY <2>1 DEF MembersInv, OwnerRemains, Owners, Owner, Active, PendingUnique
  <2>4. ASSUME NEW q \in Requests PROVE Relies(q)'
    <3>1. PendingFor(request[q].target)' = PendingFor(request[q].target)
      BY <2>1 DEF PendingFor
    <3>2. Changeable(request[q])' <=> Changeable(request[q])
      BY <2>1, ChangeableKept
    <3> QED
      BY <2>1, <3>1, <3>2 DEF MembersInv, Relies, Orderly, ManagerHolds, CheckHolds,
         TargetExists, InvitationHolds, AcceptHolds, EntitlementHolds, Manages, Names, Active
  <2> QED
    BY <2>2, <2>3, <2>4 DEF MembersInv
<1> QED
  BY <1>1, <1>2, <1>3, <1>4, <1>5 DEF MembersNext

\* What every request relies on is so, in every state.
THEOREM MembersInvariant == MembersSpec => []MembersInv
<1>1. MembersInit => MembersInv
  BY MembersInitInv
<1>2. MembersInv /\ [MembersNext]_membersVars => MembersInv'
  BY MembersStepInv
<1> QED
  BY <1>1, <1>2, PTL DEF MembersSpec

\* The tables, transactions and locks keep their shape.
THEOREM MembersTypes == MembersSpec => []MembersTypeOK
<1>1. MembersInv => MembersTypeOK
  BY DEF MembersInv
<1> QED
  BY <1>1, MembersInvariant, PTL

\* The workspace never loses its last active owner, whatever is requested at
\* the same time (member_service.py, _active_owner_count).
THEOREM OwnerAlwaysRemains == MembersSpec => []OwnerRemains
<1>1. MembersInv => OwnerRemains
  BY DEF MembersInv
<1> QED
  BY <1>1, MembersInvariant, PTL

\* The unique index on pending invitations is never what refuses an
\* invitation or a reissue (member_service.py, create_invitation).
THEOREM InvitationsNeverConflict == MembersSpec => []InviteNeverConflicts
<1>1. MembersInv => InviteNeverConflicts
  <2> SUFFICES ASSUME MembersInv, NEW r \in Requests, At(r, "commit"),
                      request[r].op \in {"invite", "reissue"}
               PROVE  PendingFor(request[r].target)
                        \subseteq (IF request[r].op = "reissue" THEN {request[r].inv} ELSE {})
    BY DEF InviteNeverConflicts
  <2>1. Relies(r) /\ request[r].at = "commit" /\ request[r].inv \in Invitations
    BY UnderWay, TypeParts DEF MembersInv, At
  <2>2. CASE request[r].op = "invite"
    BY <2>1, <2>2 DEF Relies, EntitlementHolds
  <2>3. CASE request[r].op = "reissue"
    <3>1. /\ invitations[request[r].inv].status = "PENDING"
          /\ invitations[request[r].inv].email = request[r].target
      BY <2>1, <2>3 DEF Relies, InvitationHolds, Names
    <3> QED
      BY <2>1, <2>3, <3>1 DEF MembersInv, PendingUnique, PendingFor
  <2> QED
    BY <2>2, <2>3
<1> QED
  BY <1>1, MembersInvariant, PTL

\* Which steps write memberships, and which invitations.
LEMMA WhoWrites ==
    ASSUME [MembersNext]_membersVars
    PROVE  /\ \/ members' = members
              \/ \E r \in Requests : CommitAccept(r) \/ CommitRole(r) \/ CommitStatus(r)
           /\ \/ invitations' = invitations
              \/ \E r \in Requests :
                    \/ \E i \in Invitations : CommitInvite(r, i) \/ CommitReissue(r, i)
                    \/ CommitWithdraw(r) \/ CommitAccept(r)
<1>1. ASSUME NEW r \in Requests, Begin(r)
      PROVE  members' = members /\ invitations' = invitations
  BY <1>1 DEF Begin, BeginInvite, BeginReissue, BeginWithdraw, BeginAccept, BeginRole,
     BeginStatus, BeginSelect, Start, rows
<1>2. ASSUME NEW r \in Requests, Refuse(r)
      PROVE  members' = members /\ invitations' = invitations
  BY <1>2 DEF Refuse, rows
<1>3. ASSUME NEW r \in Requests, Progress(r)
      PROVE  /\ \/ members' = members
                \/ CommitAccept(r) \/ CommitRole(r) \/ CommitStatus(r)
             /\ \/ invitations' = invitations
                \/ \E i \in Invitations : CommitInvite(r, i) \/ CommitReissue(r, i)
                \/ CommitWithdraw(r) \/ CommitAccept(r)
  <2>1. CASE ManagerLostAuthority(r) \/ InviteRefused(r) \/ InvitationUnusable(r)
             \/ MemberUnchangeable(r) \/ AlreadyInvited(r) \/ NoSeatLeft(r)
    BY <1>2, <2>1 DEF ManagerLostAuthority, InviteRefused, InvitationUnusable,
       MemberUnchangeable, AlreadyInvited, NoSeatLeft
  <2>2. CASE LockWorkspace(r) \/ LockEntitlement(r) \/ LockInvitation(r) \/ LockMember(r)
             \/ CountMembers(r) \/ CountPending(r)
    BY <2>2 DEF LockWorkspace, LockEntitlement, LockInvitation, LockMember,
       CountMembers, CountPending, rows
  <2>3. CASE CommitSelect(r)
    BY <2>3 DEF CommitSelect
  <2>4. CASE CommitRole(r) \/ CommitStatus(r)
    BY <2>4 DEF CommitRole, CommitStatus
  <2>5. CASE CommitWithdraw(r) \/ CommitAccept(r)
    BY <2>5 DEF CommitWithdraw
  <2>6. ASSUME NEW i \in Invitations, CommitInvite(r, i) \/ CommitReissue(r, i)
        PROVE  members' = members
    BY <2>6 DEF CommitInvite, CommitReissue
  <2> QED
    BY <1>3, <2>1, <2>2, <2>3, <2>4, <2>5, <2>6 DEF Progress
<1>4. ASSUME NEW r \in Requests, Fail(r) \/ BreakDeadlock(r)
      PROVE  members' = members /\ invitations' = invitations
  BY <1>2, <1>4 DEF Fail, BreakDeadlock
<1>5. ASSUME NEW i \in Invitations, Expire(i)
      PROVE  members' = members /\ invitations' = invitations
  BY <1>5 DEF Expire
<1>6. ASSUME UNCHANGED membersVars
      PROVE  members' = members /\ invitations' = invitations
  BY <1>6 DEF membersVars, rows
<1> QED
  BY <1>1, <1>3, <1>4, <1>5, <1>6 DEF MembersNext

\* Only an owner makes or unmakes an owner among the members: the authority
\* read under the lock of the workspace row is still there at the commit
\* (member_service.py, _lock_workspace_management, _require_owner_authority).
THEOREM OnlyOwnersTouchOwners == MembersSpec => OwnersTouchOwners
<1> DEFINE Body ==
      \A u \in Users :
         (Owner(u) # Owner(u)') =>
            \E r \in Requests :
               /\ request[r] # Idle /\ request'[r] = Idle
               /\ \/ request[r].op = "accept" /\ request[r].target = u
                  \/ request[r].op \in {"role", "status"} /\ Owner(request[r].actor)
<1>1. MembersInv /\ [MembersNext]_membersVars => [Body]_membersVars
  <2> SUFFICES ASSUME MembersInv, [MembersNext]_membersVars,
                      NEW u \in Users, Owner(u) # Owner(u)'
               PROVE  \E r \in Requests :
                        /\ request[r] # Idle /\ request'[r] = Idle
                        /\ \/ request[r].op = "accept" /\ request[r].target = u
                           \/ request[r].op \in {"role", "status"}
                                /\ Owner(request[r].actor)
    OBVIOUS
  <2>1. members' # members
    BY DEF Owner, Active
  <2>2. PICK r \in Requests : CommitAccept(r) \/ CommitRole(r) \/ CommitStatus(r)
    BY <2>1, WhoWrites
  <2>3. PICK op \in {"accept", "role", "status"} : Commits(r, op)
    BY <2>2 DEF CommitAccept, CommitRole, CommitStatus
  <2>4. /\ RowsOK /\ Relies(r) /\ request[r].op = op /\ request[r].at = "commit"
        /\ request[r] # Idle /\ request'[r] = Idle /\ request[r].target \in Users
    <3>1. op \in Operations
      BY DEF Operations
    <3> QED
      BY <2>3, <3>1, CommitFacts
  <2>5. u = request[r].target
    <3> SUFFICES ASSUME u # request[r].target PROVE members'[u] = members[u]
      BY DEF Owner, Active
    <3> QED
      BY <2>2, <2>4 DEF CommitAccept, CommitRole, CommitStatus, RowsOK
  <2>6. CASE op = "accept"
    BY <2>4, <2>5, <2>6
  <2>7. ASSUME op # "accept" PROVE Owner(request[r].actor)
    <3>1. /\ Active(request[r].actor)
          /\ members[request[r].actor].role = request[r].authority
      BY <2>4, <2>7 DEF Relies, ManagerHolds, Manages
    <3>2. Changeable(request[r])
      BY <2>4, <2>7 DEF Relies, CheckHolds, Manages
    <3>3. request[r].authority = "OWNER"
      <4>1. CASE op = "role"
        <5>1. CommitRole(r)
          BY <2>2, <2>4, <4>1 DEF CommitAccept, CommitStatus, Commits
        <5>2. members'[u].role = request[r].role /\ members'[u].status = members[u].status
          BY <2>4, <2>5, <5>1 DEF CommitRole, RowsOK
        <5>3. OwnerAuthorityHeld(request[r].authority, members[u].role, request[r].role)
          BY <2>4, <2>5, <3>2, <4>1 DEF Changeable, RoleChangeable
        <5> QED
          BY <5>2, <5>3 DEF OwnerAuthorityHeld, Owner, Active
      <4>2. CASE op = "status"
        <5>1. CommitStatus(r)
          BY <2>2, <2>4, <4>2 DEF CommitAccept, CommitRole, Commits
        <5>2. members'[u].role = members[u].role
          BY <2>4, <2>5, <5>1 DEF CommitStatus, RowsOK
        <5>3. OwnerAuthorityHeld(request[r].authority, members[u].role, "MEMBER")
          BY <2>4, <2>5, <3>2, <4>2 DEF Changeable, StatusChangeable
        <5> QED
          BY <5>2, <5>3 DEF OwnerAuthorityHeld, Owner, Active
      <4> QED
        BY <2>7, <4>1, <4>2
    <3> QED
      BY <3>1, <3>3 DEF Owner
  <2> QED
    BY <2>4, <2>6, <2>7
<1>2. MembersSpec => [][Body]_membersVars
  BY <1>1, MembersInvariant, PTL DEF MembersSpec
<1> QED
  BY <1>2 DEF OwnersTouchOwners

\* An invitation that was used or withdrawn stays as it is: the lock of its
\* row lets only one of the requests that race for it win
\* (member_service.py, accept_invitation, revoke_invitation, reissue_invitation).
THEOREM InvitationsSettle == MembersSpec => SettledInvitations
<1> DEFINE Body ==
      \A i \in Invitations :
         invitations[i].status \in {"ACCEPTED", "REVOKED"} =>
            invitations'[i] = invitations[i]
<1>1. MembersInv /\ [MembersNext]_membersVars => [Body]_membersVars
  <2> SUFFICES ASSUME MembersInv, [MembersNext]_membersVars, NEW j \in Invitations,
                      invitations[j].status \in {"ACCEPTED", "REVOKED"},
                      invitations' # invitations
               PROVE  invitations'[j] = invitations[j]
    OBVIOUS
  <2>1. PICK r \in Requests :
           \/ \E i \in Invitations : CommitInvite(r, i) \/ CommitReissue(r, i)
           \/ CommitWithdraw(r) \/ CommitAccept(r)
    BY WhoWrites
  <2>2. PICK op \in {"invite", "reissue", "withdraw", "accept"} : Commits(r, op)
    BY <2>1 DEF CommitInvite, CommitReissue, CommitWithdraw, CommitAccept
  <2>3. /\ RowsOK /\ Relies(r) /\ request[r].op = op /\ request[r].at = "commit"
    <3>1. op \in Operations
      BY DEF Operations
    <3> QED
      BY <2>2, <3>1, CommitFacts
  <2>4. op # "invite" => invitations[request[r].inv].status = "PENDING"
    BY <2>3 DEF Relies, InvitationHolds, Names
  <2>5. op # "invite" => request[r].inv # j
    BY <2>4
  <2>6. ASSUME NEW i \in Invitations, CommitInvite(r, i) \/ CommitReissue(r, i)
        PROVE  invitations'[j] = invitations[j]
    <3>1. PICK role : Insert(i, request[r], request[r].target, role)
      BY <2>6 DEF CommitInvite, CommitReissue
    <3>2. i # j
      BY <3>1 DEF Insert
    <3>3. ~(request[r].op = "reissue" /\ j = request[r].inv)
      BY <2>3, <2>5
    <3> QED
      BY <3>1, <3>2, <3>3 DEF Insert
  <2>7. CASE CommitWithdraw(r) \/ CommitAccept(r)
    <3>1. request[r].inv # j
      BY <2>3, <2>5, <2>7 DEF CommitWithdraw, CommitAccept, Commits
    <3> QED
      BY <2>3, <2>7, <3>1 DEF CommitWithdraw, CommitAccept, RowsOK
  <2> QED
    BY <2>1, <2>6, <2>7
<1>2. MembersSpec => [][Body]_membersVars
  BY <1>1, MembersInvariant, PTL DEF MembersSpec
<1> QED
  BY <1>2 DEF SettledInvitations

-----------------------------------------------------------------------------
(* How each step changes the requests and the locks.                       *)

\* r goes on to step s with the same operation, having counted n members.
Advances(r, s, n) ==
    /\ \A q \in Requests \ {r} : request'[q] = request[q]
    /\ request[r] # Idle /\ request'[r] # Idle
    /\ request'[r].op = request[r].op /\ request'[r].at = s /\ request'[r].seats = n
    /\ request'[r].target = request[r].target /\ request'[r].inv = request[r].inv
    /\ request'[r].status = request[r].status /\ request'[r].now = request[r].now

LEMMA GoesOn ==
    ASSUME RequestsOK, NEW r \in Requests, request[r] # Idle,
           NEW s \in Steps, NEW x \in Roles, NEW n \in Nat,
           \/ request' = [request EXCEPT ![r].at = s] /\ n = request[r].seats
           \/ request' = [request EXCEPT ![r].at = s, ![r].authority = x]
                /\ n = request[r].seats
           \/ request' = [request EXCEPT ![r].at = s, ![r].seats = n]
    PROVE  Advances(r, s, n)
<1> DEFINE Form(e, k) == CASE k = 1 -> [e EXCEPT !.at = s]
                           [] k = 2 -> [e EXCEPT !.at = s, !.authority = x]
                           [] OTHER -> [e EXCEPT !.at = s, !.seats = n]
           Kept(e, t) == /\ t.op = e.op /\ t.at = s /\ t.target = e.target
                         /\ t.inv = e.inv /\ t.status = e.status /\ t.now = e.now
                         /\ t # Idle
           Moved(k) == /\ request'[r] = Form(request[r], k)
                       /\ \A q \in Requests \ {r} : request'[q] = request[q]
<1>1. \A e \in Transactions : /\ Kept(e, [e EXCEPT !.at = s])
                              /\ Kept(e, [e EXCEPT !.at = s, !.authority = x])
                              /\ Kept(e, [e EXCEPT !.at = s, !.seats = n])
  BY DEF Transactions, Idle, Operations
<1>2. request[r] \in Transactions
  BY UnderWay
<1>3. \A e \in Transactions : /\ [e EXCEPT !.at = s].seats = e.seats
                              /\ [e EXCEPT !.at = s, !.authority = x].seats = e.seats
                              /\ [e EXCEPT !.at = s, !.seats = n].seats = n
  BY DEF Transactions
<1>4. request \in [Requests -> Transactions \cup {Idle}]
  BY DEF RequestsOK
<1>5. \A k \in {1, 2, 3} : Kept(request[r], Form(request[r], k))
  <2> HIDE DEF Kept
  <2> QED
    BY <1>1, <1>2
<1>6. PICK k \in {1, 2, 3} : /\ Moved(k)
                             /\ Form(request[r], k).seats = n
  <2>1. CASE request' = [request EXCEPT ![r].at = s] /\ n = request[r].seats
    <3>1. Moved(1)
      BY <1>4, <2>1
    <3>2. Form(request[r], 1).seats = n
      BY <1>2, <1>3, <2>1
    <3> QED
      BY <3>1, <3>2
  <2>2. CASE /\ request' = [request EXCEPT ![r].at = s, ![r].authority = x]
             /\ n = request[r].seats
    <3>1. Moved(2)
      BY <1>4, <2>2
    <3>2. Form(request[r], 2).seats = n
      BY <1>2, <1>3, <2>2
    <3> QED
      BY <3>1, <3>2
  <2>3. CASE request' = [request EXCEPT ![r].at = s, ![r].seats = n]
    <3>1. Form(request[r], 3) = [request[r] EXCEPT !.at = s, !.seats = n]
      OBVIOUS
    <3>2. request'[r] = [request[r] EXCEPT !.at = s, !.seats = n]
      BY <1>4, <2>3
    <3>3. \A q \in Requests \ {r} : request'[q] = request[q]
      BY <1>4, <2>3
    <3>4. Moved(3)
      BY <3>1, <3>2, <3>3
    <3>5. [request[r] EXCEPT !.at = s, !.seats = n].seats = n
      BY <1>2, <1>3
    <3>6. Form(request[r], 3).seats = n
      <4> HIDE DEF Form
      <4> QED
        BY <3>1, <3>5
    <3> QED
      BY <3>4, <3>6
  <2> QED
    BY <2>1, <2>2, <2>3
<1> HIDE DEF Form
<1> QED
  BY <1>5, <1>6 DEF Advances

\* The steps that are not the last of a request.
Onward(r) ==
    \/ LockWorkspace(r) \/ LockEntitlement(r) \/ LockInvitation(r) \/ LockMember(r)
    \/ CountMembers(r) \/ CountPending(r)

\* From which step to which, and the lock taken.
Takes(r, s, n) ==
    \/ /\ request[r].at = "workspace" /\ s = "member" /\ Manages(r)
       /\ UNCHANGED <<entitlementLock, invitationLock, memberLock>>
    \/ /\ request[r].at = "entitlement"
       /\ s = IF request[r].op = "reissue" THEN "invitation" ELSE "count_members"
       /\ entitlementLock = Free /\ entitlementLock' = r
       /\ UNCHANGED <<workspaceLock, invitationLock, memberLock>>
    \/ /\ request[r].at = "invitation" /\ Names(r)
       /\ s = CASE request[r].op = "reissue" -> "count_members"
                [] request[r].op = "accept" -> "member"
                [] OTHER -> "commit"
       /\ invitationLock' = [invitationLock EXCEPT ![request[r].inv] = r]
       /\ UNCHANGED <<workspaceLock, entitlementLock, memberLock>>
    \/ /\ request[r].at = "member" /\ (Manages(r) \/ request[r].op = "accept")
       /\ s = IF request[r].op = "status" /\ request[r].status = "active"
              THEN "entitlement" ELSE "commit"
       /\ memberLock' \in {memberLock, [memberLock EXCEPT ![request[r].target] = r]}
       /\ UNCHANGED <<workspaceLock, entitlementLock, invitationLock>>
    \/ /\ request[r].at = "count_members" /\ s = "count_pending"
       /\ n = Cardinality(ActiveMembers)
       /\ UNCHANGED locks
    \/ /\ request[r].at = "count_pending" /\ s = "commit"
       /\ SeatsUsed(request[r]) < SeatLimit
       /\ UNCHANGED locks

LEMMA OnwardSteps ==
    ASSUME MembersInv, NEW r \in Requests, Onward(r)
    PROVE  /\ \E s \in Steps, n \in Nat : Advances(r, s, n) /\ Takes(r, s, n)
           /\ UNCHANGED <<rows, started, straddled>>
<1>1. RequestsOK /\ RowsOK
  BY TypeParts DEF MembersInv
<1>2. request[r] # Idle
  BY DEF Onward, LockWorkspace, LockEntitlement, LockInvitation, LockMember, CountMembers,
         CountPending, At
<1>3. /\ request[r].op \in Operations /\ request[r].seats \in Nat
      /\ request[r].actor \in Users /\ Relies(r)
  BY <1>1, <1>2, UnderWay DEF MembersInv
<1>4. {"workspace", "entitlement", "invitation", "member", "count_members",
       "count_pending", "commit"} \subseteq Steps /\ "MEMBER" \in Roles
  BY DEF Steps, Roles
<1> SUFFICES \E s \in Steps, n \in Nat : Advances(r, s, n) /\ Takes(r, s, n)
  BY DEF Onward, LockWorkspace, LockEntitlement, LockInvitation, LockMember, CountMembers,
         CountPending, locks
<1>5. CASE LockWorkspace(r)
  <2>1. Advances(r, "member", request[r].seats)
    BY <1>1, <1>2, <1>3, <1>4, <1>5, GoesOn DEF LockWorkspace, RowsOK
  <2>2. Takes(r, "member", request[r].seats)
    BY <1>3, <1>5 DEF LockWorkspace, Takes, At, Relies, Orderly, StepsOf, Operations, Manages
  <2> QED
    BY <1>3, <1>4, <2>1, <2>2
<1>6. CASE LockEntitlement(r)
  <2> DEFINE s == IF request[r].op = "reissue" THEN "invitation" ELSE "count_members"
  <2>1. s \in Steps
    BY <1>4
  <2>2. Takes(r, s, request[r].seats)
    BY <1>6 DEF LockEntitlement, Takes, At
  <2>3. request' = [request EXCEPT ![r].at = s]
    BY <1>6 DEF LockEntitlement
  <2> HIDE DEF s
  <2>4. Advances(r, s, request[r].seats)
    BY <1>1, <1>2, <1>3, <1>4, <2>1, <2>3, GoesOn
  <2> QED
    BY <1>3, <2>1, <2>2, <2>4
<1>7. CASE LockInvitation(r)
  <2> DEFINE s == CASE request[r].op = "reissue" -> "count_members"
                    [] request[r].op = "accept" -> "member"
                    [] OTHER -> "commit"
  <2>1. s \in Steps
    BY <1>4
  <2>2. request' = [request EXCEPT ![r].at = s]
    BY <1>7 DEF LockInvitation
  <2>3. Names(r)
    BY <1>3, <1>7 DEF LockInvitation, At, Relies, Orderly, StepsOf, Operations, Names
  <2>4. Takes(r, s, request[r].seats)
    <3>1. /\ request[r].at = "invitation"
          /\ invitationLock' = [invitationLock EXCEPT ![request[r].inv] = r]
          /\ UNCHANGED <<workspaceLock, entitlementLock, memberLock>>
      BY <1>7 DEF LockInvitation, At
    <3> QED
      BY <2>3, <3>1 DEF Takes
  <2> HIDE DEF s
  <2>5. Advances(r, s, request[r].seats)
    BY <1>1, <1>2, <1>3, <1>4, <2>1, <2>2, GoesOn
  <2> QED
    BY <1>3, <2>1, <2>4, <2>5
<1>8. CASE LockMember(r)
  <2> DEFINE s == IF request[r].op = "status" /\ request[r].status = "active"
                  THEN "entitlement" ELSE "commit"
  <2>1. s \in Steps
    BY <1>4
  <2>2. request' = [request EXCEPT ![r].at = s]
    BY <1>8 DEF LockMember, Continue
  <2>3. Manages(r) \/ request[r].op = "accept"
    BY <1>3, <1>8 DEF LockMember, At, Relies, Orderly, StepsOf, Operations, Manages
  <2>4. Takes(r, s, request[r].seats)
    BY <1>8, <2>3 DEF LockMember, Takes, At
  <2> HIDE DEF s
  <2>5. Advances(r, s, request[r].seats)
    BY <1>1, <1>2, <1>3, <1>4, <2>1, <2>2, GoesOn
  <2> QED
    BY <1>3, <2>1, <2>4, <2>5
<1>9. CASE CountMembers(r)
  <2>1. Advances(r, "count_pending", Cardinality(ActiveMembers))
    BY <1>1, <1>2, <1>4, <1>9, CountedMembers, GoesOn DEF CountMembers
  <2>2. Takes(r, "count_pending", Cardinality(ActiveMembers))
    BY <1>9 DEF CountMembers, Takes, At
  <2> QED
    BY <1>4, <2>1, <2>2, CountedMembers
<1>10. CASE CountPending(r)
  <2>1. Advances(r, "commit", 0)
    BY <1>1, <1>2, <1>4, <1>10, GoesOn DEF CountPending
  <2>2. Takes(r, "commit", 0)
    BY <1>10 DEF CountPending, Takes, At
  <2> QED
    BY <1>4, <2>1, <2>2
<1> QED
  BY <1>5, <1>6, <1>7, <1>8, <1>9, <1>10 DEF Onward

\* Every step begins a request, takes one on, ends one, or touches neither
\* requests nor locks.
Begun(r) ==
    /\ request[r] = Idle /\ request'[r] # Idle /\ JustBegun(request'[r])
    /\ \A q \in Requests \ {r} : request'[q] = request[q]
    /\ UNCHANGED locks /\ UNCHANGED <<rows, straddled>>

Committed(r) ==
    \/ \E i \in Invitations : CommitInvite(r, i) \/ CommitReissue(r, i)
    \/ CommitWithdraw(r) \/ CommitAccept(r)
    \/ CommitRole(r) \/ CommitStatus(r) \/ CommitSelect(r)

LEMMA BeginSteps ==
    ASSUME MembersInv, NEW r \in Requests, Begin(r)
    PROVE  Begun(r)
<1>1. RequestsOK /\ RowsOK
  BY TypeParts DEF MembersInv
<1>2. PICK t \in Transactions : Start(r, t) /\ JustBegun(t)
  BY BeginStarts DEF MembersInv
<1>3. t # Idle
  BY DEF Transactions, Operations, Idle
<1> QED
  BY <1>1, <1>2, <1>3 DEF Start, Begun, JustBegun, RequestsOK

LEMMA StepKinds ==
    ASSUME MembersInv, [MembersNext]_membersVars
    PROVE  \/ \E r \in Requests : \/ Begun(r) \/ Onward(r)
                                  \/ Refuse(r) \/ Committed(r)
           \/ \E i \in Invitations : Expire(i)
           \/ UNCHANGED membersVars
<1>1. ASSUME NEW r \in Requests, Progress(r)
      PROVE  Onward(r) \/ Refuse(r) \/ Committed(r)
  BY <1>1 DEF Progress, Onward, Committed, ManagerLostAuthority, InviteRefused,
     InvitationUnusable, MemberUnchangeable, AlreadyInvited, NoSeatLeft
<1>2. ASSUME NEW r \in Requests, Fail(r) \/ BreakDeadlock(r)
      PROVE  Refuse(r)
  BY <1>2 DEF Fail, BreakDeadlock
<1> QED
  BY <1>1, <1>2, BeginSteps DEF MembersNext

LEMMA CommittedEnds ==
    ASSUME NEW r \in Requests, Committed(r)
    PROVE  End(r) /\ At(r, "commit")
  BY DEF Committed, CommitInvite, CommitReissue, CommitWithdraw, CommitAccept, CommitRole,
     CommitStatus, CommitSelect, Commits

-----------------------------------------------------------------------------
(* Which requests can hold a row, and no deadlock without a manager.       *)

Counting == {"count_members", "count_pending", "commit"}

\* The requests past the lock of the entitlement, an invitation, a member.
PastEntitlement(q) ==
    /\ request[q] # Idle
    /\ request[q].at \in Counting
         \/ (request[q].op = "reissue" /\ request[q].at = "invitation")

PastInvitation(q) ==
    /\ request[q] # Idle
    /\ request[q].at \in Counting
         \/ (request[q].op = "accept" /\ request[q].at = "member")

PastMember(q) == request[q] # Idle /\ (Manages(q) \/ request[q].at = "commit")

\* A row is locked by nobody but a request that is past it.
LocksHeld ==
    \A q \in Requests :
        /\ entitlementLock = q => PastEntitlement(q)
        /\ \A i \in Invitations : invitationLock[i] = q => PastInvitation(q)
        /\ \A u \in Users : memberLock[u] = q => PastMember(q)

LEMMA LocksHeldKept ==
    ASSUME LocksHeld, NEW r \in Requests,
           \A q \in Requests \ {r} :
              /\ request'[q] = request[q]
              /\ entitlementLock' = q => entitlementLock = q
              /\ \A i \in Invitations : invitationLock'[i] = q => invitationLock[i] = q
              /\ \A u \in Users : memberLock'[u] = q => memberLock[u] = q,
           entitlementLock' = r => PastEntitlement(r)',
           \A i \in Invitations : invitationLock'[i] = r => PastInvitation(r)',
           \A u \in Users : memberLock'[u] = r => PastMember(r)'
    PROVE  LocksHeld'
<1>1. ASSUME NEW q \in Requests \ {r}
      PROVE  /\ PastEntitlement(q)' <=> PastEntitlement(q)
             /\ PastInvitation(q)' <=> PastInvitation(q)
             /\ PastMember(q)' <=> PastMember(q)
  BY DEF PastEntitlement, PastInvitation, PastMember, Manages
<1> QED
  BY <1>1 DEF LocksHeld

LEMMA LocksHeldStep ==
    ASSUME MembersInv, LocksHeld, [MembersNext]_membersVars
    PROVE  LocksHeld'
<1>0. RequestsOK /\ Free \notin Requests
  BY TypeParts, MembersAssumption DEF MembersInv
<1>1. ASSUME NEW r \in Requests, Begun(r) PROVE LocksHeld'
  <2>1. /\ entitlementLock # r
        /\ \A i \in Invitations : invitationLock[i] # r
        /\ \A u \in Users : memberLock[u] # r
    BY <1>1 DEF Begun, LocksHeld, PastEntitlement, PastInvitation, PastMember
  <2> QED
    BY <1>1, <2>1, LocksHeldKept DEF Begun, locks
<1>2. ASSUME NEW r \in Requests, End(r) PROVE LocksHeld'
  <2>1. /\ entitlementLock' = IF entitlementLock = r THEN Free ELSE entitlementLock
        /\ \A i \in Invitations : invitationLock'[i] =
              IF invitationLock[i] = r THEN Free ELSE invitationLock[i]
        /\ \A u \in Users : memberLock'[u] = IF memberLock[u] = r THEN Free ELSE memberLock[u]
        /\ \A q \in Requests \ {r} : request'[q] = request[q]
    BY <1>0, <1>2 DEF End, Released, RequestsOK
  <2> QED
    BY <1>0, <2>1, LocksHeldKept
<1>3. ASSUME NEW r \in Requests, Onward(r) PROVE LocksHeld'
  <2>1. PICK s \in Steps, n \in Nat : Advances(r, s, n) /\ Takes(r, s, n)
    BY <1>3, OnwardSteps
  <2>2. Relies(r) /\ request[r].op \in Operations
    BY <1>0, <2>1, UnderWay DEF MembersInv, Advances
  <2>3. /\ entitlementLock' = r => PastEntitlement(r)'
        /\ \A i \in Invitations : invitationLock'[i] = r => PastInvitation(r)'
        /\ \A u \in Users : memberLock'[u] = r => PastMember(r)'
    <3>1. CASE request[r].at = "workspace"
      BY <2>1, <3>1 DEF Advances, Takes, LocksHeld, PastEntitlement, PastInvitation,
         PastMember, Manages, Counting
    <3>2. CASE request[r].at = "entitlement"
      BY <2>1, <3>2 DEF Advances, Takes, LocksHeld, PastEntitlement, PastInvitation,
         PastMember, Manages, Counting, locks
    <3>3. CASE request[r].at = "invitation"
      BY <1>0, <2>1, <3>3 DEF Advances, Takes, LocksHeld, PastEntitlement, PastInvitation,
         PastMember, Manages, Counting, Names, RequestsOK
    <3>4. CASE request[r].at = "member"
      BY <1>0, <2>1, <3>4 DEF Advances, Takes, LocksHeld, PastEntitlement, PastInvitation,
         PastMember, Manages, Counting, RequestsOK
    <3>5. CASE request[r].at \in {"count_members", "count_pending"}
      BY <2>1, <3>5 DEF Advances, Takes, LocksHeld, PastEntitlement, PastInvitation,
         PastMember, Manages, Counting, locks
    <3> QED
      BY <2>1, <3>1, <3>2, <3>3, <3>4, <3>5 DEF Takes
  <2>4. \A q \in Requests \ {r} :
           /\ request'[q] = request[q]
           /\ entitlementLock' = q => entitlementLock = q
           /\ \A i \in Invitations : invitationLock'[i] = q => invitationLock[i] = q
           /\ \A u \in Users : memberLock'[u] = q => memberLock[u] = q
    <3> HIDE DEF Manages, Names, SeatsUsed, ActiveMembers
    <3> QED
      BY <1>0, <2>1 DEF Advances, Takes, RequestsOK, locks
  <2> QED
    BY <2>3, <2>4, LocksHeldKept
<1>4. ASSUME request' = request, UNCHANGED locks PROVE LocksHeld'
  BY <1>4 DEF locks, LocksHeld, PastEntitlement, PastInvitation, PastMember, Manages
<1>5. ASSUME NEW i \in Invitations, Expire(i) PROVE LocksHeld'
  BY <1>4, <1>5 DEF Expire
<1>6. ASSUME UNCHANGED membersVars PROVE LocksHeld'
  BY <1>4, <1>6 DEF membersVars, locks
<1> QED
  BY <1>1, <1>2, <1>3, <1>5, <1>6, StepKinds, CommittedEnds DEF Refuse

THEOREM LocksAlwaysHeld == MembersSpec => []LocksHeld
<1>1. MembersInit => LocksHeld
  BY MembersAssumption DEF MembersInit, LocksHeld
<1>2. MembersInv /\ LocksHeld /\ [MembersNext]_membersVars => LocksHeld'
  BY LocksHeldStep
<1> QED
  BY <1>1, <1>2, MembersInvariant, PTL DEF MembersSpec

\* Requests that wait for each other have among them the manager who holds the
\* workspace row: invitations, reissues, withdrawals, acceptances and
\* selections lock the entitlement, the invitation and the member in that order
\* (member_service.py).
THEOREM OnlyManagersDeadlock == MembersSpec => []DeadlocksHaveManager
<1>1. MembersInv /\ LocksHeld => DeadlocksHaveManager
  <2> SUFFICES ASSUME MembersInv, LocksHeld, NEW cycle \in SUBSET Requests, cycle # {},
                      {WaitsFor(r) : r \in cycle} = cycle, workspaceLock \notin cycle
               PROVE  FALSE
    BY DEF DeadlocksHaveManager
  <2>1. ASSUME NEW q \in cycle
        PROVE  /\ request[q] # Idle /\ WaitsFor(q) \in cycle
               /\ \/ request[q].at = "entitlement" /\ WaitsFor(q) = entitlementLock
                  \/ /\ request[q].at = "invitation"
                     /\ WaitsFor(q) = invitationLock[request[q].inv]
                  \/ /\ request[q].at = "member"
                     /\ WaitsFor(q) = memberLock[request[q].target]
               /\ request[q].inv \in Invitations /\ request[q].target \in Users
               /\ ~Manages(q)
    <3>1. WaitsFor(q) \in cycle /\ WaitsFor(q) # Free /\ WaitsFor(q) # workspaceLock
      BY MembersAssumption
    <3>2. request[q] # Idle
      BY <3>1 DEF WaitsFor, At
    <3>3. /\ request[q].at \in Steps /\ Relies(q)
          /\ request[q].inv \in Invitations /\ request[q].target \in Users
      BY <3>2, TypeParts, UnderWay DEF MembersInv
    <3>4. \/ request[q].at = "entitlement" /\ WaitsFor(q) = entitlementLock
          \/ /\ request[q].at = "invitation"
             /\ WaitsFor(q) = invitationLock[request[q].inv]
          \/ /\ request[q].at = "member"
             /\ WaitsFor(q) = memberLock[request[q].target]
      BY <3>1, <3>2, <3>3 DEF WaitsFor, At, Steps
    <3>5. ~Manages(q)
      BY <3>3, <3>4 DEF Relies, ManagerHolds
    <3> QED
      BY <3>1, <3>2, <3>3, <3>4, <3>5
  <2>2. ASSUME NEW q \in cycle PROVE request[q].at # "member"
    <3> DEFINE r == WaitsFor(q)
    <3>1. r \in cycle /\ r \in Requests /\ ~Manages(r) /\ WaitsFor(r) \in cycle
          /\ request[r].at \in {"entitlement", "invitation", "member"}
      BY <2>1
    <3>2. ~PastMember(r)
      BY <3>1 DEF PastMember
    <3>3. request[q].at = "member" =>
            r = memberLock[request[q].target] /\ request[q].target \in Users
      BY <2>1
    <3> HIDE DEF r
    <3> QED
      BY <3>1, <3>2, <3>3 DEF LocksHeld
  <2>3. ASSUME NEW q \in cycle PROVE request[q].at # "invitation"
    <3> DEFINE r == WaitsFor(q)
    <3>1. r \in cycle /\ r \in Requests
          /\ request[r].at \in {"entitlement", "invitation"}
      BY <2>1, <2>2
    <3>2. ~PastInvitation(r)
      BY <3>1 DEF PastInvitation, Counting
    <3>3. request[q].at = "invitation" =>
            r = invitationLock[request[q].inv] /\ request[q].inv \in Invitations
      BY <2>1
    <3> HIDE DEF r
    <3> QED
      BY <3>1, <3>2, <3>3 DEF LocksHeld
  <2>4. \A q \in cycle : request[q].at # "entitlement"
    BY <2>1, <2>3 DEF LocksHeld, PastEntitlement, Counting
  <2> QED
    BY <2>1, <2>2, <2>3, <2>4
<1> QED
  BY <1>1, MembersInvariant, LocksAlwaysHeld, PTL

-----------------------------------------------------------------------------
(* The seats that requests have counted.                                   *)

\* The requests that are about to take a seat, and the invitation replaced.
Grows(q) ==
    \/ request[q].op \in {"invite", "reissue"}
    \/ request[q].op = "status" /\ request[q].status = "active"

Replaced(q) == IF request[q].op = "reissue" THEN {request[q].inv} ELSE {}

\* Whoever grows the workspace counts alone, under the entitlement row, and
\* what it has counted is still enough: while it counts nobody else is let in
\* (an acceptance then would straddle the count), and once it has counted an
\* acceptance only turns a seat reserved into a seat taken.
CountHolds(q) ==
    request[q] # Idle =>
        /\ request[q].now \subseteq expired
        /\ request[q].at \in {"entitlement", "count_members", "count_pending"} => Grows(q)
        /\ Grows(q) /\ request[q].at \in Counting => entitlementLock = q
        /\ ~straddled /\ request[q].at = "count_pending" =>
             Cardinality(ActiveMembers) <= request[q].seats
        /\ ~straddled /\ request[q].at = "commit" /\ Grows(q) =>
             Cardinality(ActiveMembers) + Cardinality(Reserved(expired) \ Replaced(q))
               < SeatLimit

SeatsInv == SeatsReserved /\ \A q \in Requests : CountHolds(q)

LEMMA SeatsFinite ==
    ASSUME RowsOK
    PROVE  /\ IsFiniteSet(ActiveMembers) /\ Cardinality(ActiveMembers) \in Nat
           /\ IsFiniteSet(Reserved(expired)) /\ Cardinality(Reserved(expired)) \in Nat
           /\ \A now : /\ IsFiniteSet(Reserved(now)) /\ Cardinality(Reserved(now)) \in Nat
                       /\ \A S : /\ IsFiniteSet(Reserved(now) \ S)
                                 /\ Cardinality(Reserved(now) \ S) \in Nat
<1>1. IsFiniteSet(Users) /\ IsFiniteSet(Invitations)
  BY MembersAssumption
<1>2. ActiveMembers \subseteq Users /\ \A now : Reserved(now) \subseteq Invitations
  BY DEF ActiveMembers, Reserved
<1>3. /\ IsFiniteSet(ActiveMembers)
      /\ \A now : /\ IsFiniteSet(Reserved(now))
                  /\ \A S : IsFiniteSet(Reserved(now) \ S)
  BY <1>1, <1>2, FS_Subset
<1> QED
  BY <1>3, FS_CardinalityType

LEMMA Smaller ==
    ASSUME NEW S, NEW T, S \subseteq T, IsFiniteSet(T)
    PROVE  /\ IsFiniteSet(S) /\ Cardinality(S) \in Nat /\ Cardinality(T) \in Nat
           /\ Cardinality(S) <= Cardinality(T)
  BY FS_Subset, FS_CardinalityType

LEMMA OneLess ==
    ASSUME NEW S, NEW x \in S, IsFiniteSet(S)
    PROVE  Cardinality(S \ {x}) = Cardinality(S) - 1
  BY FS_RemoveElement

\* A step that neither activates a member nor adds a pending invitation.
LEMMA NoGrowth ==
    ASSUME RowsOK, RequestsOK, SeatsInv,
           ActiveMembers' \subseteq ActiveMembers,
           Reserved(expired)' \subseteq Reserved(expired),
           expired \subseteq expired', ~straddled' => ~straddled
    PROVE  /\ SeatsReserved'
           /\ \A q \in Requests : request'[q] = request[q]
                /\ (entitlementLock = q => entitlementLock' = q) => CountHolds(q)'
<1>1. /\ Cardinality(ActiveMembers') <= Cardinality(ActiveMembers)
      /\ Cardinality(ActiveMembers') \in Nat /\ Cardinality(ActiveMembers) \in Nat
  BY SeatsFinite, Smaller
<1>2. /\ Cardinality(Reserved(expired)') <= Cardinality(Reserved(expired))
      /\ Cardinality(Reserved(expired)') \in Nat /\ Cardinality(Reserved(expired)) \in Nat
  BY SeatsFinite, Smaller
<1>3. SeatsReserved'
  BY <1>1, <1>2, MembersAssumption DEF SeatsInv, SeatsReserved, SeatsTaken
<1>4. ASSUME NEW q \in Requests, request'[q] = request[q],
             entitlementLock = q => entitlementLock' = q
      PROVE  CountHolds(q)'
  <2>1. (Grows(q)' <=> Grows(q)) /\ Replaced(q)' = Replaced(q)
    BY <1>4 DEF Grows, Replaced
  <2>2. /\ Cardinality(Reserved(expired)' \ Replaced(q))
             <= Cardinality(Reserved(expired) \ Replaced(q))
        /\ Cardinality(Reserved(expired)' \ Replaced(q)) \in Nat
        /\ Cardinality(Reserved(expired) \ Replaced(q)) \in Nat
    <3>1. Reserved(expired)' \ Replaced(q) \subseteq Reserved(expired) \ Replaced(q)
      OBVIOUS
    <3> QED
      BY <3>1, SeatsFinite, Smaller
  <2>3. \A x \in Nat : Cardinality(ActiveMembers) <= x => Cardinality(ActiveMembers') <= x
    BY <1>1
  <2>4. /\ Cardinality(ActiveMembers) + Cardinality(Reserved(expired) \ Replaced(q)) < SeatLimit
        => Cardinality(ActiveMembers')
             + Cardinality(Reserved(expired)' \ Replaced(q)) < SeatLimit
    BY <1>1, <2>2, MembersAssumption
  <2>5. request[q] # Idle => request[q].seats \in Nat
    BY UnderWay DEF SeatsInv
  <2> QED
    BY <1>4, <2>1, <2>3, <2>4, <2>5 DEF SeatsInv, CountHolds
<1> QED
  BY <1>3, <1>4

\* The holder of the entitlement row commits: nobody else is counting.
LEMMA HolderCommits ==
    ASSUME RequestsOK, SeatsInv, NEW r \in Requests, End(r), entitlementLock = r,
           expired' = expired, straddled' = straddled,
           NEW q \in Requests
    PROVE  CountHolds(q)'
<1>1. CASE q = r
  BY <1>1 DEF End, RequestsOK, CountHolds
<1>2. CASE q # r
  <2>1. request'[q] = request[q]
    BY <1>2 DEF End, RequestsOK
  <2>2. CountHolds(q) /\ entitlementLock # q
    BY <1>2 DEF SeatsInv
  <2>3. (Grows(q)' <=> Grows(q))
    BY <2>1 DEF Grows
  <2>4. request[q] # Idle => /\ request[q].at \notin {"count_members", "count_pending"}
                             /\ request[q].at = "commit" => ~Grows(q)
    BY <2>2 DEF CountHolds, Counting
  <2> QED
    BY <2>1, <2>2, <2>3, <2>4 DEF CountHolds, Counting
<1> QED
  BY <1>1, <1>2

\* An invitation or a reissue that commits takes the seat it has counted.
LEMMA InsertSeats ==
    ASSUME MembersInv, SeatsInv, NEW r \in Requests, NEW op \in {"invite", "reissue"},
           Commits(r, op), NEW i \in Invitations, NEW role \in Roles,
           Insert(i, request[r], request[r].target, role),
           UNCHANGED <<members, expired, selected, straddled>>
    PROVE  SeatsInv'
<1>1. op \in Operations
  BY DEF Operations
<1>2. /\ RowsOK /\ RequestsOK /\ request[r] # Idle /\ request[r].op = op
      /\ request[r].at = "commit" /\ request[r].inv \in Invitations
      /\ CountHolds(r) /\ End(r)
  BY <1>1, CommitFacts DEF SeatsInv, Commits
<1>3. Grows(r) /\ entitlementLock = r
  BY <1>2 DEF CountHolds, Grows, Counting
<1>4. \A q \in Requests : CountHolds(q)'
  BY <1>2, <1>3, HolderCommits
<1>5. ActiveMembers' = ActiveMembers
  BY DEF ActiveMembers, Active
<1>6. Reserved(expired)' \subseteq (Reserved(expired) \ Replaced(r)) \cup {i}
  BY <1>2 DEF Reserved, Replaced, Insert
<1>7. /\ IsFiniteSet(Reserved(expired) \ Replaced(r))
      /\ Cardinality(Reserved(expired) \ Replaced(r)) \in Nat
      /\ Cardinality(ActiveMembers) \in Nat
  BY <1>2, SeatsFinite
<1>8. /\ Cardinality(Reserved(expired)')
           <= Cardinality((Reserved(expired) \ Replaced(r)) \cup {i})
      /\ Cardinality(Reserved(expired)') \in Nat
      /\ Cardinality((Reserved(expired) \ Replaced(r)) \cup {i})
           <= Cardinality(Reserved(expired) \ Replaced(r)) + 1
      /\ Cardinality((Reserved(expired) \ Replaced(r)) \cup {i}) \in Nat
  <2> DEFINE S == Reserved(expired) \ Replaced(r)
  <2>1. /\ IsFiniteSet(S \cup {i})
        /\ Cardinality(S \cup {i}) = IF i \in S THEN Cardinality(S) ELSE Cardinality(S) + 1
    BY <1>7, FS_AddElement
  <2>2. Cardinality(S \cup {i}) \in Nat
    BY <2>1, FS_CardinalityType
  <2> QED
    BY <1>6, <1>7, <2>1, <2>2, Smaller
<1>9. ~straddled => Cardinality(ActiveMembers) + Cardinality(Reserved(expired) \ Replaced(r))
                      < SeatLimit
  BY <1>2, <1>3 DEF CountHolds
<1>10. SeatsReserved'
  <2> DEFINE A == Cardinality(ActiveMembers)
             S == Cardinality(Reserved(expired) \ Replaced(r))
             T == Cardinality((Reserved(expired) \ Replaced(r)) \cup {i})
             U == Cardinality(Reserved(expired)')
  <2>1. A \in Nat /\ S \in Nat /\ T \in Nat /\ U \in Nat /\ U <= T /\ T <= S + 1
    BY <1>7, <1>8
  <2>2. ~straddled => A + S < SeatLimit
    BY <1>9
  <2>3. SeatsTaken' = A + U
    BY <1>5 DEF SeatsTaken
  <2> HIDE DEF A, S, T, U
  <2>4. ~straddled => A + U <= SeatLimit
    BY <2>1, <2>2, MembersAssumption
  <2> QED
    BY <2>3, <2>4 DEF SeatsReserved
<1> QED
  BY <1>4, <1>10 DEF SeatsInv

\* So does a reactivation.
LEMMA ReactivateSeats ==
    ASSUME MembersInv, SeatsInv, NEW r \in Requests, CommitStatus(r),
           request[r].status = "active"
    PROVE  SeatsInv'
<1>1. Commits(r, "status") /\ "status" \in Operations
  BY DEF CommitStatus, Operations
<1>2. /\ RowsOK /\ RequestsOK /\ request[r] # Idle /\ request[r].op = "status"
      /\ request[r].at = "commit" /\ request[r].target \in Users
      /\ CountHolds(r) /\ End(r)
  BY <1>1, CommitFacts DEF SeatsInv, Commits
<1>3. Grows(r) /\ entitlementLock = r /\ Replaced(r) = {}
  BY <1>2 DEF CountHolds, Grows, Counting, Replaced
<1>4. /\ expired' = expired /\ straddled' = straddled /\ invitations' = invitations
      /\ members' = [members EXCEPT ![request[r].target].status = "active"]
  BY DEF CommitStatus
<1>5. \A q \in Requests : CountHolds(q)'
  BY <1>2, <1>3, <1>4, HolderCommits
<1>6. Reserved(expired)' = Reserved(expired)
  BY <1>4 DEF Reserved
<1>7. ActiveMembers' \subseteq ActiveMembers \cup {request[r].target}
  BY <1>2, <1>4 DEF ActiveMembers, Active, RowsOK
<1>8. /\ IsFiniteSet(ActiveMembers)
      /\ Cardinality(Reserved(expired)) \in Nat /\ Cardinality(ActiveMembers) \in Nat
  BY <1>2, SeatsFinite
<1>9. Cardinality(ActiveMembers') \in Nat
      /\ Cardinality(ActiveMembers') <= Cardinality(ActiveMembers) + 1
  <2>1. /\ IsFiniteSet(ActiveMembers \cup {request[r].target})
        /\ Cardinality(ActiveMembers \cup {request[r].target})
             = IF request[r].target \in ActiveMembers THEN Cardinality(ActiveMembers)
               ELSE Cardinality(ActiveMembers) + 1
    BY <1>8, FS_AddElement
  <2>2. /\ Cardinality(ActiveMembers') \in Nat
        /\ Cardinality(ActiveMembers \cup {request[r].target}) \in Nat
        /\ Cardinality(ActiveMembers') <= Cardinality(ActiveMembers \cup {request[r].target})
    BY <1>7, <2>1, Smaller
  <2> QED
    BY <1>8, <2>1, <2>2
<1>10. ~straddled => Cardinality(ActiveMembers) + Cardinality(Reserved(expired)) < SeatLimit
  <2>1. Reserved(expired) \ {} = Reserved(expired)
    OBVIOUS
  <2> QED
    BY <1>2, <1>3, <2>1 DEF CountHolds
<1>11. SeatsReserved'
  BY <1>4, <1>6, <1>8, <1>9, <1>10, MembersAssumption DEF SeatsReserved, SeatsTaken
<1> QED
  BY <1>5, <1>11 DEF SeatsInv

\* An acceptance that falls into no count turns a seat reserved into one taken.
LEMMA AcceptSeats ==
    ASSUME MembersInv, SeatsInv, NEW r \in Requests, CommitAccept(r)
    PROVE  SeatsInv'
<1> DEFINE T == request[r].target
           I == request[r].inv
<1>1. Commits(r, "accept") /\ "accept" \in Operations
  BY DEF CommitAccept, Operations
<1>2. /\ RowsOK /\ RequestsOK /\ request[r] # Idle /\ request[r].op = "accept"
      /\ request[r].at = "commit" /\ T \in Users /\ I \in Invitations
      /\ Relies(r) /\ OthersKept(r) /\ request'[r] = Idle
  BY <1>1, CommitFacts
<1>3. /\ ~Active(T) /\ invitations[I].status = "PENDING" /\ invitationLock[I] = r
  BY <1>2 DEF Relies, AcceptHolds, InvitationHolds, Names
<1>4. /\ expired' = expired
      /\ \A u \in Users : members'[u].status = IF u = T THEN "active" ELSE members[u].status
      /\ \A i \in Invitations : invitations'[i].status =
            IF i = I THEN "ACCEPTED" ELSE invitations[i].status
  BY <1>2 DEF CommitAccept, RowsOK
<1>5. ~straddled' => /\ ~straddled /\ I \notin expired
                     /\ \A q \in Requests : ~At(q, "count_pending")
  BY DEF CommitAccept
<1>6. T \notin ActiveMembers /\ ActiveMembers' = ActiveMembers \cup {T}
  BY <1>2, <1>3, <1>4 DEF ActiveMembers, Active
<1>7. Reserved(expired)' = Reserved(expired) \ {I}
  BY <1>4 DEF Reserved
<1>8. Cardinality(ActiveMembers') = Cardinality(ActiveMembers) + 1
      /\ Cardinality(ActiveMembers) \in Nat
  BY <1>2, <1>6, SeatsFinite, FS_AddElement
<1>9. ~straddled' => I \in Reserved(expired)
  BY <1>2, <1>3, <1>5 DEF Reserved
<1>10. ~straddled' => Cardinality(Reserved(expired)') = Cardinality(Reserved(expired)) - 1
                      /\ Cardinality(Reserved(expired)) \in Nat
  <2>1. IsFiniteSet(Reserved(expired)) /\ Cardinality(Reserved(expired)) \in Nat
    BY <1>2, SeatsFinite
  <2> QED
    BY <1>7, <1>9, <2>1, OneLess
<1>11. SeatsReserved'
  BY <1>5, <1>8, <1>10, MembersAssumption DEF SeatsInv, SeatsReserved, SeatsTaken
<1>12. ASSUME NEW q \in Requests PROVE CountHolds(q)'
  <2>1. CASE q = r
    BY <1>2, <2>1 DEF CountHolds
  <2>2. CASE q # r
    <3>1. /\ request'[q] = request[q] /\ CountHolds(q) /\ Relies(q)
          /\ entitlementLock = q => entitlementLock' = q
      BY <1>2, <2>2 DEF OthersKept, SeatsInv, MembersInv
    <3>2. (Grows(q)' <=> Grows(q)) /\ Replaced(q)' = Replaced(q)
      BY <3>1 DEF Grows, Replaced
    <3>3. ASSUME ~straddled', request[q] # Idle, request[q].at = "commit", Grows(q)
          PROVE  Cardinality(ActiveMembers') + Cardinality(Reserved(expired)' \ Replaced(q))
                   < SeatLimit
      <4>1. I \notin Replaced(q)
        BY <1>3, <2>2, <3>1, <3>3 DEF Relies, InvitationHolds, Names, Replaced
      <4>2. /\ I \in Reserved(expired) \ Replaced(q)
            /\ Reserved(expired)' \ Replaced(q) = (Reserved(expired) \ Replaced(q)) \ {I}
        BY <1>7, <1>9, <3>3, <4>1
      <4>3. /\ Cardinality(Reserved(expired)' \ Replaced(q))
                 = Cardinality(Reserved(expired) \ Replaced(q)) - 1
            /\ Cardinality(Reserved(expired) \ Replaced(q)) \in Nat
        <5>1. /\ IsFiniteSet(Reserved(expired) \ Replaced(q))
              /\ Cardinality(Reserved(expired) \ Replaced(q)) \in Nat
          BY <1>2, SeatsFinite
        <5> QED
          BY <4>2, <5>1, OneLess
      <4>4. Cardinality(ActiveMembers) + Cardinality(Reserved(expired) \ Replaced(q))
              < SeatLimit
        BY <1>5, <3>1, <3>3 DEF CountHolds
      <4> QED
        BY <1>8, <4>3, <4>4, MembersAssumption
    <3>4. ~straddled' /\ request[q] # Idle => request[q].at # "count_pending"
      BY <1>5 DEF At
    <3> QED
      BY <1>4, <3>1, <3>2, <3>3, <3>4 DEF CountHolds
  <2> QED
    BY <2>1, <2>2
<1> QED
  BY <1>11, <1>12 DEF SeatsInv

LEMMA CommittedSeats ==
    ASSUME MembersInv, SeatsInv, NEW r \in Requests, Committed(r)
    PROVE  SeatsInv'
<1>0. RowsOK /\ RequestsOK /\ End(r)
  BY TypeParts, CommittedEnds DEF MembersInv
<1>1. OthersKept(r) /\ request'[r] = Idle
  BY <1>0, EndKeepsOthers
<1>2. ASSUME ActiveMembers' \subseteq ActiveMembers,
             Reserved(expired)' \subseteq Reserved(expired),
             expired' = expired, straddled' = straddled
      PROVE  SeatsInv'
  <2>1. ASSUME NEW q \in Requests PROVE CountHolds(q)'
    <3>1. CASE q = r
      BY <1>1, <3>1 DEF CountHolds
    <3>2. CASE q # r
      BY <1>0, <1>1, <1>2, <3>2, NoGrowth DEF OthersKept
    <3> QED
      BY <3>1, <3>2
  <2> QED
    BY <1>0, <1>2, <2>1, NoGrowth DEF SeatsInv
<1>3. ASSUME NEW i \in Invitations, CommitInvite(r, i) PROVE SeatsInv'
  <2>1. request[r].role \in Roles
    BY <1>0, <1>3, UnderWay DEF CommitInvite, Commits, At
  <2> QED
    BY <1>3, <2>1, InsertSeats DEF CommitInvite
<1>4. ASSUME NEW i \in Invitations, CommitReissue(r, i) PROVE SeatsInv'
  <2>1. invitations[request[r].inv].role \in Roles
    BY <1>0, <1>4, UnderWay DEF CommitReissue, Commits, At, RowsOK
  <2> QED
    BY <1>4, <2>1, InsertSeats DEF CommitReissue
<1>5. CASE CommitWithdraw(r)
  <2>1. /\ members' = members /\ expired' = expired /\ straddled' = straddled
        /\ invitations' = [invitations EXCEPT ![request[r].inv].status = "REVOKED"]
    BY <1>5 DEF CommitWithdraw
  <2>2. ActiveMembers' = ActiveMembers
    BY <2>1 DEF ActiveMembers, Active
  <2>3. Reserved(expired)' \subseteq Reserved(expired)
    BY <1>0, <2>1 DEF Reserved, RowsOK
  <2> QED
    BY <1>2, <2>1, <2>2, <2>3
<1>6. CASE CommitRole(r)
  <2>1. /\ invitations' = invitations /\ expired' = expired /\ straddled' = straddled
        /\ members' = [members EXCEPT ![request[r].target].role = request[r].role]
    BY <1>6 DEF CommitRole
  <2>2. ActiveMembers' \subseteq ActiveMembers
    BY <1>0, <2>1 DEF ActiveMembers, Active, RowsOK
  <2>3. Reserved(expired)' = Reserved(expired)
    BY <2>1 DEF Reserved
  <2> QED
    BY <1>2, <2>1, <2>2, <2>3
<1>7. CASE CommitStatus(r) /\ request[r].status # "active"
  <2>1. /\ invitations' = invitations /\ expired' = expired /\ straddled' = straddled
        /\ members' = [members EXCEPT ![request[r].target].status = request[r].status]
    BY <1>7 DEF CommitStatus
  <2>2. ActiveMembers' \subseteq ActiveMembers
    BY <1>0, <1>7, <2>1 DEF ActiveMembers, Active, RowsOK
  <2>3. Reserved(expired)' = Reserved(expired)
    BY <2>1 DEF Reserved
  <2> QED
    BY <1>2, <2>1, <2>2, <2>3
<1>8. CASE CommitSelect(r)
  <2>1. /\ invitations' = invitations /\ expired' = expired /\ straddled' = straddled
        /\ members' = members
    BY <1>8 DEF CommitSelect
  <2>2. ActiveMembers' = ActiveMembers /\ Reserved(expired)' = Reserved(expired)
    BY <2>1 DEF ActiveMembers, Active, Reserved
  <2> QED
    BY <1>2, <2>1, <2>2
<1> QED
  BY <1>3, <1>4, <1>5, <1>6, <1>7, <1>8, ReactivateSeats, AcceptSeats DEF Committed

\* A request that goes on counts what is there, under the entitlement row.
LEMMA OnwardSeats ==
    ASSUME MembersInv, SeatsInv, NEW r \in Requests, Onward(r)
    PROVE  SeatsInv'
<1>1. PICK s \in Steps, n \in Nat : Advances(r, s, n) /\ Takes(r, s, n)
  BY OnwardSteps
<1>2. UNCHANGED <<rows, straddled>>
  BY OnwardSteps
<1>3. /\ RowsOK /\ RequestsOK /\ Free \notin Requests /\ CountHolds(r)
  BY TypeParts, MembersAssumption DEF MembersInv, SeatsInv
<1>4. request[r].op \in Operations /\ request[r].seats \in Nat /\ Relies(r)
  BY <1>1, <1>3, UnderWay DEF Advances, MembersInv
<1>5. /\ ActiveMembers' = ActiveMembers /\ Reserved(expired)' = Reserved(expired)
      /\ expired' = expired /\ straddled' = straddled
  BY <1>2 DEF rows, ActiveMembers, Active, Reserved
<1>6. (Grows(r)' <=> Grows(r)) /\ Replaced(r)' = Replaced(r)
  BY <1>1 DEF Advances, Grows, Replaced
<1>7. request'[r].at = s /\ request'[r].now = request[r].now /\ request'[r].seats = n
      /\ request[r] # Idle
  BY <1>1 DEF Advances
<1>8. CountHolds(r)'
  <2>1. CASE request[r].at = "workspace"
    BY <1>1, <1>3, <1>5, <1>7, <2>1 DEF Takes, CountHolds, Counting
  <2>2. CASE request[r].at = "entitlement"
    BY <1>1, <1>3, <1>5, <1>6, <1>7, <2>2 DEF Takes, CountHolds, Counting, locks
  <2>3. CASE request[r].at = "invitation"
    <3>1. /\ Names(r)
          /\ s = CASE request[r].op = "reissue" -> "count_members"
                   [] request[r].op = "accept" -> "member"
                   [] OTHER -> "commit"
          /\ entitlementLock' = entitlementLock
      BY <1>1, <2>3 DEF Takes
    <3>2. request[r].op = "reissue" => entitlementLock = r
      BY <1>4, <2>3 DEF Relies, EntitlementHolds
    <3>3. \/ request[r].op = "reissue" /\ s = "count_members" /\ Grows(r)
          \/ s \in {"member", "commit"} /\ ~Grows(r)
      BY <3>1 DEF Names, Grows
    <3> QED
      BY <1>3, <1>5, <1>6, <1>7, <3>1, <3>2, <3>3 DEF CountHolds, Counting
  <2>4. CASE request[r].at = "member"
    <3>1. s \in {"entitlement", "commit"} /\ (s = "entitlement" <=> Grows(r))
      BY <1>1, <2>4 DEF Takes, Grows, Manages
    <3> QED
      BY <1>3, <1>5, <1>6, <1>7, <3>1 DEF CountHolds, Counting
  <2>5. CASE request[r].at = "count_members"
    <3>1. s = "count_pending" /\ n = Cardinality(ActiveMembers) /\ UNCHANGED locks
      BY <1>1, <2>5 DEF Takes
    <3>2. Grows(r) /\ entitlementLock = r
      BY <1>3, <1>7, <2>5 DEF CountHolds, Counting
    <3> QED
      BY <1>3, <1>5, <1>6, <1>7, <3>1, <3>2 DEF CountHolds, Counting, locks
  <2>6. CASE request[r].at = "count_pending"
    <3>1. s = "commit" /\ SeatsUsed(request[r]) < SeatLimit /\ UNCHANGED locks
      BY <1>1, <2>6 DEF Takes
    <3>2. Grows(r) /\ entitlementLock = r /\ request[r].now \subseteq expired
      BY <1>3, <1>7, <2>6 DEF CountHolds, Counting
    <3>3. request[r].seats + Cardinality(Reserved(request[r].now) \ Replaced(r)) < SeatLimit
      BY <3>1 DEF SeatsUsed, Replaced
    <3>4. Reserved(expired) \ Replaced(r) \subseteq Reserved(request[r].now) \ Replaced(r)
      BY <3>2 DEF Reserved
    <3>5. /\ Cardinality(Reserved(expired) \ Replaced(r))
               <= Cardinality(Reserved(request[r].now) \ Replaced(r))
          /\ Cardinality(Reserved(expired) \ Replaced(r)) \in Nat
          /\ Cardinality(Reserved(request[r].now) \ Replaced(r)) \in Nat
          /\ Cardinality(ActiveMembers) \in Nat
      BY <1>3, <3>4, SeatsFinite, Smaller
    <3>6. ~straddled => Cardinality(ActiveMembers) <= request[r].seats
      BY <1>3, <1>7, <2>6 DEF CountHolds
    <3>7. ~straddled => Cardinality(ActiveMembers)
                          + Cardinality(Reserved(expired) \ Replaced(r)) < SeatLimit
      <4> DEFINE A == Cardinality(ActiveMembers)
                 S == Cardinality(Reserved(expired) \ Replaced(r))
                 U == Cardinality(Reserved(request[r].now) \ Replaced(r))
      <4>1. /\ A \in Nat /\ S \in Nat /\ U \in Nat /\ S <= U
            /\ request[r].seats + U < SeatLimit
            /\ ~straddled => A <= request[r].seats
        BY <3>3, <3>5, <3>6
      <4> HIDE DEF A, S, U
      <4>2. ~straddled => A + S < SeatLimit
        BY <1>4, <4>1, MembersAssumption
      <4> QED
        BY <4>2 DEF A, S
    <3> QED
      BY <1>3, <1>5, <1>6, <1>7, <3>1, <3>2, <3>7 DEF CountHolds, Counting, locks
  <2> QED
    BY <1>1, <2>1, <2>2, <2>3, <2>4, <2>5, <2>6 DEF Takes
<1>9. ASSUME NEW q \in Requests \ {r} PROVE CountHolds(q)'
  <2>1. request'[q] = request[q]
    BY <1>1 DEF Advances
  <2>2. entitlementLock = q => entitlementLock' = q
    BY <1>1, <1>3 DEF Takes, locks
  <2> QED
    BY <1>3, <1>5, <2>1, <2>2, NoGrowth
<1>10. SeatsReserved'
  BY <1>3, <1>5, NoGrowth
<1> QED
  BY <1>8, <1>9, <1>10 DEF SeatsInv

LEMMA SeatsStep ==
    ASSUME MembersInv, SeatsInv, [MembersNext]_membersVars
    PROVE  SeatsInv'
<1>1. RowsOK /\ RequestsOK
  BY TypeParts DEF MembersInv
<1>2. ASSUME NEW r \in Requests, OthersKept(r), CountHolds(r)',
             UNCHANGED <<rows, straddled>>
      PROVE  SeatsInv'
  <2>1. /\ ActiveMembers' = ActiveMembers /\ Reserved(expired)' = Reserved(expired)
        /\ expired' = expired /\ straddled' = straddled
    BY <1>2 DEF rows, ActiveMembers, Active, Reserved
  <2>2. ASSUME NEW q \in Requests PROVE CountHolds(q)'
    BY <1>1, <1>2, <2>1, NoGrowth DEF OthersKept
  <2> QED
    BY <1>1, <2>1, <2>2, NoGrowth DEF SeatsInv
<1>3. ASSUME NEW r \in Requests, Begun(r) PROVE SeatsInv'
  <2>1. OthersKept(r)
    BY <1>3 DEF Begun, OthersKept, locks
  <2>2. expired' = expired /\ JustBegun(request'[r])
    BY <1>3 DEF Begun, rows
  <2>3. CountHolds(r)'
    BY <2>2 DEF CountHolds, JustBegun, Grows, Counting
  <2> QED
    BY <1>2, <1>3, <2>1, <2>3 DEF Begun
<1>4. ASSUME NEW r \in Requests, Refuse(r) PROVE SeatsInv'
  <2>1. OthersKept(r) /\ request'[r] = Idle
    BY <1>1, <1>4, EndKeepsOthers DEF Refuse
  <2>2. CountHolds(r)'
    BY <2>1 DEF CountHolds
  <2> QED
    BY <1>2, <1>4, <2>1, <2>2 DEF Refuse
<1>5. ASSUME NEW i \in Invitations, Expire(i) PROVE SeatsInv'
  <2>1. /\ members' = members /\ invitations' = invitations /\ straddled' = straddled
        /\ expired' = expired \cup {i} /\ request' = request
        /\ entitlementLock' = entitlementLock
    BY <1>5 DEF Expire, locks
  <2>2. /\ ActiveMembers' = ActiveMembers
        /\ Reserved(expired)' \subseteq Reserved(expired)
    BY <2>1 DEF ActiveMembers, Active, Reserved
  <2> QED
    BY <1>1, <2>1, <2>2, NoGrowth DEF SeatsInv
<1>6. ASSUME UNCHANGED membersVars PROVE SeatsInv'
  <2>1. /\ members' = members /\ invitations' = invitations /\ straddled' = straddled
        /\ expired' = expired /\ request' = request
        /\ entitlementLock' = entitlementLock
    BY <1>6 DEF membersVars, rows, locks
  <2>2. /\ ActiveMembers' = ActiveMembers
        /\ Reserved(expired)' = Reserved(expired)
    BY <2>1 DEF ActiveMembers, Active, Reserved
  <2> QED
    BY <1>1, <2>1, <2>2, NoGrowth DEF SeatsInv
<1> QED
  BY <1>3, <1>4, <1>5, <1>6, StepKinds, OnwardSeats, CommittedSeats

\* Invitations, reissues and reactivations that run together never take more
\* seats than the limit, for any limit and any number of them, unless an
\* acceptance falls between the two counts of one (member_service.py,
\* _seat_usage under _lock_entitlement).
THEOREM SeatsAlwaysReserved == MembersSpec => []SeatsReserved
<1>1. MembersInit => SeatsInv
  <2> SUFFICES ASSUME MembersInit PROVE SeatsInv
    OBVIOUS
  <2>1. PICK b \in Beginnings :
          /\ members = b.roster
          /\ invitations = [i \in Invitations |->
               IF i \in DOMAIN b.invited
               THEN [status |-> "PENDING", email |-> b.invited[i], role |-> "MEMBER"]
               ELSE [status |-> "unused", email |-> Someone, role |-> "MEMBER"]]
    BY DEF MembersInit
  <2>2. expired = {} /\ straddled = FALSE /\ \A r \in Requests : request[r] = Idle
    BY DEF MembersInit
  <2>3. ActiveMembers = {u \in Users : b.roster[u].status = "active"}
    BY <2>1 DEF ActiveMembers, Active
  <2>4. Reserved(expired) = DOMAIN b.invited
    BY <2>1, <2>2, MembersAssumption DEF Reserved
  <2>5. SeatsReserved
    BY <2>3, <2>4, MembersAssumption DEF SeatsReserved, SeatsTaken
  <2> QED
    BY <2>2, <2>5 DEF SeatsInv, CountHolds
<1>2. MembersInv /\ SeatsInv /\ [MembersNext]_membersVars => SeatsInv'
  BY SeatsStep
<1>3. SeatsInv => SeatsReserved
  BY DEF SeatsInv
<1> QED
  BY <1>1, <1>2, <1>3, MembersInvariant, PTL DEF MembersSpec
=============================================================================
