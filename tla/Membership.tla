----------------------------- MODULE Membership ------------------------------
(***************************************************************************)
(* Memberships of one company: invitations, roles, removal and transfer of *)
(* ownership.  Each call is one transaction under READ COMMITTED: a        *)
(* statement sees what was committed when it started, FOR UPDATE waits for *)
(* the row and looks at it again, and updates become visible at commit.    *)
(* require_role reads the caller's role without a lock.                    *)
(*                                                                         *)
(* A viewer may do here what a member may, and both are Member.  A person  *)
(* who comes back after a removal has a new membership, hence the count of *)
(* joins as its id.  The owner's invitation is made with the company, or   *)
(* the company is created by its owner; the portal invites below owner.    *)
(***************************************************************************)
EXTENDS Naturals, FiniteSets

CONSTANTS
    Users,
    Calls,       \* calls of the three lifecycle procedures
    Nobody,      \* no user and no call
    MaxInvites,  \* bound: invitations
    MaxOverlap   \* bound: calls in flight at a time

ASSUME MembershipAssumption ==
    /\ MaxInvites \in Nat \ {0} /\ MaxOverlap \in Nat \ {0}
    /\ Nobody \notin Users \cup Calls

Absent == 0
Member == 1
Admin  == 2
Owner  == 3
Roles  == Absent..Owner

VARIABLES
    role,      \* memberships.role, Absent without a row
    joined,    \* memberships a user has had so far; the id of the present one
    lock,      \* call that holds a user's row
    invited,   \* invitations made so far, numbered from 1
    invitee,   \* user of an invitation
    offered,   \* its role
    live,      \* invitations neither accepted nor withdrawn
    pc,        \* "new", "owner", "lock", "target", "check", "caller", "write" or "done"
    op,        \* "set", "remove" or "transfer"
    caller, target,
    id,        \* membership the call is about
    wanted,    \* role to set
    before,    \* role read under the lock on the target
    as,        \* role require_role has returned
    seen       \* owner a transfer has found and waits for

tableVars  == <<role, joined>>
inviteVars == <<invited, invitee, offered, live>>
argVars    == <<op, caller, target, id, wanted>>
callVars   == <<pc, op, caller, target, id, wanted, before, as, seen>>
vars == <<role, joined, lock, invited, invitee, offered, live,
          pc, op, caller, target, id, wanted, before, as, seen>>

Invites == 1..MaxInvites

TypeOK ==
    /\ role \in [Users -> Roles]
    /\ joined \in [Users -> Nat]
    /\ lock \in [Users -> Calls \cup {Nobody}]
    /\ invited \in 0..MaxInvites
    /\ invitee \in [Invites -> Users] /\ offered \in [Invites -> Roles]
    /\ live \subseteq 1..invited
    /\ pc \in [Calls -> {"new", "owner", "lock", "target", "check", "caller", "write", "done"}]
    /\ op \in [Calls -> {"set", "remove", "transfer"}]
    /\ caller \in [Calls -> Users] /\ target \in [Calls -> Users]
    /\ id \in [Calls -> Nat]
    /\ wanted \in [Calls -> {Member, Admin}]
    /\ before \in [Calls -> Roles] /\ as \in [Calls -> Roles]
    /\ seen \in [Calls -> Users \cup {Nobody}]

(* create_tenant, or staff_provision_tenant with its invitation.           *)
Init ==
    /\ \E u \in Users :
        \/ /\ role = [v \in Users |-> IF v = u THEN Owner ELSE Absent]
           /\ joined = [v \in Users |-> IF v = u THEN 1 ELSE 0]
           /\ invited = 0 /\ live = {}
           /\ invitee = [n \in Invites |-> u] /\ offered = [n \in Invites |-> Member]
        \/ /\ role = [v \in Users |-> Absent] /\ joined = [v \in Users |-> 0]
           /\ invited = 1 /\ live = {1}
           /\ invitee = [n \in Invites |-> u]
           /\ offered = [n \in Invites |-> IF n = 1 THEN Owner ELSE Member]
    /\ lock = [u \in Users |-> Nobody]
    /\ pc = [c \in Calls |-> "new"] /\ op = [c \in Calls |-> "set"]
    /\ \E u \in Users : caller = [c \in Calls |-> u] /\ target = [c \in Calls |-> u]
    /\ id = [c \in Calls |-> 0] /\ wanted = [c \in Calls |-> Member]
    /\ before = [c \in Calls |-> Absent] /\ as = [c \in Calls |-> Absent]
    /\ seen = [c \in Calls |-> Nobody]

-----------------------------------------------------------------------------
(* Invitations *)

(* POST of the invite route: a request deletes the person's live           *)
(* invitations, and inserts a new one in a second transaction; each is     *)
(* allowed while its caller is owner or admin.  Requests for one person    *)
(* may overlap, so an insert finds whatever others have inserted since the *)
(* request's own delete.                                                   *)
ClearInvites(u) ==
    /\ \E v \in Users : role[v] >= Admin
    /\ {n \in live : invitee[n] = u} # {}
    /\ live' = {n \in live : invitee[n] # u}
    /\ UNCHANGED <<tableVars, lock, invited, invitee, offered, callVars>>
Invite(u, r) ==
    /\ \E v \in Users : role[v] >= Admin
    /\ invited < MaxInvites
    /\ invited' = invited + 1
    /\ invitee' = [invitee EXCEPT ![invited + 1] = u]
    /\ offered' = [offered EXCEPT ![invited + 1] = r]
    /\ live' = live \cup {invited + 1}
    /\ UNCHANGED <<tableVars, lock, callVars>>

(* DELETE of the invite route, or the invitation expires.                  *)
Withdraw(n) ==
    /\ n \in live
    /\ live' = live \ {n}
    /\ UNCHANGED <<tableVars, lock, invited, invitee, offered, callVars>>

(* accept_invite: the row is inserted, or raised to the higher role.  It   *)
(* waits for whoever holds the row; a second owner breaks                  *)
(* memberships_one_owner_per_tenant.                                       *)
Higher_Sum(r, s) == r + s
Higher(r, s) == IF r > s THEN r ELSE s
OwnerBesides_NoIndex(U) == U = {} /\ \E u \in Users : role[u] = Owner
OwnerBesides(U) == \E u \in Users \ U : role[u] = Owner
Accept(n) ==
    LET u == invitee[n] IN
    /\ n \in live /\ lock[u] = Nobody
    /\ offered[n] = Owner => ~OwnerBesides({u})
    /\ role' = [role EXCEPT ![u] = Higher(offered[n], @)]
    /\ joined' = IF role[u] = Absent THEN [joined EXCEPT ![u] = @ + 1] ELSE joined
    /\ live' = live \ {n}
    /\ UNCHANGED <<lock, invited, invitee, offered, callVars>>

-----------------------------------------------------------------------------
(* The lifecycle procedures *)

(* A call about a membership that is there when it begins.                 *)
Begin(c, o, u, v, r) ==
    /\ pc[c] = "new" /\ role[v] # Absent
    /\ o # "set" => r = Member
    /\ Cardinality({d \in Calls : pc[d] \notin {"new", "done"}}) < MaxOverlap
    /\ op' = [op EXCEPT ![c] = o]
    /\ caller' = [caller EXCEPT ![c] = u]
    /\ target' = [target EXCEPT ![c] = v]
    /\ id' = [id EXCEPT ![c] = joined[v]]
    /\ wanted' = [wanted EXCEPT ![c] = r]
    /\ pc' = [pc EXCEPT ![c] = IF o = "transfer" THEN "owner" ELSE "target"]
    /\ UNCHANGED <<tableVars, lock, inviteVars, before, as, seen>>

Freed(c) == [u \in Users |-> IF lock[u] = c THEN Nobody ELSE lock[u]]

(* An exception, a lost connection, or the victim of a deadlock.           *)
RollBack(c) ==
    /\ pc' = [pc EXCEPT ![c] = "done"]
    /\ lock' = Freed(c)
    /\ UNCHANGED <<tableVars, inviteVars, argVars, before, as, seen>>
Fails(c) == pc[c] \notin {"new", "done"} /\ RollBack(c)

(* A transfer finds the owner's row, waits for it, and takes the lock if   *)
(* the row still is the owner's.                                           *)
FindOwner(c) ==
    /\ pc[c] = "owner"
    /\ \/ \E u \in Users : role[u] = Owner /\ seen' = [seen EXCEPT ![c] = u]
       \/ ~OwnerBesides({}) /\ seen' = [seen EXCEPT ![c] = Nobody]
    /\ pc' = [pc EXCEPT ![c] = "lock"]
    /\ UNCHANGED <<tableVars, lock, inviteVars, argVars, before, as>>
LockOwner(c) ==
    /\ pc[c] = "lock"
    /\ \/ seen[c] = Nobody /\ UNCHANGED lock
       \/ /\ seen[c] \in Users /\ lock[seen[c]] = Nobody
          /\ lock' = IF role[seen[c]] = Owner THEN [lock EXCEPT ![seen[c]] = c] ELSE lock
    /\ pc' = [pc EXCEPT ![c] = "target"]
    /\ UNCHANGED <<tableVars, inviteVars, argVars, before, as, seen>>

(* The target is locked and read.                                          *)
Present(c) == role[target[c]] # Absent /\ joined[target[c]] = id[c]
LockTarget_NoLock(c) ==
    /\ pc[c] = "target" /\ Present(c)
    /\ before' = [before EXCEPT ![c] = role[target[c]]]
    /\ pc' = [pc EXCEPT ![c] = "check"]
    /\ UNCHANGED <<tableVars, lock, inviteVars, argVars, as, seen>>
LockTarget(c) ==
    /\ pc[c] = "target" /\ lock[target[c]] \in {Nobody, c} /\ Present(c)
    /\ lock' = [lock EXCEPT ![target[c]] = c]
    /\ before' = [before EXCEPT ![c] = role[target[c]]]
    /\ pc' = [pc EXCEPT ![c] = "check"]
    /\ UNCHANGED <<tableVars, inviteVars, argVars, as, seen>>
NotFound(c) ==
    /\ pc[c] = "target" /\ lock[target[c]] \in {Nobody, c} /\ ~Present(c)
    /\ RollBack(c)

(* require_role and the rules of the three procedures.                     *)
Self(c) == caller[c] = target[c]
Allowed(c) ==
    LET r == role[caller[c]] IN
    \/ /\ op[c] = "set" /\ ~Self(c)
       /\ r >= Admin /\ before[c] # Owner
       /\ r = Admin => before[c] # Admin
    \/ /\ op[c] = "remove" /\ before[c] # Owner
       /\ \/ Self(c) /\ r >= Member
          \/ ~Self(c) /\ r >= Admin /\ (r = Admin => before[c] # Admin)
    \/ op[c] = "transfer" /\ ~Self(c) /\ r = Owner
Check(c) ==
    /\ pc[c] = "check" /\ Allowed(c)
    /\ as' = [as EXCEPT ![c] = role[caller[c]]]
    /\ pc' = [pc EXCEPT ![c] = IF op[c] = "transfer" THEN "caller" ELSE "write"]
    /\ UNCHANGED <<tableVars, lock, inviteVars, argVars, before, seen>>
Refuse(c) == pc[c] = "check" /\ ~Allowed(c) /\ RollBack(c)

Commit(c) ==
    /\ lock' = Freed(c)
    /\ pc' = [pc EXCEPT ![c] = "done"]
    /\ UNCHANGED <<joined, inviteVars, argVars, before, as, seen>>

(* The update or delete of membership_set_role and membership_remove.      *)
SetRole(c) ==
    /\ pc[c] = "write" /\ op[c] = "set"
    /\ role' = [role EXCEPT ![target[c]] = wanted[c]]
    /\ Commit(c)
Remove(c) ==
    /\ pc[c] = "write" /\ op[c] = "remove"
    /\ role' = [role EXCEPT ![target[c]] = Absent]
    /\ Commit(c)

(* The transfer's first update waits for the caller's row; its second      *)
(* makes the target owner, unless there is another owner by then.          *)
LockCaller(c) ==
    /\ pc[c] = "caller" /\ lock[caller[c]] \in {Nobody, c}
    /\ lock' = [lock EXCEPT ![caller[c]] = c]
    /\ pc' = [pc EXCEPT ![c] = "write"]
    /\ UNCHANGED <<tableVars, inviteVars, argVars, before, as, seen>>
Handed(c) ==
    [u \in Users |-> IF u = target[c] THEN Owner
                     ELSE IF u = caller[c] /\ role[u] # Absent THEN Admin ELSE role[u]]
Transfer(c) ==
    /\ pc[c] = "write" /\ op[c] = "transfer" /\ ~OwnerBesides({caller[c], target[c]})
    /\ role' = Handed(c)
    /\ Commit(c)
SecondOwner(c) ==
    /\ pc[c] = "write" /\ op[c] = "transfer" /\ OwnerBesides({caller[c], target[c]})
    /\ RollBack(c)

Next ==
    \/ \E u \in Users : ClearInvites(u) \/ \E r \in {Member, Admin} : Invite(u, r)
    \/ \E n \in Invites : Withdraw(n) \/ Accept(n)
    \/ \E c \in Calls :
        \/ \E o \in {"set", "remove", "transfer"}, u, v \in Users, r \in {Member, Admin} :
            Begin(c, o, u, v, r)
        \/ FindOwner(c) \/ LockOwner(c) \/ LockTarget(c) \/ NotFound(c)
        \/ Check(c) \/ Refuse(c) \/ SetRole(c) \/ Remove(c)
        \/ LockCaller(c) \/ Transfer(c) \/ SecondOwner(c) \/ Fails(c)

Spec == Init /\ [][Next]_vars

-----------------------------------------------------------------------------
(* Properties *)

Owners == {u \in Users : role[u] = Owner}

(* The company as Tenancy describes it.                                    *)
TheOwner == IF Owners = {} THEN Nobody ELSE CHOOSE u \in Users : role[u] = Owner
People   == {u \in Users : role[u] # Absent}
Company  == INSTANCE Tenancy WITH owner <- TheOwner, members <- People

(* 20261005_29b: "One owner per company" and "two concurrent transfers     *)
(* serialize": whatever calls and acceptances overlap, ownership is handed *)
(* from one member to another in one step, and is never lost or shared.    *)
OwnershipHandedOver == Company!Spec

(* No update finds the company with two owners.                            *)
OneOwner == \A u, v \in Owners : u = v

(* 20261005_29: "an admin cannot touch an owner or another admin": whoever *)
(* was admin or owner when a call commits loses that role only by the      *)
(* owner's call, or leaves, however roles changed after the call began.    *)
AdminsSafe ==
    [][\A u \in Users : role[u] >= Admin /\ role'[u] < role[u] =>
        \E c \in Calls :
            /\ pc[c] = "write" /\ pc'[c] = "done"
            /\ as[c] = Owner \/ (op[c] = "remove" /\ caller[c] = u)]_vars
====
