--------------------------- MODULE MembershipProofs --------------------------
(***************************************************************************)
(* One owner, admins out of each other's reach, and the implementation of  *)
(* Tenancy, for every set of users and calls.                              *)
(***************************************************************************)
EXTENDS Membership, TLAPS

USE MembershipAssumption
    DEF Absent, Member, Admin, Owner, Roles, Invites, tableVars, inviteVars, argVars, callVars

LEMMA HigherRole == ASSUME NEW r \in Roles, NEW s \in Roles PROVE Higher(r, s) \in Roles
  BY DEF Higher

LEMMA FreedTyped == ASSUME TypeOK, NEW c \in Calls PROVE Freed(c) \in [Users -> Calls \cup {Nobody}]
  BY DEF Freed, TypeOK

LEMMA HandedTyped == ASSUME TypeOK, NEW c \in Calls PROVE Handed(c) \in [Users -> Roles]
  BY DEF Handed, TypeOK

(* Every reachable state is well typed.                                    *)
THEOREM MembershipTyped == Spec => []TypeOK
<1>1. Init => TypeOK
  <2> SUFFICES ASSUME Init PROVE TypeOK
    OBVIOUS
  <2>1. role \in [Users -> Roles] /\ joined \in [Users -> Nat]
    BY DEF Init
  <2>2. invited \in 0..MaxInvites /\ live \subseteq 1..invited
    BY DEF Init
  <2>3. invitee \in [Invites -> Users] /\ offered \in [Invites -> Roles]
    BY DEF Init
  <2>4. caller \in [Calls -> Users] /\ target \in [Calls -> Users]
    BY DEF Init
  <2> QED
    BY <2>1, <2>2, <2>3, <2>4 DEF Init, TypeOK
<1>2. TypeOK /\ [Next]_vars => TypeOK'
  <2> SUFFICES ASSUME TypeOK, [Next]_vars PROVE TypeOK'
    OBVIOUS
  <2>1. ASSUME NEW u \in Users, ClearInvites(u) PROVE TypeOK'
    BY <2>1 DEF ClearInvites, TypeOK
  <2>2. ASSUME NEW u \in Users, NEW r \in {Member, Admin}, Invite(u, r) PROVE TypeOK'
    <3>1. invited' \in 0..MaxInvites /\ invited + 1 \in Invites /\ r \in Roles
      BY <2>2 DEF Invite, TypeOK
    <3>2. live' \subseteq 1..invited'
      BY <2>2 DEF Invite, TypeOK
    <3>3. invitee' \in [Invites -> Users] /\ offered' \in [Invites -> Roles]
      BY <2>2, <3>1 DEF Invite, TypeOK
    <3> QED
      BY <2>2, <3>1, <3>2, <3>3 DEF Invite, TypeOK
  <2>3. ASSUME NEW n \in Invites, Withdraw(n) PROVE TypeOK'
    BY <2>3 DEF Withdraw, TypeOK
  <2>4. ASSUME NEW n \in Invites, Accept(n) PROVE TypeOK'
    <3>1. invitee[n] \in Users /\ offered[n] \in Roles /\ role[invitee[n]] \in Roles
      BY DEF TypeOK
    <3>2. Higher(offered[n], role[invitee[n]]) \in Roles
      BY <3>1, HigherRole
    <3>3. role' \in [Users -> Roles] /\ joined' \in [Users -> Nat]
      BY <2>4, <3>1, <3>2 DEF Accept, TypeOK
    <3> QED
      BY <2>4, <3>3 DEF Accept, TypeOK
  <2>5. ASSUME NEW c \in Calls, NEW o \in {"set", "remove", "transfer"}, NEW u \in Users,
               NEW v \in Users, NEW r \in {Member, Admin}, Begin(c, o, u, v, r)
        PROVE TypeOK'
    BY <2>5 DEF Begin, TypeOK
  <2>6. ASSUME NEW c \in Calls, RollBack(c) PROVE TypeOK'
    BY <2>6, FreedTyped DEF RollBack, TypeOK
  <2>7. ASSUME NEW c \in Calls, FindOwner(c) PROVE TypeOK'
    <3>1. seen' \in [Calls -> Users \cup {Nobody}]
      <4>1. CASE \E u \in Users : role[u] = Owner /\ seen' = [seen EXCEPT ![c] = u]
        BY <4>1 DEF TypeOK
      <4>2. CASE seen' = [seen EXCEPT ![c] = Nobody]
        BY <4>2 DEF TypeOK
      <4> QED
        BY <2>7, <4>1, <4>2 DEF FindOwner
    <3> QED
      BY <2>7, <3>1 DEF FindOwner, TypeOK
  <2>8. ASSUME NEW c \in Calls, LockOwner(c) PROVE TypeOK'
    <3>1. lock' \in [Users -> Calls \cup {Nobody}]
      <4>1. CASE UNCHANGED lock
        BY <4>1 DEF TypeOK
      <4>2. CASE seen[c] \in Users /\ lock' = [lock EXCEPT ![seen[c]] = c]
        BY <4>2 DEF TypeOK
      <4> QED
        BY <2>8, <4>1, <4>2 DEF LockOwner
    <3> QED
      BY <2>8, <3>1 DEF LockOwner, TypeOK
  <2>9. ASSUME NEW c \in Calls, LockTarget(c) PROVE TypeOK'
    BY <2>9 DEF LockTarget, TypeOK
  <2>10. ASSUME NEW c \in Calls, Check(c) PROVE TypeOK'
    BY <2>10 DEF Check, TypeOK
  <2>11. ASSUME NEW c \in Calls, SetRole(c) PROVE TypeOK'
    <3>1. target[c] \in Users /\ wanted[c] \in Roles
      BY DEF TypeOK
    <3>2. role' \in [Users -> Roles]
      BY <2>11, <3>1 DEF SetRole, TypeOK
    <3> QED
      BY <2>11, <3>2, FreedTyped DEF SetRole, Commit, TypeOK
  <2>12. ASSUME NEW c \in Calls, Remove(c) PROVE TypeOK'
    <3>1. target[c] \in Users /\ Absent \in Roles
      BY DEF TypeOK
    <3>2. role' \in [Users -> Roles]
      BY <2>12, <3>1 DEF Remove, TypeOK
    <3> QED
      BY <2>12, <3>2, FreedTyped DEF Remove, Commit, TypeOK
  <2>13. ASSUME NEW c \in Calls, LockCaller(c) PROVE TypeOK'
    BY <2>13 DEF LockCaller, TypeOK
  <2>14. ASSUME NEW c \in Calls, Transfer(c) PROVE TypeOK'
    BY <2>14, FreedTyped, HandedTyped DEF Transfer, Commit, TypeOK
  <2>15. CASE UNCHANGED vars
    BY <2>15 DEF vars, TypeOK
  <2> QED
    BY <2>1, <2>2, <2>3, <2>4, <2>5, <2>6, <2>7, <2>8, <2>9, <2>10, <2>11, <2>12, <2>13, <2>14,
       <2>15 DEF Next, NotFound, Refuse, SecondOwner, Fails
<1> QED
  BY <1>1, <1>2, PTL DEF Spec

-----------------------------------------------------------------------------
(* Steps that leave every role alone.                                      *)
Quiet(c) ==
    \/ \E o \in {"set", "remove", "transfer"}, u, v \in Users, r \in {Member, Admin} :
        Begin(c, o, u, v, r)
    \/ FindOwner(c) \/ LockOwner(c) \/ LockTarget(c) \/ Check(c) \/ LockCaller(c)
    \/ pc[c] # "new" /\ RollBack(c)
Inviting == \E u \in Users : ClearInvites(u) \/ \E r \in {Member, Admin} : Invite(u, r)

LEMMA Steps ==
    ASSUME [Next]_vars
    PROVE  \/ Inviting \/ UNCHANGED vars
           \/ \E n \in Invites : Withdraw(n) \/ Accept(n)
           \/ \E c \in Calls : Quiet(c) \/ SetRole(c) \/ Remove(c) \/ Transfer(c)
  BY DEF Next, Quiet, Inviting, NotFound, Refuse, SecondOwner, Fails

LEMMA QuietKeeps == ASSUME NEW c \in Calls, Quiet(c) PROVE UNCHANGED <<tableVars, inviteVars>>
  BY DEF Quiet, Begin, FindOwner, LockOwner, LockTarget, Check, LockCaller, RollBack

(* No update finds the company with two owners: the unique index refuses   *)
(* the acceptance and the transfer that would make the second one.         *)
THEOREM MembershipOneOwner == Spec => []OneOwner
<1>1. Init => OneOwner
  BY DEF Init, OneOwner, Owners
<1>2. TypeOK /\ OneOwner /\ [Next]_vars => OneOwner'
  <2> SUFFICES ASSUME TypeOK, OneOwner, [Next]_vars PROVE OneOwner'
    OBVIOUS
  <2>1. CASE UNCHANGED role
    BY <2>1 DEF OneOwner, Owners
  <2>2. ASSUME NEW n \in Invites, Accept(n) PROVE OneOwner'
    <3>1. invitee[n] \in Users /\ offered[n] \in Roles /\ role \in [Users -> Roles]
      BY DEF TypeOK
    <3>2. role' = [role EXCEPT ![invitee[n]] = Higher(offered[n], @)]
      BY <2>2 DEF Accept
    <3>3. CASE offered[n] = Owner
      <4>1. \A u \in Users \ {invitee[n]} : role'[u] # Owner
        BY <2>2, <3>1, <3>2, <3>3 DEF Accept, OwnerBesides
      <4> QED
        BY <4>1 DEF OneOwner, Owners
    <3>4. CASE offered[n] # Owner
      <4>1. \A u \in Users : role'[u] = Owner => role[u] = Owner
        BY <3>1, <3>2, <3>4 DEF Higher
      <4> QED
        BY <4>1 DEF OneOwner, Owners
    <3> QED
      BY <3>3, <3>4
  <2>3. ASSUME NEW c \in Calls, SetRole(c) \/ Remove(c) PROVE OneOwner'
    <3>1. \A u \in Users : role'[u] = Owner => role[u] = Owner
      <4>1. role \in [Users -> Roles] /\ target[c] \in Users
        BY DEF TypeOK
      <4>2. wanted[c] \in {Member, Admin}
        BY DEF TypeOK
      <4>3. CASE role' = [role EXCEPT ![target[c]] = wanted[c]]
        BY <4>1, <4>2, <4>3
      <4>4. CASE role' = [role EXCEPT ![target[c]] = Absent]
        BY <4>1, <4>4
      <4> QED
        BY <2>3, <4>3, <4>4 DEF SetRole, Remove
    <3> QED
      BY <3>1 DEF OneOwner, Owners
  <2>4. ASSUME NEW c \in Calls, Transfer(c) PROVE OneOwner'
    <3>1. \A u \in Users : role'[u] = Owner => u = target[c]
      BY <2>4 DEF Transfer, Handed, OwnerBesides, TypeOK
    <3> QED
      BY <3>1 DEF OneOwner, Owners
  <2>5. Inviting \/ UNCHANGED vars => UNCHANGED role
    BY DEF Inviting, ClearInvites, Invite, vars
  <2> QED
    BY <2>1, <2>2, <2>3, <2>4, <2>5, Steps, QuietKeeps DEF Withdraw
<1> QED
  BY <1>1, <1>2, MembershipTyped, PTL DEF Spec

-----------------------------------------------------------------------------
(* Until the invited owner accepts, the company is empty.                  *)
Founded ==
    Owners = {} =>
        /\ \A u \in Users : role[u] = Absent
        /\ \A c \in Calls : pc[c] = "new"
        /\ \A n \in live : offered[n] = Owner

(* From its check on, a call holds the row of its target, and what it read *)
(* there stays true; a transfer that writes holds its caller's row as well.*)
Holds(c) ==
    /\ pc[c] \in {"check", "caller", "write"} =>
        lock[target[c]] = c /\ before[c] = role[target[c]] /\ before[c] # Absent
    /\ pc[c] = "write" /\ op[c] = "transfer" => lock[caller[c]] = c

(* What the check has established of a call that waits to write.           *)
Cleared(c) ==
    /\ pc[c] = "caller" => op[c] = "transfer"
    /\ pc[c] \in {"caller", "write"} =>
        /\ op[c] = "transfer" => as[c] = Owner /\ caller[c] # target[c]
        /\ op[c] # "transfer" => before[c] # Owner
        /\ op[c] = "set" /\ before[c] = Admin => as[c] = Owner
        /\ op[c] = "remove" /\ before[c] = Admin => as[c] = Owner \/ Self(c)

LockInv == \A c \in Calls : Holds(c) /\ Cleared(c)
IInv == TypeOK /\ OneOwner /\ Founded /\ LockInv

(* A call that ends gives up its own locks only.                           *)
LEMMA FreedOthers ==
    ASSUME TypeOK, NEW c \in Calls, NEW d \in Calls, d # c, NEW u \in Users, lock[u] = d
    PROVE  Freed(c)[u] = d
  BY DEF Freed, TypeOK

(* Roles change only in rows that nobody, or the changing call, holds.     *)
LEMMA LockInvInit == Init => LockInv
  BY DEF Init, LockInv, Holds, Cleared

(* A call keeps what it holds while others move.                           *)
Same(d) ==
    /\ pc'[d] = pc[d] /\ op'[d] = op[d] /\ caller'[d] = caller[d] /\ target'[d] = target[d]
    /\ before'[d] = before[d] /\ as'[d] = as[d]
Apart(d) == \A u \in Users : lock[u] = d => lock'[u] = d /\ role'[u] = role[u]

LEMMA Kept ==
    ASSUME TypeOK, LockInv, NEW d \in Calls, Same(d), Apart(d)
    PROVE  Holds(d)' /\ Cleared(d)'
<1>1. caller[d] \in Users /\ target[d] \in Users
  BY DEF TypeOK
<1>2. Holds(d) /\ Cleared(d)
  BY DEF LockInv
<1>3. Holds(d)'
  BY <1>1, <1>2 DEF Holds, Same, Apart
<1>4. Cleared(d)'
  BY <1>2 DEF Cleared, Self, Same
<1> QED
  BY <1>3, <1>4

LEMMA LockInvStep == TypeOK /\ LockInv /\ [Next]_vars => LockInv'
<1> SUFFICES ASSUME TypeOK, LockInv, [Next]_vars PROVE LockInv'
  OBVIOUS
<1>1. CASE UNCHANGED <<role, lock, pc, op, caller, target, before, as>>
  BY <1>1, Kept DEF LockInv, Same, Apart
<1>2. ASSUME NEW n \in Invites, Accept(n) PROVE LockInv'
  <2>1. invitee[n] \in Users /\ lock[invitee[n]] = Nobody /\ role \in [Users -> Roles]
    BY <1>2 DEF Accept, TypeOK
  <2>2. \A u \in Users : u # invitee[n] => role'[u] = role[u]
    BY <1>2, <2>1 DEF Accept
  <2>3. \A d \in Calls : Same(d) /\ Apart(d)
    BY <1>2, <2>1, <2>2 DEF Accept, callVars, Same, Apart
  <2> QED
    BY <2>3, Kept DEF LockInv
<1>3. ASSUME NEW c \in Calls, Quiet(c) PROVE LockInv'
  <2>1. role' = role
    BY <1>3, QuietKeeps
  <2>2. ASSUME NEW d \in Calls, d # c PROVE Holds(d)' /\ Cleared(d)'
    <3>1. Same(d)
      BY <1>3, <2>2 DEF Quiet, Begin, FindOwner, LockOwner, LockTarget, Check, LockCaller,
         RollBack, TypeOK, Same
    <3>2. Apart(d)
      <4>1. CASE lock' = lock
        BY <2>1, <4>1 DEF Apart
      <4>2. CASE lock' = Freed(c)
        BY <2>1, <2>2, <4>2, FreedOthers DEF Apart
      <4>3. CASE \E v \in Users : lock[v] \in {Nobody, c} /\ lock' = [lock EXCEPT ![v] = c]
        BY <2>1, <2>2, <4>3 DEF Apart, TypeOK
      <4>4. target[c] \in Users /\ caller[c] \in Users
        BY DEF TypeOK
      <4> QED
        BY <1>3, <4>1, <4>2, <4>3, <4>4 DEF Quiet, Begin, FindOwner, LockOwner, LockTarget,
           Check, LockCaller, RollBack
    <3> QED
      BY <3>1, <3>2, Kept
  <2>3. ASSUME pc'[c] \notin {"check", "caller", "write"} PROVE Holds(c)' /\ Cleared(c)'
    BY <2>3 DEF Holds, Cleared
  <2>4. CASE LockTarget(c)
    <3>1. pc'[c] = "check" /\ target'[c] = target[c] /\ target[c] \in Users
      BY <2>4 DEF LockTarget, argVars, TypeOK
    <3>2. lock'[target[c]] = c /\ before'[c] = role[target[c]] /\ before'[c] # Absent
      BY <2>4, <3>1 DEF LockTarget, Present, TypeOK
    <3> QED
      BY <2>1, <2>2, <3>1, <3>2 DEF LockInv, Holds, Cleared
  <2>5. CASE Check(c)
    <3>1. Holds(c)'
      BY <2>1, <2>5 DEF Check, TypeOK, LockInv, Holds
    <3>2. PICK r \in Roles : r = role[caller[c]]
      BY DEF TypeOK
    <3>3. as'[c] = r /\ before'[c] = before[c] /\ op'[c] = op[c] /\ Self(c)' = Self(c)
      BY <2>5, <3>2 DEF Check, TypeOK, Self
    <3>4. pc'[c] = IF op[c] = "transfer" THEN "caller" ELSE "write"
      BY <2>5 DEF Check, TypeOK
    <3>5. Allowed(c) /\ before[c] \in Roles
      BY <2>5 DEF Check, TypeOK
    <3>6. Cleared(c)'
      BY <3>2, <3>3, <3>4, <3>5 DEF Allowed, Self, Cleared
    <3> QED
      BY <2>2, <3>1, <3>6 DEF LockInv
  <2>6. CASE LockCaller(c)
    <3>1. Holds(c)'
      BY <2>1, <2>6 DEF LockCaller, TypeOK, LockInv, Holds
    <3>2. Cleared(c)'
      BY <2>6 DEF LockCaller, TypeOK, LockInv, Cleared, Self
    <3> QED
      BY <2>2, <3>1, <3>2 DEF LockInv
  <2>7. CASE ~(LockTarget(c) \/ Check(c) \/ LockCaller(c))
    <3>1. pc'[c] \notin {"check", "caller", "write"}
      BY <1>3, <2>7 DEF Quiet, Begin, FindOwner, LockOwner, RollBack, TypeOK
    <3> QED
      BY <2>2, <2>3, <3>1 DEF LockInv
  <2> QED
    BY <2>4, <2>5, <2>6, <2>7
<1>4. ASSUME NEW c \in Calls, pc[c] = "write", Commit(c),
             \A u \in Users : lock[u] # c => role'[u] = role[u]
      PROVE LockInv'
  <2>1. ASSUME NEW d \in Calls, d # c PROVE Same(d) /\ Apart(d)
    <3>1. Same(d)
      BY <1>4, <2>1 DEF Commit, argVars, TypeOK, Same
    <3>2. lock' = Freed(c)
      BY <1>4 DEF Commit
    <3> QED
      BY <1>4, <2>1, <3>1, <3>2, FreedOthers DEF Apart
  <2>2. Holds(c)' /\ Cleared(c)'
    BY <1>4 DEF Commit, TypeOK, Holds, Cleared
  <2> QED
    BY <2>1, <2>2, Kept DEF LockInv
<1>5. ASSUME NEW c \in Calls, SetRole(c) \/ Remove(c) \/ Transfer(c) PROVE LockInv'
  <2>1. role \in [Users -> Roles] /\ lock[target[c]] = c
    BY <1>5 DEF SetRole, Remove, Transfer, TypeOK, LockInv, Holds
  <2>2. CASE SetRole(c) \/ Remove(c)
    BY <1>4, <2>1, <2>2 DEF SetRole, Remove
  <2>3. CASE Transfer(c)
    <3>1. lock[caller[c]] = c
      BY <2>3 DEF Transfer, LockInv, Holds
    <3>2. \A u \in Users : lock[u] # c => role'[u] = role[u]
      BY <2>1, <2>3, <3>1 DEF Transfer, Handed
    <3> QED
      BY <1>4, <2>3, <3>2 DEF Transfer
  <2> QED
    BY <1>5, <2>2, <2>3
<1>6. Inviting \/ UNCHANGED vars \/ (\E n \in Invites : Withdraw(n))
        => UNCHANGED <<role, lock, pc, op, caller, target, before, as>>
  BY DEF Inviting, ClearInvites, Invite, Withdraw, vars, tableVars, callVars
<1> QED
  BY <1>1, <1>2, <1>3, <1>5, <1>6, Steps

-----------------------------------------------------------------------------
(* The step of the invariant that ties the table to the invitations.       *)
LEMMA FoundedInit == Init => Founded
<1> SUFFICES ASSUME Init PROVE Founded
  OBVIOUS
<1>1. PICK u \in Users :
        \/ role = [v \in Users |-> IF v = u THEN Owner ELSE Absent]
        \/ /\ role = [v \in Users |-> Absent] /\ live = {1}
           /\ offered = [n \in Invites |-> IF n = 1 THEN Owner ELSE Member]
  BY DEF Init
<1>2. CASE role = [v \in Users |-> IF v = u THEN Owner ELSE Absent]
  BY <1>2 DEF Founded, Owners
<1>3. CASE /\ role = [v \in Users |-> Absent] /\ live = {1}
           /\ offered = [n \in Invites |-> IF n = 1 THEN Owner ELSE Member]
  BY <1>3 DEF Init, Founded
<1> QED
  BY <1>1, <1>2, <1>3

(* The steps that change roles, one person at a time.                      *)
LEMMA AcceptRole ==
    ASSUME TypeOK, NEW n \in Invites, Accept(n)
    PROVE  /\ invitee[n] \in Users
           /\ \A v \in Users : v # invitee[n] => role'[v] = role[v]
           /\ role'[invitee[n]] >= role[invitee[n]]
           /\ role'[invitee[n]] \in {role[invitee[n]], offered[n]}
<1>1. invitee[n] \in Users /\ offered[n] \in Roles /\ role \in [Users -> Roles]
  BY DEF TypeOK
<1>2. role' = [role EXCEPT ![invitee[n]] = Higher(offered[n], @)]
  BY DEF Accept
<1>3. role'[invitee[n]] = Higher(offered[n], role[invitee[n]])
  BY <1>1, <1>2
<1> QED
  BY <1>1, <1>2, <1>3 DEF Higher

LEMMA SetOrRemoveRole ==
    ASSUME TypeOK, LockInv, NEW c \in Calls, SetRole(c) \/ Remove(c)
    PROVE  /\ target[c] \in Users /\ role[target[c]] \in {Member, Admin}
           /\ \A v \in Users : v # target[c] => role'[v] = role[v]
           /\ SetRole(c) => role'[target[c]] \in {Member, Admin}
           /\ Remove(c) => role'[target[c]] = Absent
<1>1. target[c] \in Users /\ wanted[c] \in {Member, Admin} /\ role \in [Users -> Roles]
  BY DEF TypeOK
<1>2. before[c] = role[target[c]] /\ before[c] # Absent /\ before[c] # Owner
  BY DEF SetRole, Remove, LockInv, Holds, Cleared
<1>3. role[target[c]] \in {Member, Admin}
  BY <1>1, <1>2
<1> QED
  BY <1>1, <1>3 DEF SetRole, Remove

LEMMA TransferRole ==
    ASSUME TypeOK, LockInv, NEW c \in Calls, Transfer(c)
    PROVE  /\ caller[c] \in Users /\ target[c] \in Users /\ caller[c] # target[c]
           /\ role[target[c]] # Absent /\ role'[target[c]] = Owner
           /\ \A v \in Users \ {caller[c], target[c]} : role'[v] = role[v] /\ role[v] # Owner
           /\ role'[caller[c]] = IF role[caller[c]] = Absent THEN Absent ELSE Admin
<1>1. caller[c] \in Users /\ target[c] \in Users
  BY DEF TypeOK
<1>2. caller[c] # target[c] /\ role[target[c]] # Absent
  BY DEF Transfer, LockInv, Holds, Cleared
<1>3. role' = Handed(c) /\ ~OwnerBesides({caller[c], target[c]})
  BY DEF Transfer
<1> QED
  BY <1>1, <1>2, <1>3 DEF Handed, OwnerBesides

LEMMA FoundedStep == TypeOK /\ LockInv /\ Founded /\ [Next]_vars => Founded'
<1> SUFFICES ASSUME TypeOK, LockInv, Founded, [Next]_vars PROVE Founded'
  OBVIOUS
<1>1. CASE UNCHANGED <<role, live, offered, pc>>
  BY <1>1 DEF Founded, Owners
<1>2. CASE Owners # {} /\ UNCHANGED role
  BY <1>2 DEF Founded, Owners
<1>3. ASSUME NEW n \in Invites, Withdraw(n) PROVE Founded'
  BY <1>3 DEF Withdraw, tableVars, callVars, Founded, Owners
<1>4. ASSUME NEW n \in Invites, Accept(n) PROVE Founded'
  <2>1. CASE Owners = {}
    <3>1. offered[n] = Owner /\ role[invitee[n]] = Absent
      BY <1>4, <2>1, AcceptRole DEF Accept, Founded
    <3>2. role'[invitee[n]] = Owner
      BY <1>4, <3>1 DEF Accept, Higher, TypeOK
    <3> QED
      BY <1>4, <3>2, AcceptRole DEF Founded, Owners
  <2>2. ASSUME NEW w \in Users, role[w] = Owner PROVE role'[w] = Owner
    <3>1. CASE w = invitee[n]
      <4>1. offered[n] \in Roles /\ role'[w] \in {Owner, offered[n]} /\ role'[w] >= Owner
        BY <1>4, <2>2, <3>1, AcceptRole DEF TypeOK
      <4> QED
        BY <4>1
    <3> QED
      BY <1>4, <2>2, <3>1, AcceptRole
  <2> QED
    BY <2>1, <2>2 DEF Founded, Owners
<1>5. ASSUME NEW c \in Calls, SetRole(c) \/ Remove(c) PROVE Founded'
  <2>1. role[target[c]] # Absent /\ role[target[c]] # Owner /\ target[c] \in Users
    BY <1>5, SetOrRemoveRole
  <2>2. PICK w \in Users : role[w] = Owner
    BY <2>1 DEF Founded, Owners
  <2>3. role'[w] = Owner
    BY <1>5, <2>1, <2>2, SetOrRemoveRole
  <2> QED
    BY <2>3 DEF Founded, Owners
<1>6. ASSUME NEW c \in Calls, Transfer(c) PROVE Founded'
  BY <1>6, TransferRole DEF Founded, Owners
<1>7. ASSUME NEW c \in Calls, Quiet(c) PROVE Founded'
  <2>1. UNCHANGED <<role, live, offered>>
    BY <1>7, QuietKeeps DEF tableVars, inviteVars
  <2>2. CASE Owners = {}
    <3>1. pc[c] = "new" /\ \A u \in Users : role[u] = Absent
      BY <2>2 DEF Founded
    <3> QED
      BY <1>7, <3>1 DEF Quiet, Begin, FindOwner, LockOwner, LockTarget, Check, LockCaller
  <2> QED
    BY <1>2, <2>1, <2>2
<1>8. CASE Inviting
  <2>1. PICK v \in Users : role[v] >= Admin
    BY <1>8 DEF Inviting, ClearInvites, Invite
  <2>2. role[v] # Absent
    BY <2>1
  <2>3. Owners # {} /\ UNCHANGED role
    BY <1>8, <2>2 DEF Founded, Inviting, ClearInvites, Invite, tableVars
  <2> QED
    BY <1>2, <2>3
<1>9. UNCHANGED vars => UNCHANGED <<role, live, offered, pc>>
  BY DEF vars
<1> QED
  BY <1>1, <1>3, <1>4, <1>5, <1>6, <1>7, <1>8, <1>9, Steps

-----------------------------------------------------------------------------
(* The invariant behind the two theorems below.                            *)
THEOREM MembershipInvariant == Spec => []IInv
<1>1. Init => Founded /\ LockInv
  BY FoundedInit, LockInvInit
<1>2. TypeOK /\ LockInv /\ Founded /\ [Next]_vars => Founded' /\ LockInv'
  BY FoundedStep, LockInvStep
<1> QED
  BY <1>1, <1>2, MembershipTyped, MembershipOneOwner, PTL DEF Spec, IInv

(* Admins and the owner are touched by the owner's calls only, or leave: a *)
(* call holds its target's row from its check to its commit, so the role   *)
(* it judged is the role it changes.                                       *)
THEOREM MembershipAdminsSafe == Spec => AdminsSafe
<1> DEFINE Lost(u) == role[u] >= Admin /\ role'[u] < role[u]
           ByRight(u) == \E c \in Calls :
               /\ pc[c] = "write" /\ pc'[c] = "done"
               /\ as[c] = Owner \/ (op[c] = "remove" /\ caller[c] = u)
<1>1. ASSUME IInv, [Next]_vars, NEW u \in Users, Lost(u) PROVE ByRight(u)
  <2>1. TypeOK /\ LockInv /\ role[u] \in Roles
    BY <1>1 DEF IInv, TypeOK
  <2>2. role' # role
    BY <1>1, <2>1
  <2>3. ASSUME NEW n \in Invites, Accept(n) PROVE FALSE
    <3>1. role[invitee[n]] \in Roles /\ offered[n] \in Roles
      BY <2>1, <2>3, AcceptRole DEF TypeOK
    <3>2. CASE u = invitee[n]
      BY <1>1, <2>1, <2>3, <3>1, <3>2, AcceptRole
    <3>3. CASE u # invitee[n]
      BY <1>1, <2>1, <2>3, <3>3, AcceptRole
    <3> QED
      BY <3>2, <3>3
  <2>4. ASSUME NEW c \in Calls, SetRole(c) \/ Remove(c) PROVE ByRight(u)
    <3>1. u = target[c] /\ role[u] = Admin
      BY <1>1, <2>1, <2>4, SetOrRemoveRole
    <3>2. pc[c] = "write" /\ pc'[c] = "done" /\ op[c] \in {"set", "remove"}
      BY <2>1, <2>4 DEF SetRole, Remove, Commit, TypeOK
    <3>3. before[c] = Admin
      BY <2>1, <3>1, <3>2 DEF LockInv, Holds
    <3>4. as[c] = Owner \/ (op[c] = "remove" /\ caller[c] = u)
      BY <2>1, <3>1, <3>2, <3>3 DEF LockInv, Cleared, Self
    <3> QED
      BY <3>2, <3>4
  <2>5. ASSUME NEW c \in Calls, Transfer(c) PROVE ByRight(u)
    <3>1. pc[c] = "write" /\ pc'[c] = "done" /\ as[c] = Owner
      BY <2>1, <2>5 DEF Transfer, Commit, TypeOK, LockInv, Cleared
    <3> QED
      BY <3>1
  <2>6. Inviting \/ UNCHANGED vars \/ (\E n \in Invites : Withdraw(n)) => UNCHANGED role
    BY DEF Inviting, ClearInvites, Invite, Withdraw, vars, tableVars
  <2> QED
    BY <1>1, <2>2, <2>3, <2>4, <2>5, <2>6, Steps, QuietKeeps DEF tableVars
<1>2. IInv /\ [Next]_vars => [\A u \in Users : Lost(u) => ByRight(u)]_vars
  BY <1>1
<1> QED
  BY <1>2, MembershipInvariant, PTL DEF Spec, AdminsSafe

-----------------------------------------------------------------------------
(* The refinement mapping.                                                 *)
LEMMA OwnerNow ==
    ASSUME OneOwner, NEW u \in Users, role[u] = Owner
    PROVE  TheOwner = u
  BY DEF OneOwner, Owners, TheOwner
LEMMA OwnerNext ==
    ASSUME OneOwner', NEW u \in Users, role'[u] = Owner
    PROVE  TheOwner' = u
  BY DEF OneOwner, Owners, TheOwner

LEMMA SameCompany == ASSUME UNCHANGED role PROVE UNCHANGED <<TheOwner, People>>
  BY DEF TheOwner, Owners, People

LEMMA AcceptRefines ==
    ASSUME IInv, OneOwner', NEW n \in Invites, Accept(n)
    PROVE  Company!Next \/ UNCHANGED <<TheOwner, People>>
<1> DEFINE u == invitee[n]
<1>1. TypeOK /\ Founded /\ OneOwner /\ role \in [Users -> Roles]
  BY DEF IInv, TypeOK
<1>2. /\ u \in Users /\ \A v \in Users : v # u => role'[v] = role[v]
      /\ role'[u] >= role[u] /\ role'[u] \in {role[u], offered[n]}
  BY <1>1, AcceptRole
<1>3. role[u] \in Roles /\ offered[n] \in Roles
  BY <1>1, <1>2 DEF TypeOK
<1>4. CASE Owners = {}
  <2>1. \A v \in Users : role[v] = Absent
    BY <1>1, <1>4 DEF Founded
  <2>2. offered[n] = Owner
    BY <1>1, <1>4 DEF Accept, Founded
  <2>3. role'[u] = Owner
    BY <1>2, <2>1, <2>2 DEF Accept, Higher, TypeOK, IInv
  <2>4. TheOwner = Nobody /\ TheOwner' = u
    BY <1>2, <1>4, <2>3, OwnerNext DEF TheOwner
  <2>5. People' = {u}
    BY <1>2, <2>1, <2>3 DEF People
  <2> QED
    BY <1>2, <2>4, <2>5 DEF Company!Next, Company!Found
<1>5. CASE Owners # {}
  <2>1. PICK w \in Users : role[w] = Owner
    BY <1>5 DEF Owners
  <2>2. role'[w] = Owner
    BY <1>2, <1>3, <2>1
  <2>3. TheOwner = w /\ TheOwner' = w /\ w # Nobody
    BY <1>1, <2>1, <2>2, OwnerNow, OwnerNext
  <2>4. CASE role[u] = Absent /\ role'[u] # Absent
    <3>1. u \notin People /\ People' = People \cup {u}
      BY <1>2, <2>4 DEF People
    <3> QED
      BY <1>2, <2>3, <3>1 DEF Company!Next, Company!Join
  <2>5. CASE ~(role[u] = Absent /\ role'[u] # Absent)
    <3>1. role'[u] = Absent <=> role[u] = Absent
      BY <1>2, <1>3, <2>5
    <3>2. People' = People
      BY <1>2, <3>1 DEF People
    <3> QED
      BY <2>3, <3>2
  <2> QED
    BY <2>4, <2>5
<1> QED
  BY <1>4, <1>5

LEMMA CallRefines ==
    ASSUME IInv, OneOwner', NEW c \in Calls, SetRole(c) \/ Remove(c) \/ Transfer(c)
    PROVE  Company!Next \/ UNCHANGED <<TheOwner, People>>
<1> DEFINE t == target[c]
<1>1. TypeOK /\ Founded /\ OneOwner /\ LockInv /\ role \in [Users -> Roles]
  BY DEF IInv, TypeOK
<1>2. CASE SetRole(c) \/ Remove(c)
  <2>1. /\ t \in Users /\ role[t] # Absent /\ role[t] # Owner
        /\ \A v \in Users : v # t => role'[v] = role[v]
    BY <1>1, <1>2, SetOrRemoveRole
  <2>2. PICK w \in Users : role[w] = Owner
    BY <1>1, <2>1 DEF Founded, Owners
  <2>3. TheOwner = w /\ TheOwner' = w /\ w # t
    BY <1>1, <2>1, <2>2, OwnerNow, OwnerNext
  <2>4. CASE SetRole(c)
    <3>1. role'[t] # Absent
      BY <1>1, <2>4, SetOrRemoveRole
    <3>2. People' = People
      BY <2>1, <3>1 DEF People
    <3> QED
      BY <2>3, <3>2
  <2>5. CASE Remove(c)
    <3>1. role'[t] = Absent
      BY <1>1, <2>5, SetOrRemoveRole
    <3>2. t \in People \ {TheOwner} /\ People' = People \ {t}
      BY <2>1, <2>3, <3>1 DEF People
    <3> QED
      BY <2>1, <2>3, <3>2 DEF Company!Next, Company!Leave
  <2> QED
    BY <1>2, <2>4, <2>5
<1>3. CASE Transfer(c)
  <2> DEFINE k == caller[c]
  <2>1. /\ k \in Users /\ t \in Users /\ k # t
        /\ role[t] # Absent /\ role'[t] = Owner
        /\ \A v \in Users \ {k, t} : role'[v] = role[v] /\ role[v] # Owner
        /\ role'[k] = IF role[k] = Absent THEN Absent ELSE Admin
    BY <1>1, <1>3, TransferRole
  <2>2. PICK w \in Users : role[w] = Owner
    BY <1>1, <2>1 DEF Founded, Owners
  <2>3. w \in {k, t} /\ TheOwner = w /\ TheOwner' = t
    BY <1>1, <2>1, <2>2, OwnerNow, OwnerNext
  <2>4. People' = People
    BY <2>1 DEF People
  <2>5. CASE w = t
    BY <2>3, <2>4, <2>5
  <2>6. CASE w # t
    <3>1. t \in People \ {TheOwner}
      BY <2>1, <2>3, <2>6 DEF People
    <3> QED
      BY <2>1, <2>3, <2>4, <3>1 DEF Company!Next, Company!HandOver
  <2> QED
    BY <2>5, <2>6
<1> QED
  BY <1>2, <1>3

(* Every behaviour of the calls and invitations is one of Tenancy: each    *)
(* commit is one of its steps or none, so ownership is never lost, shared  *)
(* or given to someone outside the company.                                *)
THEOREM MembershipOwnershipHandedOver == Spec => OwnershipHandedOver
<1>1. Init => Company!Init
  <2> SUFFICES ASSUME Init PROVE Company!Init
    OBVIOUS
  <2>1. PICK u \in Users :
          \/ role = [v \in Users |-> IF v = u THEN Owner ELSE Absent]
          \/ role = [v \in Users |-> Absent]
    BY DEF Init
  <2>2. CASE role = [v \in Users |-> IF v = u THEN Owner ELSE Absent]
    <3>1. People = {u} /\ OneOwner /\ role[u] = Owner
      BY <2>2 DEF People, OneOwner, Owners
    <3>2. TheOwner = u
      BY <3>1, OwnerNow
    <3> QED
      BY <3>1, <3>2 DEF Company!Init
  <2>3. CASE role = [v \in Users |-> Absent]
    <3>1. People = {} /\ TheOwner = Nobody
      BY <2>3 DEF People, TheOwner, Owners
    <3> QED
      BY <3>1 DEF Company!Init
  <2> QED
    BY <2>1, <2>2, <2>3
<1>2. IInv /\ OneOwner' /\ [Next]_vars => [Company!Next]_<<TheOwner, People>>
  <2> SUFFICES ASSUME IInv, OneOwner', [Next]_vars
               PROVE  Company!Next \/ UNCHANGED <<TheOwner, People>>
    OBVIOUS
  <2>1. CASE UNCHANGED role
    BY <2>1, SameCompany
  <2>2. Inviting \/ UNCHANGED vars \/ (\E n \in Invites : Withdraw(n)) => UNCHANGED role
    BY DEF Inviting, ClearInvites, Invite, Withdraw, vars, tableVars
  <2> QED
    BY <2>1, <2>2, Steps, QuietKeeps, AcceptRefines, CallRefines DEF tableVars
<1> QED
  BY <1>1, <1>2, MembershipInvariant, MembershipOneOwner, PTL DEF Spec, OwnershipHandedOver, Company!Spec
====
