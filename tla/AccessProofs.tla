----------------------------- MODULE AccessProofs -----------------------------
(***************************************************************************)
(* The safety of ConnectionAccess for every set of sign-ins and runs.      *)
(***************************************************************************)
EXTENDS ConnectionAccess, TLAPS

USE AccessAssumption DEF tokenVars, signInVars, vendorVars, runVars

-----------------------------------------------------------------------------
(* Typing *)

LEMMA NewStatusTyped ==
    ASSUME NEW old \in Status, NEW health PROVE NewStatus(old, health) \in Status
  BY DEF NewStatus, Status, Active

LEMMA AnswerTyped ==
    ASSUME TypeOK, NEW w \in Workers, held[w] \in TokenSet, NEW n \in Nat
    PROVE  Answer(w, n) \in TokenSet /\ Answer(w, n).rotated > held[w].rotated
<1>1. at[w] \in Nat /\ held[w].rotated \in Nat /\ held[w].grant \in SignIns
  BY DEF TypeOK, TokenSet
<1>2. RotatedAt(w) \in Nat /\ RotatedAt(w) > held[w].rotated
  BY <1>1 DEF RotatedAt
<1> QED
  BY <1>1, <1>2 DEF Answer, TokenSet

(* What an answered or lost renewal does, without its habits.              *)
LEMMA AskEffect ==
    ASSUME TypeOK, NEW w \in Workers, Ask(w)
    PROVE  LET g == held[w].grant IN
           /\ pc[w] = "ask" /\ held[w] \in TokenSet /\ g \in SignIns
           /\ held[w].token = live[g]
           /\ \/ live' = live /\ "keep" \in Habits
              \/ live' = [live EXCEPT ![g] = @ + 1]
           /\ \/ /\ fresh' = [fresh EXCEPT ![w] = Answer(w, live'[g])]
                 /\ at' = [at EXCEPT ![w] = 0]
                 /\ pc' = [pc EXCEPT ![w] = "save"]
                 /\ UNCHANGED <<held, seen, lost, faults>>
              \/ /\ Leave(w, "run") /\ Fault
                 /\ lost' = lost \cup {g}
           /\ UNCHANGED <<clock, status, secret, holder, drop, signIn, grantAt>>
<1>1. pc[w] = "ask" /\ held[w] \in TokenSet /\ held[w].grant \in SignIns
  BY DEF Ask, TypeOK, TokenSet
<1>2. PICK habit \in Habits :
         /\ live' = IF habit = "rotate" THEN [live EXCEPT ![held[w].grant] = @ + 1] ELSE live
         /\ \/ /\ fresh' = [fresh EXCEPT ![w] = Answer(w, live'[held[w].grant])]
               /\ at' = [at EXCEPT ![w] = 0]
               /\ Go(w, "save")
               /\ UNCHANGED <<held, seen, lost, faults>>
            \/ /\ Fault /\ Leave(w, "run")
               /\ lost' = lost \cup {held[w].grant}
  BY DEF Ask
<1>3. habit = "keep" \/ habit = "rotate"
  OBVIOUS
<1>4. \/ live' = live /\ "keep" \in Habits
      \/ live' = [live EXCEPT ![held[w].grant] = @ + 1]
  BY <1>2, <1>3
<1> QED
  BY <1>1, <1>2, <1>4 DEF Ask, Accepted, Go

LEMMA LeaveTyped ==
    ASSUME TypeOK, NEW w \in Workers, NEW step \in {"off", "run"}, Leave(w, step)
    PROVE  /\ pc' \in [Workers -> {"off", "run", "get", "ask", "save", "health"}]
           /\ at' \in [Workers -> Nat]
           /\ held' \in [Workers -> TokenSet \cup {None}]
           /\ fresh' \in [Workers -> TokenSet \cup {None}]
           /\ seen' \in [Workers -> Status]
           /\ \A v \in Workers : /\ pc'[v] \in {"ask", "save"} => held'[v] \in TokenSet
                                 /\ pc'[v] = "save" => fresh'[v] \in TokenSet
<1>1. "not_connected" \in Status
  BY DEF Status
<1>2. \A v \in Workers : pc'[v] \in {"ask", "save"} =>
          pc'[v] = pc[v] /\ held'[v] = held[v] /\ fresh'[v] = fresh[v]
  BY DEF Leave, Go, TypeOK
<1> QED
  BY <1>1, <1>2 DEF Leave, Go, TypeOK

(* Every reachable state is well typed.                                    *)
THEOREM AccessTyped == Spec => []TypeOK
<1>1. Init => TypeOK
  BY DEF Init, TypeOK, Status
<1>2. TypeOK /\ [Next]_vars => TypeOK'
  <2> SUFFICES ASSUME TypeOK, [Next]_vars PROVE TypeOK'
    OBVIOUS
  <2>1. CASE Tick
    BY <2>1 DEF Tick, TypeOK
  <2>2. CASE Disconnect \/ CommitDisconnect
    BY <2>2 DEF Disconnect, CommitDisconnect, TypeOK, Status
  <2>3. ASSUME NEW s \in SignIns, Begin(s) \/ Consume(s) \/ Exchange(s) PROVE TypeOK'
    <3>1. status' \in Status
      BY <2>3 DEF Begin, Consume, Exchange, TypeOK, Status
    <3>2. live' \in [SignIns -> Nat] /\ grantAt' \in [SignIns -> Nat]
      BY <2>3 DEF Begin, Consume, Exchange, TypeOK
    <3>3. signIn' \in [SignIns -> {"off", "begun", "exchange", "store", "stored", "done"}]
      BY <2>3 DEF Begin, Consume, Exchange, TypeOK
    <3>4. UNCHANGED <<clock, secret, holder, drop, lost, pc, at, held, fresh, seen, faults>>
      BY <2>3 DEF Begin, Consume, Exchange
    <3> QED
      BY <3>1, <3>2, <3>3, <3>4 DEF TypeOK
  <2>4. ASSUME NEW s \in SignIns, Upsert(s) \/ SignInFails(s) PROVE TypeOK'
    BY <2>4 DEF Upsert, SignInFails, Fault, TypeOK
  <2>5. ASSUME NEW s \in SignIns, CommitSignIn(s) PROVE TypeOK'
    <3>1. secret' \in TokenSet
      BY <2>5 DEF CommitSignIn, TypeOK, TokenSet
    <3>2. status' \in Status
      BY <2>5 DEF CommitSignIn, TypeOK, Status, Active
    <3> QED
      BY <2>5, <3>1, <3>2 DEF CommitSignIn, TypeOK
  <2>6. ASSUME NEW w \in Workers, Start(w) \/ Refresh(w) \/ HealthRead(w) PROVE TypeOK'
    <3>1. \A v \in Workers : pc'[v] \in {"ask", "save"} => pc'[v] = pc[v]
      BY <2>6 DEF Start, Refresh, HealthRead, Go, TypeOK
    <3>2. pc' \in [Workers -> {"off", "run", "get", "ask", "save", "health"}]
      BY <2>6 DEF Start, Refresh, HealthRead, Go, TypeOK
    <3>3. at' \in [Workers -> Nat] /\ seen' \in [Workers -> Status]
      BY <2>6 DEF Start, Refresh, HealthRead, TypeOK
    <3> QED
      BY <2>6, <3>1, <3>2, <3>3 DEF Start, Refresh, HealthRead, TypeOK
  <2>7. ASSUME NEW w \in Workers, Get(w) PROVE TypeOK'
    <3>1. CASE secret = None
      BY <2>7, <3>1, LeaveTyped DEF Get, TypeOK
    <3>2. CASE secret # None
      <4>1. pc' = [pc EXCEPT ![w] = "ask"] /\ held' = [held EXCEPT ![w] = secret]
            /\ secret \in TokenSet
        BY <2>7, <3>2 DEF Get, Go, TypeOK
      <4>2. \A v \in Workers : /\ pc'[v] \in {"ask", "save"} => held'[v] \in TokenSet
                               /\ pc'[v] = "save" => fresh[v] \in TokenSet
        BY <4>1 DEF TypeOK
      <4> QED
        BY <2>7, <3>2, <4>1, <4>2 DEF Get, TypeOK
    <3> QED
      BY <3>1, <3>2
  <2>8. ASSUME NEW w \in Workers, Ask(w) PROVE TypeOK'
    <3>1. live' \in [SignIns -> Nat] /\ lost' \in SUBSET SignIns /\ faults' \in Nat
      BY <2>8, AskEffect DEF TypeOK, Fault
    <3>2. held[w].grant \in SignIns /\ live'[held[w].grant] \in Nat
      BY <2>8, <3>1, AskEffect
    <3>3. CASE Leave(w, "run")
      <4>1. UNCHANGED <<clock, status, secret, holder, drop, signIn, grantAt>>
        BY <2>8, AskEffect
      <4> QED
        BY <3>1, <3>3, <4>1, LeaveTyped DEF TypeOK
    <3>4. CASE /\ fresh' = [fresh EXCEPT ![w] = Answer(w, live'[held[w].grant])]
               /\ at' = [at EXCEPT ![w] = 0]
               /\ pc' = [pc EXCEPT ![w] = "save"]
               /\ UNCHANGED <<held, seen, lost, faults>>
      <4>1. Answer(w, live'[held[w].grant]) \in TokenSet
        BY <2>8, <3>2, AskEffect, AnswerTyped
      <4>2. \A v \in Workers : /\ pc'[v] \in {"ask", "save"} => held[v] \in TokenSet
                               /\ pc'[v] = "save" => fresh'[v] \in TokenSet
        BY <2>8, <3>4, <4>1, AskEffect DEF TypeOK
      <4>3. fresh' \in [Workers -> TokenSet \cup {None}] /\ at' \in [Workers -> Nat]
        BY <3>4, <4>1 DEF TypeOK
      <4>4. pc' \in [Workers -> {"off", "run", "get", "ask", "save", "health"}]
        BY <3>4 DEF TypeOK
      <4> QED
        BY <2>8, <3>1, <3>4, <4>2, <4>3, <4>4, AskEffect DEF TypeOK
    <3> QED
      BY <2>8, <3>3, <3>4, AskEffect
  <2>9. ASSUME NEW w \in Workers, Refused(w) \/ Save(w) PROVE TypeOK'
    <3>1. secret' \in TokenSet \cup {None}
      BY <2>9 DEF Refused, Save, TypeOK
    <3> QED
      BY <2>9, <3>1, LeaveTyped DEF Refused, Save, TypeOK
  <2>10. ASSUME NEW w \in Workers, SaveFails(w) \/ Crash(w) PROVE TypeOK'
    <3>1. lost' \in SUBSET SignIns /\ faults' \in Nat
      BY <2>10 DEF SaveFails, Crash, Fault, TypeOK, TokenSet
    <3> QED
      BY <2>10, <3>1, LeaveTyped DEF SaveFails, Crash, TypeOK
  <2>11. ASSUME NEW w \in Workers, HealthWrite(w) PROVE TypeOK'
    <3>1. status' \in Status
      BY <2>11, NewStatusTyped DEF HealthWrite, TypeOK
    <3> QED
      BY <2>11, <3>1, LeaveTyped DEF HealthWrite, TypeOK
  <2>12. CASE UNCHANGED vars
    BY <2>12 DEF vars, TypeOK
  <2> QED
    BY <2>1, <2>2, <2>3, <2>4, <2>5, <2>6, <2>7, <2>8, <2>9, <2>10, <2>11, <2>12
       DEF Next, Callback, Run
<1> QED
  BY <1>1, <1>2, PTL DEF Spec
-----------------------------------------------------------------------------
(* Sign-ins and disconnects: the row lock *)

(* A sign-in between its two statements holds the row, and its set is      *)
(* newer than the stored one; so does a disconnect that found a row.       *)
Locked ==
    /\ \A s \in SignIns : signIn[s] = "stored" => holder = s /\ Storable(s)
    /\ drop = "found" => holder = "client"

(* Steps that leave the lock alone, and the token row of whoever has it.   *)
LEMMA LockKept ==
    ASSUME Locked, holder' = holder, grantAt' = grantAt, drop' = drop,
           \A s \in SignIns : signIn'[s] = "stored" => signIn[s] = "stored",
           secret' = secret \/ holder = "free"
    PROVE  Locked'
  BY DEF Locked, Storable

LEMMA LockedStep == ASSUME TypeOK, Locked, [Next]_vars PROVE Locked'
<1>1. CASE Tick
  BY <1>1, LockKept DEF Tick
<1>2. CASE Disconnect
  BY <1>2 DEF Disconnect, Locked, Storable
<1>3. CASE CommitDisconnect
  BY <1>3 DEF CommitDisconnect, Locked, Storable, TypeOK
<1>4. ASSUME NEW s \in SignIns, Begin(s) \/ Exchange(s) PROVE Locked'
  <2>1. \A t \in SignIns : signIn'[t] = "stored" => signIn[t] = "stored"
    BY <1>4 DEF Begin, Exchange, TypeOK
  <2> QED
    BY <1>4, <2>1, LockKept DEF Begin, Exchange
<1>5. ASSUME NEW s \in SignIns, Consume(s) PROVE Locked'
  BY <1>5 DEF Consume, Locked, Storable, TypeOK
<1>6. ASSUME NEW s \in SignIns, Upsert(s) PROVE Locked'
  BY <1>6 DEF Upsert, Locked, Storable, TypeOK
<1>7. ASSUME NEW s \in SignIns, CommitSignIn(s) PROVE Locked'
  BY <1>7 DEF CommitSignIn, Locked, Storable, TypeOK
<1>8. ASSUME NEW s \in SignIns, SignInFails(s) PROVE Locked'
  BY <1>8 DEF SignInFails, Locked, Storable, TypeOK
<1>9. ASSUME NEW w \in Workers, Save(w) PROVE Locked'
  BY <1>9, LockKept DEF Save, Rotatable
<1>10. ASSUME NEW w \in Workers, Run(w), ~Save(w) PROVE Locked'
  BY <1>10, LockKept DEF Run, Start, Refresh, Get, Ask, Refused, SaveFails, HealthRead, HealthWrite, Crash
<1>11. CASE UNCHANGED vars
  BY <1>11, LockKept DEF vars
<1> QED
  BY <1>1, <1>2, <1>3, <1>4, <1>5, <1>6, <1>7, <1>8, <1>9, <1>10, <1>11 DEF Next, Callback

LEMMA AlwaysLocked == Spec => []Locked
<1>1. Init => Locked
  BY DEF Init, Locked
<1>2. TypeOK /\ Locked /\ [Next]_vars => Locked'
  BY LockedStep
<1> QED
  BY <1>1, <1>2, AccessTyped, PTL DEF Spec

(* The only steps that write the token row.                                *)
LEMMA SecretWriters ==
    ASSUME [Next]_vars, secret' # secret
    PROVE  \/ CommitDisconnect /\ secret' = None
           \/ \E s \in SignIns : CommitSignIn(s)
           \/ \E w \in Workers : Save(w) /\ Rotatable(w) /\ secret' = fresh[w]
<1>1. CASE CommitDisconnect
  BY <1>1 DEF CommitDisconnect
<1>2. ASSUME NEW s \in SignIns, Callback(s) PROVE CommitSignIn(s)
  BY <1>2 DEF Callback, Begin, Consume, Exchange, Upsert, SignInFails
<1>3. ASSUME NEW w \in Workers, Run(w) PROVE Save(w) /\ Rotatable(w) /\ secret' = fresh[w]
  <2>1. Save(w)
    BY <1>3 DEF Run, Start, Refresh, Get, Ask, Refused, SaveFails, HealthRead, HealthWrite, Crash
  <2> QED
    BY <2>1 DEF Save
<1>4. ~Tick /\ ~Disconnect /\ ~UNCHANGED vars
  BY DEF Tick, Disconnect, vars
<1> QED
  BY <1>1, <1>2, <1>3, <1>4 DEF Next

(* A removed access comes back only when a sign-in commits.                *)
THEOREM AccessOnlySignInRestores == Spec => OnlySignInRestores
<1>1. TypeOK /\ [Next]_vars =>
        [secret = None /\ secret' # None =>
          \E s \in SignIns : signIn[s] = "stored" /\ signIn'[s] = "done" /\ secret'.grant = s]_vars
  <2> SUFFICES ASSUME TypeOK, [Next]_vars, secret = None, secret' # None
               PROVE  \E s \in SignIns : signIn[s] = "stored" /\ signIn'[s] = "done" /\ secret'.grant = s
    OBVIOUS
  <2>1. PICK s \in SignIns : CommitSignIn(s)
    BY SecretWriters DEF Rotatable
  <2> QED
    BY <2>1 DEF CommitSignIn, TypeOK
<1> QED
  BY <1>1, AccessTyped, PTL DEF Spec, OnlySignInRestores

(* A stored set is replaced only by a newer one: the row lock keeps the    *)
(* comparison of a sign-in true until it commits.                          *)
THEOREM AccessNewerReplaces == Spec => NewerReplaces
<1>1. TypeOK /\ Locked /\ [Next]_vars =>
        [secret # None /\ secret' # None /\ secret' # secret => secret'.rotated > secret.rotated]_vars
  <2> SUFFICES ASSUME TypeOK, Locked, [Next]_vars, secret # None, secret' # None, secret' # secret
               PROVE  secret'.rotated > secret.rotated
    OBVIOUS
  <2>0. secret \in TokenSet
    BY DEF TypeOK
  <2>1. ASSUME NEW s \in SignIns, CommitSignIn(s) PROVE secret'.rotated > secret.rotated
    <3>1. secret.rotated < grantAt[s] /\ secret'.rotated = grantAt[s]
      BY <2>1 DEF CommitSignIn, Locked, Storable
    <3> QED
      BY <2>0, <3>1 DEF TokenSet, TypeOK
  <2>2. ASSUME NEW w \in Workers, Save(w), Rotatable(w), secret' = fresh[w]
        PROVE  secret'.rotated > secret.rotated
    <3>1. fresh[w] \in TokenSet /\ secret.rotated < fresh[w].rotated
      BY <2>2 DEF Save, Rotatable, TypeOK
    <3> QED
      BY <2>0, <2>2, <3>1 DEF TokenSet
  <2> QED
    BY <2>1, <2>2, SecretWriters
<1> QED
  BY <1>1, AccessTyped, AlwaysLocked, PTL DEF Spec, NewerReplaces

-----------------------------------------------------------------------------
(* A vendor that rotates on every renewal: the chain of tokens *)

Holding(w) == pc[w] \in {"ask", "save"}

(* Nothing belongs to a grant before its sign-in is stored, and until then *)
(* the vendor accepts its first token.                                     *)
NewGrants ==
    \A s \in SignIns :
        /\ signIn[s] # "done" => /\ secret # None => secret.grant # s
                                 /\ \A w \in Workers : Holding(w) => held[w].grant # s
        /\ signIn[s] \in {"store", "stored"} => live[s] = 1

(* No token is ahead of the vendor's.                                      *)
NoneAhead ==
    /\ secret # None => secret.token <= live[secret.grant]
    /\ \A w \in Workers : Holding(w) => held[w].token <= live[held[w].grant]

(* A token names its set.                                                  *)
SameSet ==
    \A w \in Workers :
        /\ Holding(w) /\ secret # None
        /\ secret.grant = held[w].grant /\ secret.token = held[w].token
        => secret = held[w]

(* A run that has renewed a grant has the newest token of it, alone.       *)
Alone ==
    \A w \in Workers : pc[w] = "save" =>
        /\ fresh[w].grant = held[w].grant /\ fresh[w].rotated > held[w].rotated
        /\ fresh[w].token = live[held[w].grant]
        /\ secret # None /\ secret.grant = held[w].grant => secret.token < live[secret.grant]
        /\ \A v \in Workers : v # w /\ Holding(v) /\ held[v].grant = held[w].grant
              => pc[v] = "ask" /\ held[v].token < live[held[w].grant]

(* What it renewed is what is stored, so its compare-and-set succeeds.     *)
CanSave ==
    \A w \in Workers : pc[w] = "save" /\ secret # None /\ secret.grant = held[w].grant
        => secret.grant \in lost \/ secret = held[w]

ChainInv == NewGrants /\ NoneAhead /\ SameSet /\ Alone /\ CanSave /\ StoredLive

(* Steps that only end renewals, remove the stored set or move a sign-in   *)
(* on keep the chain; a renewal that ends unsaved is lost.                 *)
LEMMA QuietStep ==
    ASSUME TypeOK, ChainInv,
           live' = live, lost \subseteq lost',
           secret' = secret \/ secret' = None,
           \A w \in Workers : Holding(w)' => pc'[w] = pc[w] /\ held'[w] = held[w] /\ fresh'[w] = fresh[w],
           \A w \in Workers : pc[w] = "save" => pc'[w] = "save" \/ fresh[w].grant \in lost',
           \A s \in SignIns : /\ signIn'[s] # "done" => signIn[s] # "done"
                              /\ signIn'[s] \in {"store", "stored"} => signIn[s] \in {"store", "stored"}
    PROVE  ChainInv'
<1>1. NewGrants'
  <2>1. ASSUME NEW s \in SignIns, signIn'[s] # "done"
        PROVE  /\ secret' # None => secret'.grant # s
               /\ \A w \in Workers : Holding(w)' => held'[w].grant # s
    BY <2>1 DEF ChainInv, NewGrants, Holding
  <2>2. ASSUME NEW s \in SignIns, signIn'[s] \in {"store", "stored"} PROVE live'[s] = 1
    BY <2>2 DEF ChainInv, NewGrants
  <2> QED
    BY <2>1, <2>2 DEF NewGrants
<1>2. NoneAhead'
  BY DEF ChainInv, NoneAhead, Holding
<1>3. SameSet'
  BY DEF ChainInv, SameSet, Holding
<1>4. Alone'
  BY DEF ChainInv, Alone, Holding
<1>5. CanSave'
  BY DEF ChainInv, CanSave, Holding
<1>6. StoredLive'
  BY DEF ChainInv, StoredLive, Saving, Holding
<1> QED
  BY <1>1, <1>2, <1>3, <1>4, <1>5, <1>6 DEF ChainInv

LEMMA LeaveEnds ==
    ASSUME TypeOK, NEW w \in Workers, NEW step \in {"off", "run"}, Leave(w, step)
    PROVE  /\ \A v \in Workers : Holding(v)' => v # w /\ pc'[v] = pc[v] /\ held'[v] = held[v]
                                                   /\ fresh'[v] = fresh[v]
           /\ \A v \in Workers : v # w => pc'[v] = pc[v]
  BY DEF Leave, Go, Holding, TypeOK

(* The vendor makes a new grant.                                           *)
LEMMA ExchangeKeepsChain ==
    ASSUME TypeOK, ChainInv, NEW s \in SignIns, Exchange(s) PROVE ChainInv'
<1>0. /\ signIn[s] = "exchange"
      /\ UNCHANGED <<secret, lost, pc, held, fresh>>
      /\ secret # None => secret.grant # s
      /\ \A w \in Workers : Holding(w) => held[w].grant # s
  BY DEF Exchange, ChainInv, NewGrants
<1>1. \A t \in SignIns : t # s => live'[t] = live[t] /\ signIn'[t] = signIn[t]
  BY DEF Exchange, TypeOK
<1>2. live'[s] = 1 /\ signIn'[s] = "store"
  BY DEF Exchange, TypeOK
<1>3. /\ secret # None => secret.grant \in SignIns /\ live'[secret.grant] = live[secret.grant]
      /\ \A w \in Workers : Holding(w) => held[w].grant \in SignIns /\ live'[held[w].grant] = live[held[w].grant]
  BY <1>0, <1>1 DEF TypeOK, TokenSet, Holding
<1>4. NewGrants'
  BY <1>0, <1>1, <1>2 DEF ChainInv, NewGrants, Holding
<1>5. NoneAhead' /\ SameSet' /\ CanSave'
  BY <1>0, <1>3 DEF ChainInv, NoneAhead, SameSet, CanSave, Holding
<1>6. Alone'
  BY <1>0, <1>3 DEF ChainInv, Alone, Holding
<1>7. StoredLive'
  BY <1>0, <1>3 DEF ChainInv, StoredLive, Saving
<1> QED
  BY <1>4, <1>5, <1>6, <1>7 DEF ChainInv

(* Its first token set is stored: no renewal of it has begun.              *)
LEMMA SignInKeepsChain ==
    ASSUME TypeOK, ChainInv, NEW s \in SignIns, CommitSignIn(s) PROVE ChainInv'
<1>0. /\ signIn[s] = "stored" /\ live[s] = 1
      /\ UNCHANGED <<live, lost, pc, held, fresh>>
      /\ \A w \in Workers : Holding(w) => held[w].grant # s
  BY DEF CommitSignIn, ChainInv, NewGrants
<1>1. secret'.grant = s /\ secret'.token = 1
  BY DEF CommitSignIn
<1>2. \A t \in SignIns : t # s => signIn'[t] = signIn[t]
  BY DEF CommitSignIn, TypeOK
<1>3. signIn'[s] = "done"
  BY DEF CommitSignIn, TypeOK
<1>4. NewGrants'
  BY <1>0, <1>1, <1>2, <1>3 DEF ChainInv, NewGrants, Holding
<1>5. NoneAhead' /\ SameSet' /\ CanSave'
  BY <1>0, <1>1 DEF ChainInv, NoneAhead, SameSet, CanSave, Holding
<1>6. Alone'
  BY <1>0, <1>1 DEF ChainInv, Alone, Holding
<1>7. StoredLive'
  BY <1>0, <1>1 DEF StoredLive
<1> QED
  BY <1>4, <1>5, <1>6, <1>7 DEF ChainInv

(* A run takes the stored set as the one to renew.                         *)
LEMMA GetKeepsChain ==
    ASSUME TypeOK, ChainInv, NEW w \in Workers, Get(w), secret # None PROVE ChainInv'
<1>0. /\ pc[w] = "get" /\ secret \in TokenSet
      /\ UNCHANGED <<secret, live, lost, signIn, fresh>>
  BY DEF Get, TypeOK
<1>1. pc'[w] = "ask" /\ held'[w] = secret
  BY DEF Get, Go, TypeOK
<1>2. \A v \in Workers : v # w => pc'[v] = pc[v] /\ held'[v] = held[v]
  BY DEF Get, Go, TypeOK
<1>3. NewGrants' /\ NoneAhead' /\ SameSet' /\ CanSave'
  BY <1>0, <1>1, <1>2 DEF ChainInv, NewGrants, NoneAhead, SameSet, CanSave, Holding
<1>4. Alone'
  <2> SUFFICES ASSUME NEW u \in Workers, pc'[u] = "save"
               PROVE  /\ fresh'[u].grant = held'[u].grant /\ fresh'[u].rotated > held'[u].rotated
                      /\ fresh'[u].token = live'[held'[u].grant]
                      /\ secret' # None /\ secret'.grant = held'[u].grant => secret'.token < live'[secret'.grant]
                      /\ \A v \in Workers : v # u /\ Holding(v)' /\ held'[v].grant = held'[u].grant
                            => pc'[v] = "ask" /\ held'[v].token < live'[held'[u].grant]
    BY DEF Alone
  <2>1. u # w /\ pc[u] = "save" /\ held'[u] = held[u]
    BY <1>1, <1>2
  <2> QED
    BY <1>0, <1>1, <1>2, <2>1 DEF ChainInv, Alone, Holding
<1>5. StoredLive'
  BY <1>0, <1>1, <1>2 DEF ChainInv, StoredLive, Saving
<1> QED
  BY <1>3, <1>4, <1>5 DEF ChainInv

(* The vendor renews and the run has the newest token, or it is lost.      *)
LEMMA AskKeepsChain ==
    ASSUME "keep" \notin Habits, TypeOK, ChainInv, NEW w \in Workers, Ask(w) PROVE ChainInv'
<1> DEFINE g == held[w].grant
<1>0. /\ pc[w] = "ask" /\ held[w] \in TokenSet /\ g \in SignIns /\ live[g] \in Nat
      /\ held[w].token = live[g]
      /\ live' = [live EXCEPT ![g] = @ + 1]
      /\ UNCHANGED <<secret, signIn>>
  BY AskEffect DEF TypeOK
<1>1. live'[g] = live[g] + 1 /\ \A t \in SignIns : t # g => live'[t] = live[t]
  BY <1>0 DEF TypeOK
<1>2. \A v \in Workers : pc[v] = "save" => held[v].grant # g
  BY <1>0 DEF ChainInv, Alone, Holding
<1>3. signIn[g] = "done"
  BY <1>0 DEF ChainInv, NewGrants, Holding
<1>4. /\ secret # None => secret.grant \in SignIns /\ secret.token \in Nat
      /\ \A v \in Workers : Holding(v) => held[v].grant \in SignIns /\ held[v].token \in Nat
      /\ \A t \in SignIns : live[t] \in Nat
  BY DEF TypeOK, TokenSet, Holding
<1>5. secret # None /\ secret.grant = g => g \in lost \/ secret = held[w]
  <2> SUFFICES ASSUME secret # None, secret.grant = g, g \notin lost PROVE secret = held[w]
    OBVIOUS
  <2>1. secret.token = live[g]
    <3>1. \A v \in Workers : ~Saving(v, g)
      BY <1>2 DEF ChainInv, Alone, Saving
    <3> QED
      BY <3>1 DEF ChainInv, StoredLive
  <2> QED
    BY <1>0, <2>1 DEF ChainInv, SameSet, Holding
<1>6. CASE /\ fresh' = [fresh EXCEPT ![w] = Answer(w, live'[g])]
           /\ pc' = [pc EXCEPT ![w] = "save"]
           /\ UNCHANGED <<held, lost>>
  <2>1. /\ pc'[w] = "save" /\ fresh'[w].grant = g /\ fresh'[w].token = live'[g]
        /\ fresh'[w].rotated > held[w].rotated
    <3>1. Answer(w, live'[g]).rotated > held[w].rotated
      BY <1>0, <1>1, AnswerTyped
    <3> QED
      BY <1>6, <3>1 DEF TypeOK, Answer
  <2>2. \A v \in Workers : v # w => pc'[v] = pc[v] /\ fresh'[v] = fresh[v]
    BY <1>6 DEF TypeOK
  <2>3. \A v \in Workers : Holding(v)' <=> Holding(v)
    BY <1>0, <2>1, <2>2 DEF Holding
  <2>4. NewGrants'
    BY <1>0, <1>1, <1>3, <1>6, <2>3 DEF ChainInv, NewGrants
  <2>5. NoneAhead'
    BY <1>0, <1>1, <1>4, <1>6, <2>3 DEF ChainInv, NoneAhead
  <2>6. SameSet'
    BY <1>0, <1>6, <2>3 DEF ChainInv, SameSet
  <2>7. Alone'
    <3>1. ASSUME NEW u \in Workers, u # w, pc'[u] = "save"
          PROVE  /\ fresh'[u].grant = held'[u].grant /\ fresh'[u].rotated > held'[u].rotated
                 /\ fresh'[u].token = live'[held'[u].grant]
                 /\ secret' # None /\ secret'.grant = held'[u].grant => secret'.token < live'[secret'.grant]
                 /\ \A v \in Workers : v # u /\ Holding(v)' /\ held'[v].grant = held'[u].grant
                       => pc'[v] = "ask" /\ held'[v].token < live'[held'[u].grant]
      <4>1. pc[u] = "save" /\ held[u].grant # g /\ held'[u] = held[u] /\ fresh'[u] = fresh[u]
        BY <1>2, <1>6, <2>2, <3>1
      <4>2. live'[held[u].grant] = live[held[u].grant]
        BY <1>1, <1>4, <4>1 DEF Holding
      <4> QED
        BY <1>0, <1>6, <2>2, <2>3, <4>1, <4>2 DEF ChainInv, Alone
    <3>2. secret # None /\ secret.grant = g => secret.token < live'[g]
      BY <1>0, <1>1, <1>4 DEF ChainInv, NoneAhead
    <3>3. ASSUME NEW v \in Workers, v # w, Holding(v)', held'[v].grant = g
          PROVE  pc'[v] = "ask" /\ held'[v].token < live'[g]
      <4>1. Holding(v) /\ held'[v] = held[v] /\ pc'[v] = pc[v] /\ held[v].grant = g
        BY <1>6, <2>2, <2>3, <3>3
      <4>2. pc[v] = "ask"
        BY <1>2, <4>1 DEF Holding
      <4>3. held[v].token <= live[g]
        BY <4>1 DEF ChainInv, NoneAhead
      <4> QED
        BY <1>0, <1>1, <1>4, <4>1, <4>2, <4>3
    <3> QED
      BY <1>0, <1>6, <2>1, <3>1, <3>2, <3>3 DEF Alone
  <2>8. CanSave'
    BY <1>0, <1>5, <1>6, <2>2 DEF ChainInv, CanSave
  <2>9. StoredLive'
    <3> SUFFICES ASSUME secret # None
                 PROVE  \/ secret.token = live'[secret.grant]
                        \/ secret.grant \in lost
                        \/ \E v \in Workers : Saving(v, secret.grant)'
      BY <1>0, <1>6 DEF StoredLive
    <3>1. CASE secret.grant = g
      BY <1>0, <2>1, <3>1 DEF Saving
    <3>2. CASE secret.grant # g
      <4>1. \A v \in Workers : Saving(v, secret.grant) => Saving(v, secret.grant)'
        BY <1>0, <2>2 DEF Saving
      <4> QED
        BY <1>1, <1>4, <3>2, <4>1 DEF ChainInv, StoredLive
    <3> QED
      BY <3>1, <3>2
  <2> QED
    BY <2>4, <2>5, <2>6, <2>7, <2>8, <2>9 DEF ChainInv
<1>7. CASE Leave(w, "run") /\ lost' = lost \cup {g}
  <2>1. \A v \in Workers : Holding(v)' => v # w /\ Holding(v) /\ pc'[v] = pc[v] /\ held'[v] = held[v]
                                         /\ fresh'[v] = fresh[v]
    BY <1>7, LeaveEnds DEF Holding
  <2>2. \A v \in Workers : pc[v] = "save" => pc'[v] = "save" /\ fresh'[v] = fresh[v]
    BY <1>0, <1>7, LeaveEnds, <2>1 DEF Holding
  <2>4. NewGrants'
    BY <1>0, <1>1, <1>3, <2>1 DEF ChainInv, NewGrants
  <2>5. NoneAhead'
    BY <1>0, <1>1, <1>4, <2>1 DEF ChainInv, NoneAhead
  <2>6. SameSet'
    BY <1>0, <2>1 DEF ChainInv, SameSet
  <2>7. Alone'
    <3> SUFFICES ASSUME NEW u \in Workers, pc'[u] = "save"
          PROVE  /\ fresh'[u].grant = held'[u].grant /\ fresh'[u].rotated > held'[u].rotated
                 /\ fresh'[u].token = live'[held'[u].grant]
                 /\ secret' # None /\ secret'.grant = held'[u].grant => secret'.token < live'[secret'.grant]
                 /\ \A v \in Workers : v # u /\ Holding(v)' /\ held'[v].grant = held'[u].grant
                       => pc'[v] = "ask" /\ held'[v].token < live'[held'[u].grant]
      BY DEF Alone
    <3>1. pc[u] = "save" /\ held[u].grant # g /\ held'[u] = held[u] /\ fresh'[u] = fresh[u] /\ Holding(u)
      BY <1>2, <2>1 DEF Holding
    <3>2. live'[held[u].grant] = live[held[u].grant]
      BY <1>1, <1>4, <3>1
    <3> QED
      BY <1>0, <2>1, <3>1, <3>2 DEF ChainInv, Alone
  <2>8. CanSave'
    BY <1>0, <1>7, <2>1 DEF ChainInv, CanSave, Holding
  <2>9. StoredLive'
    <3> SUFFICES ASSUME secret # None, secret.grant # g
                 PROVE  \/ secret.token = live'[secret.grant]
                        \/ secret.grant \in lost'
                        \/ \E v \in Workers : Saving(v, secret.grant)'
      BY <1>0, <1>7 DEF StoredLive
    <3>1. \A v \in Workers : Saving(v, secret.grant) => Saving(v, secret.grant)'
      BY <1>0, <2>2 DEF Saving
    <3> QED
      BY <1>1, <1>4, <1>7, <3>1 DEF ChainInv, StoredLive
  <2> QED
    BY <2>4, <2>5, <2>6, <2>7, <2>8, <2>9 DEF ChainInv
<1> QED
  BY <1>6, <1>7, AskEffect

(* The compare-and-set stores the newest token set of its grant, or the    *)
(* stored set has gone or belongs to another grant.                        *)
LEMMA SaveKeepsChain ==
    ASSUME TypeOK, ChainInv, NEW w \in Workers, Save(w) PROVE ChainInv'
<1> DEFINE g == held[w].grant
<1>0. /\ pc[w] = "save" /\ held[w] \in TokenSet /\ fresh[w] \in TokenSet /\ Leave(w, "run")
      /\ UNCHANGED <<live, lost, signIn>>
      /\ fresh[w].grant = g /\ fresh[w].rotated > held[w].rotated /\ fresh[w].token = live[g]
  BY DEF Save, TypeOK, ChainInv, Alone
<1>1. \A v \in Workers : Holding(v)' => v # w /\ Holding(v) /\ pc'[v] = pc[v] /\ held'[v] = held[v]
                                       /\ fresh'[v] = fresh[v]
  BY <1>0, LeaveEnds DEF Holding
<1>2. \A v \in Workers : Holding(v)' /\ held'[v].grant = g => pc'[v] = "ask" /\ held'[v].token < live[g]
  BY <1>0, <1>1 DEF ChainInv, Alone
<1>3. CASE Rotatable(w)
  <2>1. secret' = fresh[w] /\ secret'.grant = g /\ secret'.token = live'[g]
    BY <1>0, <1>3 DEF Save
  <2>2. live[g] \in Nat /\ \A v \in Workers : Holding(v) => held[v].token \in Nat
    BY <1>0 DEF TypeOK, TokenSet, Holding
  <2>3. NewGrants'
    BY <1>0, <1>1, <2>1 DEF ChainInv, NewGrants, Holding
  <2>4. NoneAhead'
    BY <1>0, <1>1, <2>1, <2>2 DEF ChainInv, NoneAhead
  <2>5. SameSet'
    BY <1>0, <1>2, <2>1, <2>2, <1>1 DEF SameSet
  <2>6. Alone' /\ CanSave'
    <3>1. \A v \in Workers : pc'[v] = "save" => held'[v].grant # g
      BY <1>2 DEF Holding
    <3> QED
      BY <1>0, <1>1, <2>1, <3>1 DEF ChainInv, Alone, CanSave, Holding
  <2>7. StoredLive'
    BY <2>1 DEF StoredLive
  <2> QED
    BY <2>3, <2>4, <2>5, <2>6, <2>7 DEF ChainInv
<1>4. CASE ~Rotatable(w)
  <2>1. secret' = secret
    BY <1>4 DEF Save
  <2>2. secret # None /\ secret.grant = g => g \in lost
    BY <1>0, <1>4 DEF Rotatable, ChainInv, CanSave
  <2>3. NewGrants' /\ NoneAhead' /\ SameSet'
    BY <1>0, <1>1, <2>1 DEF ChainInv, NewGrants, NoneAhead, SameSet
  <2>4. Alone' /\ CanSave'
    BY <1>0, <1>1, <2>1 DEF ChainInv, Alone, CanSave, Holding
  <2>5. StoredLive'
    <3>1. \A v \in Workers : v # w /\ Saving(v, secret.grant) => Saving(v, secret.grant)'
      BY <1>0, <2>1, LeaveEnds, <1>1 DEF Saving, Holding
    <3>2. Saving(w, secret.grant) => secret.grant = g
      BY <1>0 DEF Saving
    <3> QED
      BY <1>0, <2>1, <2>2, <3>1, <3>2 DEF ChainInv, StoredLive
  <2> QED
    BY <2>3, <2>4, <2>5 DEF ChainInv
<1> QED
  BY <1>3, <1>4

LEMMA ChainStep ==
    ASSUME "keep" \notin Habits, TypeOK, ChainInv, [Next]_vars PROVE ChainInv'
<1>1. CASE Tick \/ Disconnect \/ CommitDisconnect
  BY <1>1, QuietStep DEF Tick, Disconnect, CommitDisconnect, Holding
<1>2. ASSUME NEW s \in SignIns, Begin(s) \/ Consume(s) \/ Upsert(s) \/ SignInFails(s) PROVE ChainInv'
  <2>1. \A t \in SignIns : /\ signIn'[t] # "done" => signIn[t] # "done"
                           /\ signIn'[t] \in {"store", "stored"} => signIn[t] \in {"store", "stored"}
    BY <1>2 DEF Begin, Consume, Upsert, SignInFails, TypeOK
  <2> QED
    BY <1>2, <2>1, QuietStep DEF Begin, Consume, Upsert, SignInFails, Holding
<1>3. ASSUME NEW s \in SignIns, Exchange(s) \/ CommitSignIn(s) PROVE ChainInv'
  BY <1>3, ExchangeKeepsChain, SignInKeepsChain
<1>4. ASSUME NEW w \in Workers, Start(w) \/ Refresh(w) \/ HealthRead(w) PROVE ChainInv'
  <2>1. \A v \in Workers : /\ Holding(v)' => pc'[v] = pc[v]
                           /\ pc[v] = "save" => pc'[v] = "save"
    BY <1>4 DEF Start, Refresh, HealthRead, Go, Holding, TypeOK
  <2> QED
    BY <1>4, <2>1, QuietStep DEF Start, Refresh, HealthRead
<1>5. ASSUME NEW w \in Workers, Get(w) PROVE ChainInv'
  <2>1. CASE secret = None
    <3>1. pc[w] = "get" /\ Leave(w, "run") /\ UNCHANGED <<secret, live, lost, signIn>>
      BY <1>5, <2>1 DEF Get
    <3> QED
      BY <3>1, LeaveEnds, QuietStep
  <2> QED
    BY <1>5, <2>1, GetKeepsChain
<1>6. ASSUME NEW w \in Workers, Refused(w) PROVE ChainInv'
  <2>1. pc[w] = "ask" /\ Leave(w, "run") /\ UNCHANGED <<secret, live, lost, signIn>>
    BY <1>6 DEF Refused
  <2> QED
    BY <2>1, LeaveEnds, QuietStep
<1>7. ASSUME NEW w \in Workers, HealthWrite(w) PROVE ChainInv'
  <2>1. pc[w] = "health" /\ Leave(w, "off") /\ UNCHANGED <<secret, live, lost, signIn>>
    BY <1>7 DEF HealthWrite
  <2> QED
    BY <2>1, LeaveEnds, QuietStep
<1>8. ASSUME NEW w \in Workers, SaveFails(w) \/ Crash(w) PROVE ChainInv'
  <2>1. /\ Leave(w, "run") \/ Leave(w, "off")
        /\ UNCHANGED <<secret, live, signIn>>
        /\ lost \subseteq lost' /\ (pc[w] = "save" => fresh[w].grant \in lost')
    BY <1>8 DEF SaveFails, Crash
  <2> QED
    BY <2>1, LeaveEnds, QuietStep
<1>9. ASSUME NEW w \in Workers, Ask(w) PROVE ChainInv'
  BY <1>9, AskKeepsChain
<1>10. ASSUME NEW w \in Workers, Save(w) PROVE ChainInv'
  BY <1>10, SaveKeepsChain
<1>11. CASE UNCHANGED vars
  BY <1>11, QuietStep DEF vars, Holding
<1> QED
  BY <1>1, <1>2, <1>3, <1>4, <1>5, <1>6, <1>7, <1>8, <1>9, <1>10, <1>11 DEF Next, Callback, Run

(* With a vendor that rotates on every renewal the stored token is the one *)
(* it accepts, unless a newer one is being saved or was lost with its run. *)
THEOREM AccessStoredLive == ASSUME "keep" \notin Habits PROVE Spec => []StoredLive
<1>1. Init => ChainInv
  BY DEF Init, ChainInv, NewGrants, NoneAhead, SameSet, Alone, CanSave, StoredLive, Holding
<1>2. TypeOK /\ ChainInv /\ [Next]_vars => ChainInv'
  BY ChainStep
<1>3. ChainInv => StoredLive
  BY DEF ChainInv
<1> QED
  BY <1>1, <1>2, <1>3, AccessTyped, PTL DEF Spec
=============================================================================
