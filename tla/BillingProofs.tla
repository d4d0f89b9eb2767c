---------------------------- MODULE BillingProofs ----------------------------
(***************************************************************************)
(* Proofs about Billing, for any number of subscriptions, plans, requests, *)
(* events and faults.  What is stored is right whatever the order in which *)
(* events arrive, because a request retrieves the subscription itself: so  *)
(* the invariants relate the time of an event to the states of the         *)
(* subscription that can be read once it has been reported.                *)
(***************************************************************************)
EXTENDS Billing, FiniteSetTheorems, TLAPS

USE BillingAssumption

-----------------------------------------------------------------------------
(* Events and typing *)

LEMMA EventParts ==
    ASSUME NEW e \in Events
    PROVE  /\ e[1] \in Subs /\ e[2] \in {"change", "checkout", "invoice"}
           /\ e[2] = "change" => e[3] \in 1..MaxVersion /\ e = Change(e[1], e[3])
           /\ e[2] = "checkout" => e = Checkout(e[1])
           /\ e[2] = "invoice" => e[3] \in 1..MaxInvoices /\ e = Invoice(e[1], e[3])
  BY DEF Events, Change, Checkout, Invoice

LEMMA PartsOf ==
    ASSUME NEW s \in Subs
    PROVE  /\ \A n \in 1..MaxVersion :
               Change(s, n) \in Events /\ Change(s, n)[1] = s /\ Change(s, n)[2] = "change" /\ Change(s, n)[3] = n
           /\ Checkout(s) \in Events /\ Checkout(s)[1] = s /\ Checkout(s)[2] = "checkout"
           /\ \A n \in 1..MaxInvoices :
               Invoice(s, n) \in Events /\ Invoice(s, n)[1] = s /\ Invoice(s, n)[2] = "invoice"
  BY DEF Events, Change, Checkout, Invoice

LEMMA LocalsTyped == AnEvent \in Events /\ Blank \in Snapshots
<1>1. \E e \in Events : TRUE
  BY PartsOf
<1> QED
  BY <1>1 DEF AnEvent, Blank, Snapshots

(* What a request leaves behind when it ends, or goes on to its invoice.   *)
LEMMA AppliedTyped ==
    ASSUME TypeOK, NEW h \in Handlers, Applied(h) \/ Answered(h)
    PROVE  /\ pc' \in [Handlers -> {"idle", "fetch", "check", "write", "invoice"}]
           /\ event' \in [Handlers -> Events] /\ snap' \in [Handlers -> Snapshots]
           /\ pending' \subseteq pending /\ faults' \in 0..MaxFaults
  BY LocalsTyped DEF Applied, Answered, Ends, Fault, TypeOK

(* Only an invoice's request reaches the invoice RPC, which stores the     *)
(* event's outcome: typing needs that.                                     *)
KindInv == \A h \in Handlers : pc[h] = "invoice" => KindOf(h) = "invoice"

LEMMA KindStep == TypeOK /\ KindInv /\ [Next]_vars => KindInv'
<1> SUFFICES ASSUME TypeOK, KindInv, [Next]_vars, NEW g \in Handlers, pc'[g] = "invoice"
             PROVE  KindOf(g)' = "invoice"
  BY DEF KindInv
<1>1. ASSUME NEW h \in Handlers, Handle(h) \/ Fails(h) PROVE KindOf(g)' = "invoice"
  <2>1. CASE Applied(h) \/ Answered(h)
    BY <2>1 DEF Applied, Answered, Ends, TypeOK, KindInv, KindOf
  <2>2. CASE Fetch(h) \/ LoadFirst(h) \/ Fails(h)
    BY <2>2 DEF Fetch, LoadFirst, Fails, Ends, TypeOK, KindInv, KindOf
  <2>3. CASE pc' = [pc EXCEPT ![h] = "write"] /\ UNCHANGED event
    BY <2>3 DEF TypeOK, KindInv, KindOf
  <2> QED
    BY <1>1, <2>1, <2>2, <2>3 DEF Handle, Check, Write, RecordInvoice
<1>2. ASSUME NEW h \in Handlers, NEW e \in Events, Receive(h, e) PROVE KindOf(g)' = "invoice"
  BY <1>2 DEF Receive, KindInv, KindOf, TypeOK
<1>3. CASE UNCHANGED handlerVars
  BY <1>3 DEF handlerVars, KindInv, KindOf
<1> QED
  BY <1>1, <1>2, <1>3 DEF Next, Tick, Changes, Bills, vars, handlerVars

(* Every variable of the billing of a tenant stays in its type; what waits *)
(* for an answer has been reported.                                        *)
THEOREM BillingTyped == Spec => []TypeOK
<1>1. Init => TypeOK /\ KindInv
  <2> SUFFICES ASSUME Init PROVE TypeOK /\ KindInv
    OBVIOUS
  <2> QED
    BY LocalsTyped DEF Init, TypeOK, KindInv
<1>2. TypeOK /\ KindInv /\ [Next]_vars => TypeOK'
  <2> SUFFICES ASSUME TypeOK, KindInv, [Next]_vars PROVE TypeOK'
    OBVIOUS
  <2> USE DEF stripeVars, tableVars, handlerVars
  <2>1. CASE Tick
    BY <2>1 DEF Tick, TypeOK
  <2>2. ASSUME NEW s \in Subs, Changes(s) PROVE TypeOK'
    <3>1. current' \in [Subs -> Snapshots]
      BY <2>2 DEF Changes, TypeOK, Snapshots
    <3>2. ASSUME NEW E, E \subseteq Events, Emit(E)
          PROVE  created' \in [Events -> 0..MaxTime] /\ pending' \subseteq {e \in Events : created'[e] # 0}
      BY <3>2 DEF Emit, TypeOK
    <3>3. {Change(s, current[s].version + 1)} \cup (IF current[s].version = 0 THEN {Checkout(s)} ELSE {}) \subseteq Events
      <4>1. current[s].version + 1 \in 1..MaxVersion
        BY <2>2 DEF Changes, TypeOK, Snapshots
      <4> QED
        BY <4>1, PartsOf
    <3> QED
      BY <2>2, <3>1, <3>2, <3>3 DEF Changes, TypeOK
  <2>3. ASSUME NEW s \in Subs, NEW n \in 1..MaxInvoices, Bills(s, n) PROVE TypeOK'
    BY <2>3, PartsOf DEF Bills, Emit, TypeOK
  <2>4. ASSUME NEW h \in Handlers, NEW e \in Events, Receive(h, e) PROVE TypeOK'
    BY <2>4 DEF Receive, Fault, TypeOK
  <2>5. ASSUME NEW h \in Handlers, Fetch(h) PROVE TypeOK'
    BY <2>5, EventParts DEF Fetch, SubOf, TypeOK
  <2>6. ASSUME NEW h \in Handlers, Check(h) PROVE TypeOK'
    <3>1. /\ pc' \in [Handlers -> {"idle", "fetch", "check", "write", "invoice"}]
          /\ event' \in [Handlers -> Events] /\ snap' \in [Handlers -> Snapshots]
          /\ pending' \subseteq pending /\ faults' \in 0..MaxFaults
      BY <2>6, AppliedTyped DEF Check, TypeOK
    <3>2. ledger' \subseteq Events \X {"own", "sub"} /\ overtaken' \subseteq Subs
      BY <2>6, EventParts DEF Check, UpsertId, SubOf, TypeOK
    <3> QED
      BY <2>6, <3>1, <3>2 DEF Check, TypeOK
  <2>7. ASSUME NEW h \in Handlers, Write(h) PROVE TypeOK'
    <3>1. /\ pc' \in [Handlers -> {"idle", "fetch", "check", "write", "invoice"}]
          /\ event' \in [Handlers -> Events] /\ snap' \in [Handlers -> Snapshots]
          /\ pending' \subseteq pending /\ faults' \in 0..MaxFaults
      BY <2>7, AppliedTyped DEF Write
    <3>2. ledger' \subseteq Events \X {"own", "sub"}
      BY <2>7 DEF Write, UpsertId, TypeOK
    <3>3. plan' \in Plans \cup {None}
      BY <2>7 DEF Write, PlanAfter, TypeOK, Snapshots
    <3>4. row' \in [Subs -> Snapshots] /\ at' \in [Subs -> 0..MaxTime]
      BY <2>7 DEF Write, TypeOK
    <3> QED
      BY <2>7, <3>1, <3>2, <3>3, <3>4 DEF Write, TypeOK
  <2>8. ASSUME NEW h \in Handlers, LoadFirst(h) \/ Fails(h) PROVE TypeOK'
    BY <2>8, LocalsTyped DEF LoadFirst, Fails, Ends, Fault, TypeOK
  <2>9. ASSUME NEW h \in Handlers, RecordInvoice(h) PROVE TypeOK'
    <3>1. /\ pc' \in [Handlers -> {"idle", "fetch", "check", "write", "invoice"}]
          /\ event' \in [Handlers -> Events] /\ snap' \in [Handlers -> Snapshots]
          /\ pending' \subseteq pending /\ faults' \in 0..MaxFaults
      BY <2>9, AppliedTyped DEF RecordInvoice
    <3>2. event[h][3] \in 1..MaxInvoices
      BY <2>9, EventParts DEF RecordInvoice, KindInv, KindOf, TypeOK
    <3>3. invoiced' \in [Subs -> 0..MaxInvoices]
      <4>1. invoiced \in [Subs -> 0..MaxInvoices] /\ event[h][3] \in 0..MaxInvoices
        BY <3>2 DEF TypeOK
      <4> QED
        BY <2>9, <4>1, Zenon DEF RecordInvoice
    <3>4. ledger' \subseteq Events \X {"own", "sub"}
      BY <2>9 DEF RecordInvoice, TypeOK
    <3> QED
      BY <2>9, <3>1, <3>3, <3>4 DEF RecordInvoice, TypeOK
  <2>10. CASE UNCHANGED vars
    BY <2>10 DEF vars, TypeOK
  <2> QED
    BY <2>1, <2>2, <2>3, <2>4, <2>5, <2>6, <2>7, <2>8, <2>9, <2>10 DEF Next, Handle
<1> QED
  BY <1>1, <1>2, KindStep, PTL DEF Spec

-----------------------------------------------------------------------------
(* The inductive invariants *)

(* A request that has retrieved its subscription and may still store it.   *)
Retrieved(h) == pc[h] \in {"check", "write"}
Reported(e)  == created[e] # 0

(* Stripe numbers its reports of a subscription without gaps, and a        *)
(* request handles an event that was reported, as its kind asks for.       *)
ReportInv ==
    /\ \A s \in Subs, n \in 1..MaxVersion : Reported(Change(s, n)) <=> n <= current[s].version
    /\ \A e \in Events : Reported(e) => current[e[1]].version > 0 /\ created[e] <= clock
    /\ \A h \in Handlers : pc[h] # "idle" => Reported(event[h])
    /\ \A e \in Events, t \in {"own", "sub"} : <<e, t>> \in ledger => Reported(e)

(* Nothing read or stored is ahead of Stripe, and what has Stripe's        *)
(* version is what Stripe has.                                             *)
Follows(x, s) == x.version <= current[s].version /\ (x.version = current[s].version => x = current[s])
VersionInv ==
    /\ \A h \in Handlers : Retrieved(h) => snap[h].version > 0 /\ Follows(snap[h], SubOf(h))
    /\ \A s \in Subs : Follows(row[s], s)

(* The ledger knows every answered event, and whatever it knows has left   *)
(* its mark in the tables.                                                 *)
OwnId(e) == <<e, IF e[2] = "checkout" THEN "sub" ELSE "own">>
LedgerInv ==
    /\ \A e \in Events : Reported(e) /\ e \notin pending => OwnId(e) \in ledger
    /\ \A s \in Subs : at[s] > 0 => row[s].version > 0
    /\ \A e \in Events, t \in {"own", "sub"} : <<e, t>> \in ledger => row[e[1]].version > 0
    /\ \A e \in Events : <<e, "own">> \in ledger /\ e[2] = "invoice" => invoiced[e[1]] > 0

(* While the plan stays, every state read or stored names it.              *)
PlanInv ==
    /\ \A h \in Handlers : Retrieved(h) => snap[h].plan = current[SubOf(h)].plan
    /\ \A s \in Subs : IF row[s].version > 0
                       THEN /\ row[s].plan = current[s].plan
                            /\ plan = IF row[s].on THEN row[s].plan ELSE None
                       ELSE plan = None

(* A state retrieved for an event, or stored under its time, holds every   *)
(* change reported in an earlier second; the one retrieved for a change    *)
(* holds that change too.  Of a subscription that is not overtaken the     *)
(* stored time is not after that of an upsert past the comparison, and     *)
(* every change the ledger knows is in what is stored and in what such an  *)
(* upsert will store.                                                      *)
Holds(x, s, n) == <<Change(s, n), "own">> \in ledger => x.version >= n
UpTo(t, x, s) ==
    \A n \in 1..MaxVersion : Reported(Change(s, n)) /\ created[Change(s, n)] < t => x.version >= n
SeenInv ==
    /\ \A h \in Handlers : Retrieved(h) =>
         /\ UpTo(created[event[h]], snap[h], SubOf(h))
         /\ KindOf(h) = "change" => snap[h].version >= event[h][3]
    /\ \A s \in Subs : at[s] <= clock /\ UpTo(at[s], row[s], s)
OrderInv ==
    /\ \A h \in Handlers : pc[h] = "write" /\ SubOf(h) \notin overtaken =>
         /\ at[SubOf(h)] <= created[event[h]]
         /\ \A n \in 1..MaxVersion : Holds(snap[h], SubOf(h), n)
    /\ \A s \in Subs \ overtaken, n \in 1..MaxVersion :
         /\ Holds(row[s], s, n)
         /\ <<Change(s, n), "own">> \in ledger => created[Change(s, n)] <= at[s]

-----------------------------------------------------------------------------
(* What a step does *)

(* A request never touches what Stripe has, and records no event but its   *)
(* own.                                                                    *)
LEMMA RequestStep ==
    ASSUME TypeOK, NEW h \in Handlers, Handle(h) \/ Fails(h)
    PROVE  /\ UNCHANGED stripeVars /\ pc[h] # "idle"
           /\ \A g \in Handlers : g # h => pc'[g] = pc[g]
           /\ \A g \in Handlers : g # h \/ pc'[g] # "idle" => event'[g] = event[g]
           /\ ledger \subseteq ledger'
           /\ ledger' \subseteq ledger \cup {<<event[h], "own">>, <<event[h], "sub">>}
           /\ pending' \subseteq pending /\ pending \subseteq pending' \cup {event[h]}
<1> USE DEF stripeVars, tableVars
<1>1. CASE Fetch(h) \/ LoadFirst(h) \/ Fails(h)
  BY <1>1 DEF Fetch, LoadFirst, Fails, Ends, TypeOK
<1>2. CASE Check(h) \/ Write(h) \/ RecordInvoice(h)
  <2>1. /\ \E p \in {"idle", "write", "invoice"} :
             pc' = [pc EXCEPT ![h] = p] /\ (p # "idle" => UNCHANGED event)
        /\ \/ UNCHANGED event
           \/ event' = [event EXCEPT ![h] = AnEvent]
    BY <1>2 DEF Check, Write, RecordInvoice, Applied, Answered, Ends
  <2>2. pending' \in {pending, pending \ {event[h]}}
    BY <1>2 DEF Check, Write, RecordInvoice, Applied, Answered
  <2>3. ledger' \in {ledger, ledger \cup {<<event[h], "own">>}, ledger \cup {<<event[h], "sub">>}}
    BY <1>2 DEF Check, Write, RecordInvoice, UpsertId
  <2>4. UNCHANGED stripeVars /\ pc[h] # "idle"
    BY <1>2 DEF Check, Write, RecordInvoice
  <2> QED
    BY <2>1, <2>2, <2>3, <2>4 DEF TypeOK
<1> QED
  BY <1>1, <1>2 DEF Handle

(* Stripe's reports are new events, and wait.                              *)
LEMMA EmitStep ==
    ASSUME TypeOK, ReportInv, NEW s \in Subs,
           Changes(s) \/ \E n \in 1..MaxInvoices : Bills(s, n)
    PROVE  /\ UNCHANGED <<clock, tableVars, handlerVars>>
           /\ \A e \in Events : Reported(e) => created'[e] = created[e]
           /\ \A e \in Events : ~Reported(e) /\ created'[e] # 0 =>
                   e[1] = s /\ created'[e] = clock /\ e \in pending'
           /\ pending \subseteq pending'
<1>1. ASSUME NEW E, E \subseteq Events, \A e \in E : e[1] = s /\ ~Reported(e), Emit(E)
      PROVE  /\ \A e \in Events : Reported(e) => created'[e] = created[e]
             /\ \A e \in Events : ~Reported(e) /\ created'[e] # 0 =>
                   e[1] = s /\ created'[e] = clock /\ e \in pending'
             /\ pending \subseteq pending'
  BY <1>1 DEF Emit, Reported, TypeOK
<1>2. CASE Changes(s)
  <2> DEFINE v == current[s].version
             E == {Change(s, v + 1)} \cup IF v = 0 THEN {Checkout(s)} ELSE {}
  <2>1. v \in Nat /\ v + 1 \in 1..MaxVersion
    BY <1>2 DEF Changes, TypeOK, Snapshots
  <2>2. ~Reported(Change(s, v + 1))
    BY <2>1 DEF ReportInv
  <2>3. v = 0 => ~Reported(Checkout(s))
    BY PartsOf DEF ReportInv
  <2>4. E \subseteq Events /\ \A e \in E : e[1] = s /\ ~Reported(e)
    BY <2>1, <2>2, <2>3, PartsOf
  <2>5. Emit(E)
    BY <1>2 DEF Changes
  <2> QED
    BY <1>1, <1>2, <2>4, <2>5 DEF Changes
<1>3. ASSUME NEW n \in 1..MaxInvoices, Bills(s, n)
      PROVE  /\ UNCHANGED <<clock, tableVars, handlerVars>>
             /\ Emit({Invoice(s, n)}) /\ ~Reported(Invoice(s, n))
             /\ Invoice(s, n) \in Events /\ Invoice(s, n)[1] = s
  BY <1>3, PartsOf DEF Bills, Reported
<1> QED
  BY <1>1, <1>2, <1>3

(* A change of a subscription is its next version, reported by an event    *)
(* created now.                                                            *)
LEMMA ChangesStep ==
    ASSUME TypeOK, ReportInv, NEW s \in Subs, Changes(s)
    PROVE  /\ current[s].version + 1 \in 1..MaxVersion
           /\ current'[s].version = current[s].version + 1
           /\ current[s].version > 0 /\ ~PlanChanges => current'[s].plan = current[s].plan
           /\ \A t \in Subs : t # s => current'[t] = current[t]
           /\ created'[Change(s, current[s].version + 1)] = clock
<1>1. PICK p \in Plans, b \in BOOLEAN :
        /\ current[s].version > 0 /\ ~PlanChanges => p = current[s].plan
        /\ current' = [current EXCEPT ![s] = [version |-> @.version + 1, plan |-> p, on |-> b]]
  BY DEF Changes
<1>2. current'[s] = [version |-> current[s].version + 1, plan |-> p, on |-> b]
      /\ \A t \in Subs : t # s => current'[t] = current[t]
  BY <1>1 DEF TypeOK
<1>3. current[s].version + 1 \in 1..MaxVersion
  BY DEF Changes, TypeOK, Snapshots
<1>4. created'[Change(s, current[s].version + 1)] = clock
  BY <1>3, PartsOf DEF Changes, Emit
<1> QED
  BY <1>1, <1>2, <1>3, <1>4 DEF Changes

-----------------------------------------------------------------------------
(* What is reported, and that nothing read or stored is ahead of Stripe    *)

LEMMA ReportStep == TypeOK /\ ReportInv /\ [Next]_vars => ReportInv'
<1> SUFFICES ASSUME TypeOK, ReportInv, [Next]_vars PROVE ReportInv'
  OBVIOUS
<1>1. CASE Tick
  BY <1>1 DEF Tick, ReportInv, Reported, tableVars, handlerVars, TypeOK
<1>2. ASSUME NEW s \in Subs, Changes(s) \/ \E n \in 1..MaxInvoices : Bills(s, n) PROVE ReportInv'
  <2>1. \A e \in Events : Reported(e)' <=> Reported(e) \/ created'[e] # 0
    BY <1>2, EmitStep DEF Reported
  <2>2. \A h \in Handlers : (pc[h] # "idle" => Reported(event[h]))'
    BY <1>2, EmitStep DEF ReportInv, Reported, handlerVars, TypeOK
  <2>3. \A e \in Events, t \in {"own", "sub"} : (<<e, t>> \in ledger => Reported(e))'
    BY <1>2, EmitStep DEF ReportInv, Reported, tableVars, TypeOK
  <2>4. CASE Changes(s)
    <3> DEFINE v == current[s].version + 1
    <3>1. /\ \A t \in Subs : /\ current[t].version \in Nat /\ current'[t].version \in Nat
                               /\ current'[t].version >= current[t].version
          /\ current'[s].version > 0
      BY <2>4, ChangesStep DEF TypeOK, Snapshots
    <3>2. \A e \in Events : (Reported(e) => current[e[1]].version > 0 /\ created[e] <= clock)'
      <4>1. ASSUME NEW e \in Events, Reported(e)
            PROVE  created'[e] = created[e] /\ created[e] <= clock /\ current'[e[1]].version > 0
        BY <1>2, <3>1, <4>1, EmitStep, EventParts DEF ReportInv
      <4>2. ASSUME NEW e \in Events, ~Reported(e), created'[e] # 0
            PROVE  created'[e] = clock /\ current'[e[1]].version > 0
        BY <1>2, <3>1, <4>2, EmitStep
      <4>3. clock' = clock /\ clock \in Nat
        BY <1>2, EmitStep DEF TypeOK
      <4> QED
        BY <4>1, <4>2, <4>3 DEF Reported
    <3>3. ASSUME NEW t \in Subs, NEW n \in 1..MaxVersion
          PROVE  (Reported(Change(t, n)) <=> n <= current[t].version)'
      <4>1. CASE Reported(Change(t, n))
        <5>1. Reported(Change(t, n))'
          BY <1>2, <4>1, EmitStep, PartsOf DEF Reported
        <5>2. n <= current[t].version /\ n \in Nat
          BY <4>1 DEF ReportInv
        <5> QED
          BY <3>1, <5>1, <5>2
      <4>2. CASE ~Reported(Change(t, n)) /\ t = s /\ n = v
        BY <2>4, <4>2, ChangesStep DEF Reported, TypeOK
      <4>3. CASE ~Reported(Change(t, n)) /\ t = s /\ n # v
        <5>1. n > v
          BY <2>4, <4>3, ChangesStep DEF ReportInv, TypeOK, Snapshots
        <5>2. created'[Change(t, n)] = created[Change(t, n)]
          BY <2>4, <4>3, PartsOf, EventParts DEF Changes, Emit, Change, Checkout
        <5> QED
          BY <2>4, <4>3, <5>1, <5>2, ChangesStep DEF Reported
      <4>4. CASE ~Reported(Change(t, n)) /\ t # s
        <5>1. ~Reported(Change(t, n))'
          BY <1>2, <4>4, EmitStep, PartsOf DEF Reported
        <5> QED
          BY <2>4, <4>4, <5>1, ChangesStep DEF ReportInv
      <4> QED
        BY <4>1, <4>2, <4>3, <4>4
    <3> QED
      BY <2>2, <2>3, <3>2, <3>3 DEF ReportInv
  <2>5. ASSUME NEW n \in 1..MaxInvoices, Bills(s, n) PROVE ReportInv'
    <3>1. current' = current /\ current[s].version > 0
      BY <2>5 DEF Bills
    <3>2. \A t \in Subs, m \in 1..MaxVersion : created'[Change(t, m)] = created[Change(t, m)]
      BY <2>5, PartsOf DEF Bills, Emit
    <3>3. \A e \in Events : (Reported(e) => current[e[1]].version > 0 /\ created[e] <= clock)'
      BY <1>2, <3>1, EmitStep DEF ReportInv, Reported, TypeOK
    <3> QED
      BY <2>2, <2>3, <3>1, <3>2, <3>3 DEF ReportInv, Reported
  <2> QED
    BY <1>2, <2>4, <2>5
<1>3. ASSUME NEW h \in Handlers, NEW e \in Events, Receive(h, e) PROVE ReportInv'
  BY <1>3 DEF Receive, ReportInv, Reported, stripeVars, tableVars, TypeOK
<1>4. ASSUME NEW h \in Handlers, Handle(h) \/ Fails(h) PROVE ReportInv'
  <2>1. \A e \in Events, t \in {"own", "sub"} : <<e, t>> \in ledger' => Reported(e)
    BY <1>4, RequestStep DEF ReportInv
  <2>2. \A g \in Handlers : pc'[g] # "idle" => pc[g] # "idle" /\ event'[g] = event[g]
    BY <1>4, RequestStep
  <2> QED
    BY <1>4, <2>1, <2>2, RequestStep DEF ReportInv, Reported, stripeVars
<1>5. CASE UNCHANGED vars
  BY <1>5 DEF vars, ReportInv, Reported
<1> QED
  BY <1>1, <1>2, <1>3, <1>4, <1>5 DEF Next

(* After Fetch a request keeps what it has retrieved; only Write stores it.*)
LEMMA RetrievedStep ==
    ASSUME TypeOK, NEW h \in Handlers, Handle(h) \/ Fails(h), ~Fetch(h)
    PROVE  /\ \A g \in Handlers : Retrieved(g)' =>
                   /\ Retrieved(g) /\ snap'[g] = snap[g]
                   /\ event'[g] = event[g] /\ SubOf(g)' = SubOf(g)
           /\ ~Write(h) => UNCHANGED <<row, at, plan>>
<1>1. ~Write(h) => UNCHANGED <<row, at, plan>>
  BY DEF Handle, Check, LoadFirst, RecordInvoice, Fails, tableVars
<1>2. ASSUME NEW g \in Handlers, g # h
      PROVE  pc'[g] = pc[g] /\ event'[g] = event[g] /\ snap'[g] = snap[g]
  <2>1. snap'[g] = snap[g]
    <3>1. CASE Applied(h) \/ Answered(h)
      BY <1>2, <3>1 DEF Applied, Answered, Ends, TypeOK
    <3>2. CASE LoadFirst(h) \/ Fails(h) \/ UNCHANGED snap
      BY <1>2, <3>2 DEF LoadFirst, Fails, Ends, TypeOK
    <3> QED
      BY <3>1, <3>2 DEF Handle, Check, Write, RecordInvoice
  <2> QED
    BY <1>2, <2>1, RequestStep
<1>3. pc'[h] \in {"check", "write"} =>
          pc[h] \in {"check", "write"} /\ event'[h] = event[h] /\ snap'[h] = snap[h]
  <2>1. CASE LoadFirst(h) \/ Fails(h) \/ RecordInvoice(h) \/ Write(h)
    BY <2>1 DEF LoadFirst, Fails, RecordInvoice, Write, Applied, Answered, Ends, TypeOK
  <2>2. CASE Check(h)
    BY <2>2 DEF Check, Applied, Answered, Ends, TypeOK
  <2> QED
    BY <2>1, <2>2 DEF Handle
<1> QED
  BY <1>1, <1>2, <1>3 DEF Retrieved, SubOf

(* A request that has arrived has retrieved nothing yet.                   *)
LEMMA ReceiveStep ==
    ASSUME TypeOK, NEW h \in Handlers, NEW e \in Events, Receive(h, e)
    PROVE  /\ UNCHANGED <<stripeVars, pending, tableVars, snap>>
           /\ \A g \in Handlers : Retrieved(g)' =>
                   /\ Retrieved(g) /\ pc'[g] = pc[g]
                   /\ event'[g] = event[g] /\ SubOf(g)' = SubOf(g)
  BY DEF Receive, Retrieved, SubOf, TypeOK

LEMMA VersionStep == TypeOK /\ ReportInv /\ VersionInv /\ [Next]_vars => VersionInv'
<1> SUFFICES ASSUME TypeOK, ReportInv, VersionInv, [Next]_vars PROVE VersionInv'
  OBVIOUS
<1>0. \A h \in Handlers : event[h] \in Events /\ SubOf(h) \in Subs
  BY EventParts DEF TypeOK, SubOf
<1>1. CASE Tick \/ (\E s \in Subs, n \in 1..MaxInvoices : Bills(s, n)) \/ UNCHANGED vars
  BY <1>1 DEF Tick, Bills, vars, VersionInv, Follows, Retrieved, SubOf, tableVars, handlerVars
<1>2. ASSUME NEW s \in Subs, Changes(s) PROVE VersionInv'
  <2>1. UNCHANGED <<row, pc, event, snap>>
    BY <1>2 DEF Changes, tableVars, handlerVars
  <2>2. ASSUME NEW x \in Snapshots, NEW t \in Subs, Follows(x, t) PROVE Follows(x, t)'
    <3>1. /\ x.version \in Nat /\ current[t].version \in Nat
          /\ t = s => current'[t].version = current[t].version + 1
          /\ t # s => current'[t] = current[t]
      BY <1>2, ChangesStep DEF TypeOK, Snapshots
    <3> QED
      BY <2>2, <3>1 DEF Follows
  <2> QED
    BY <1>0, <2>1, <2>2 DEF VersionInv, Retrieved, SubOf, TypeOK
<1>3. ASSUME NEW h \in Handlers, NEW e \in Events, Receive(h, e) PROVE VersionInv'
  BY <1>3, ReceiveStep DEF VersionInv, Follows, stripeVars, tableVars
<1>4. ASSUME NEW h \in Handlers, Fetch(h) PROVE VersionInv'
  <2>1. snap'[h] = current[SubOf(h)] /\ current[SubOf(h)].version > 0
    BY <1>0, <1>4 DEF Fetch, ReportInv, SubOf, TypeOK
  <2>2. \A g \in Handlers : g # h => snap'[g] = snap[g] /\ pc'[g] = pc[g]
    BY <1>4 DEF Fetch, TypeOK
  <2>3. UNCHANGED <<current, row, event>> /\ current[SubOf(h)].version \in Nat
    BY <1>0, <1>4 DEF Fetch, stripeVars, tableVars, TypeOK, Snapshots
  <2> QED
    BY <2>1, <2>2, <2>3 DEF VersionInv, Follows, Retrieved, SubOf
<1>5. ASSUME NEW h \in Handlers, Handle(h) \/ Fails(h), ~Fetch(h) PROVE VersionInv'
  <2>1. \A s \in Subs : Follows(row'[s], s)
    <3>1. CASE Write(h)
      BY <1>0, <3>1 DEF Write, VersionInv, Retrieved, TypeOK
    <3>2. CASE ~Write(h)
      BY <1>5, <3>2, RetrievedStep DEF VersionInv
    <3> QED
      BY <3>1, <3>2
  <2>2. UNCHANGED current
    BY <1>5, RequestStep DEF stripeVars
  <2> QED
    BY <1>5, <2>1, <2>2, RetrievedStep DEF VersionInv, Follows
<1> QED
  BY <1>1, <1>2, <1>3, <1>4, <1>5 DEF Next, Handle

LEMMA BillingVersions == Spec => [](TypeOK /\ KindInv /\ ReportInv /\ VersionInv)
<1>1. Init => KindInv /\ ReportInv /\ VersionInv
  <2> SUFFICES ASSUME Init PROVE KindInv /\ ReportInv /\ VersionInv
    OBVIOUS
  <2>1. KindInv /\ ReportInv
    <3>1. /\ \A e \in Events : ~Reported(e)
          /\ \A t \in Subs : current[t].version = 0
          /\ ledger = {} /\ \A h \in Handlers : pc[h] = "idle"
      BY DEF Init, Blank, Reported
    <3> QED
      BY <3>1, PartsOf DEF KindInv, ReportInv
  <2>2. VersionInv
    BY DEF Init, Blank, VersionInv, Retrieved, Follows
  <2> QED
    BY <2>1, <2>2
<1> QED
  BY <1>1, BillingTyped, KindStep, ReportStep, VersionStep, PTL DEF Spec

-----------------------------------------------------------------------------
(* What is answered is recorded *)

(* A request that answers has recorded its event.                          *)
LEMMA AnswerStep ==
    ASSUME TypeOK, KindInv, NEW h \in Handlers, Handle(h) \/ Fails(h)
    PROVE  pending' = pending \/ OwnId(event[h]) \in ledger'
<1>0. KindOf(h) \in {"change", "checkout", "invoice"}
  BY EventParts DEF KindOf, TypeOK
<1>1. CASE Fetch(h) \/ LoadFirst(h) \/ Fails(h)
  BY <1>1 DEF Fetch, LoadFirst, Fails
<1>2. CASE Check(h) \/ Write(h)
  BY <1>0, <1>2 DEF Check, Write, Applied, Answered, UpsertId, OwnId, KindOf
<1>3. CASE RecordInvoice(h)
  BY <1>3 DEF RecordInvoice, OwnId, KindInv, KindOf
<1> QED
  BY <1>1, <1>2, <1>3 DEF Handle

LEMMA LedgerStep ==
    TypeOK /\ KindInv /\ ReportInv /\ VersionInv /\ LedgerInv /\ [Next]_vars => LedgerInv'
<1> SUFFICES ASSUME TypeOK, KindInv, ReportInv, VersionInv, LedgerInv, [Next]_vars PROVE LedgerInv'
  OBVIOUS
<1>0. ASSUME NEW h \in Handlers PROVE event[h] \in Events /\ SubOf(h) \in Subs /\ SubOf(h) = event[h][1]
  BY EventParts DEF TypeOK, SubOf
<1>1. CASE Tick \/ UNCHANGED vars
  BY <1>1 DEF Tick, vars, LedgerInv, Reported, tableVars
<1>2. ASSUME NEW s \in Subs, Changes(s) \/ \E n \in 1..MaxInvoices : Bills(s, n) PROVE LedgerInv'
  <2>1. \A e \in Events : created'[e] # 0 /\ e \notin pending' => Reported(e) /\ e \notin pending
    BY <1>2, EmitStep
  <2> QED
    BY <1>2, <2>1, EmitStep DEF LedgerInv, Reported, tableVars
<1>3. ASSUME NEW h \in Handlers, NEW e \in Events, Receive(h, e) PROVE LedgerInv'
  BY <1>3, ReceiveStep DEF LedgerInv, Reported, stripeVars, tableVars
<1>4. ASSUME NEW h \in Handlers, Handle(h) \/ Fails(h) PROVE LedgerInv'
  <2>1. \A e \in Events : (Reported(e) /\ e \notin pending => OwnId(e) \in ledger)'
    BY <1>4, RequestStep, AnswerStep DEF LedgerInv, Reported, OwnId, stripeVars
  <2>2. CASE Fetch(h) \/ LoadFirst(h) \/ Fails(h)
    BY <2>1, <2>2 DEF Fetch, LoadFirst, Fails, LedgerInv, tableVars
  <2>3. CASE Check(h)
    <3>1. UNCHANGED <<row, at, invoiced>> /\ ledger' \subseteq ledger \cup {UpsertId(h)}
      BY <2>3 DEF Check
    <3>2. UpsertId(h) \in ledger' => row[SubOf(h)].version > 0
      <4>1. CASE UpsertId(h) \in ledger
        BY <1>0, <4>1 DEF UpsertId, LedgerInv
      <4>2. CASE IsOlder(h)
        <5>1. at[SubOf(h)] > 0
          BY <1>0, <4>2 DEF IsOlder, TypeOK
        <5> QED
          BY <1>0, <5>1 DEF LedgerInv
      <4> QED
        BY <2>3, <4>1, <4>2 DEF Check
    <3>3. UpsertId(h) = <<event[h], "own">> => event[h][2] = "change"
      BY DEF UpsertId, KindOf
    <3>4. \A e \in Events, t \in {"own", "sub"} : <<e, t>> \in ledger' => row[e[1]].version > 0
      BY <1>0, <3>1, <3>2 DEF LedgerInv, UpsertId
    <3>5. \A e \in Events : <<e, "own">> \in ledger' /\ e[2] = "invoice" => invoiced[e[1]] > 0
      BY <3>1, <3>3 DEF LedgerInv, UpsertId
    <3> QED
      BY <2>1, <3>1, <3>4, <3>5 DEF LedgerInv
  <2>4. CASE Write(h)
    <3>1. row'[SubOf(h)].version > 0 /\ \A s \in Subs : s # SubOf(h) => row'[s] = row[s] /\ at'[s] = at[s]
      BY <1>0, <2>4 DEF Write, VersionInv, Retrieved, TypeOK
    <3>2. UNCHANGED invoiced /\ ledger' = ledger \cup {UpsertId(h)}
      BY <2>4 DEF Write
    <3>3. UpsertId(h) = <<event[h], "own">> => event[h][2] = "change"
      BY DEF UpsertId, KindOf
    <3>4. \A e \in Events, t \in {"own", "sub"} : <<e, t>> \in ledger' => row'[e[1]].version > 0
      BY <1>0, <3>1, <3>2, EventParts DEF LedgerInv, UpsertId
    <3>5. \A e \in Events : <<e, "own">> \in ledger' /\ e[2] = "invoice" => invoiced[e[1]] > 0
      BY <3>2, <3>3 DEF LedgerInv, UpsertId
    <3> QED
      BY <2>1, <3>1, <3>2, <3>4, <3>5 DEF LedgerInv
  <2>5. CASE RecordInvoice(h)
    <3>1. row[SubOf(h)].version > 0 /\ event[h][3] > 0
      BY <1>0, <2>5, EventParts DEF RecordInvoice, Known, KindInv, KindOf
    <3>2. UNCHANGED <<row, at>> /\ ledger' = ledger \cup {<<event[h], "own">>}
      BY <2>5 DEF RecordInvoice
    <3>3. \A e \in Events, t \in {"own", "sub"} : <<e, t>> \in ledger' => row[e[1]].version > 0
      BY <1>0, <3>1, <3>2 DEF LedgerInv
    <3>4. \A s \in Subs : invoiced[s] > 0 => invoiced'[s] > 0
      BY <2>5, <3>1 DEF RecordInvoice, TypeOK
    <3>5. invoiced'[SubOf(h)] > 0
      BY <1>0, <2>5, <3>1 DEF RecordInvoice, LedgerInv, KindInv, KindOf, TypeOK
    <3>6. \A e \in Events : <<e, "own">> \in ledger' /\ e[2] = "invoice" => invoiced'[e[1]] > 0
      BY <1>0, <3>2, <3>4, <3>5, EventParts DEF LedgerInv
    <3> QED
      BY <2>1, <3>2, <3>3, <3>6 DEF LedgerInv
  <2> QED
    BY <1>4, <2>2, <2>3, <2>4, <2>5 DEF Handle
<1> QED
  BY <1>1, <1>2, <1>3, <1>4 DEF Next

LEMMA BillingLedger == Spec => []LedgerInv
<1>1. Init => LedgerInv
  BY DEF Init, LedgerInv, Reported
<1> QED
  BY <1>1, LedgerStep, BillingVersions, PTL DEF Spec

(* Whatever failed before, an event is answered 200 only when its          *)
(* subscription, and the outcome of an invoice, are in the tables.         *)
THEOREM BillingAnsweredIsRecorded == Spec => []AnsweredIsRecorded
<1>1. LedgerInv => AnsweredIsRecorded
  BY DEF LedgerInv, AnsweredIsRecorded, OwnId, Reported
<1> QED
  BY <1>1, BillingLedger, PTL

-----------------------------------------------------------------------------
(* The tenant's plan *)

LEMMA PlanStep ==
    ASSUME ~PlanChanges, \A s, t \in Subs : s = t
    PROVE  TypeOK /\ ReportInv /\ VersionInv /\ PlanInv /\ [Next]_vars => PlanInv'
<1> SUFFICES ASSUME TypeOK, ReportInv, VersionInv, PlanInv, [Next]_vars PROVE PlanInv'
  OBVIOUS
<1>0. ASSUME NEW h \in Handlers PROVE event[h] \in Events /\ SubOf(h) \in Subs
  BY EventParts DEF TypeOK, SubOf
<1>1. CASE Tick \/ (\E s \in Subs, n \in 1..MaxInvoices : Bills(s, n)) \/ UNCHANGED vars
  BY <1>1 DEF Tick, Bills, vars, PlanInv, Retrieved, SubOf, tableVars, handlerVars
<1>2. ASSUME NEW s \in Subs, Changes(s) PROVE PlanInv'
  <2>1. UNCHANGED <<row, plan, pc, event, snap>>
    BY <1>2 DEF Changes, tableVars, handlerVars
  <2>2. ASSUME NEW x \in Snapshots, NEW t \in Subs, Follows(x, t), x.version > 0
        PROVE  current'[t].plan = current[t].plan
    <3>1. current[t].version > 0
      BY <2>2 DEF Follows, TypeOK, Snapshots
    <3> QED
      BY <1>2, <3>1, ChangesStep
  <2>3. \A t \in Subs : row[t].version > 0 => current'[t].plan = current[t].plan
    BY <2>2 DEF VersionInv, TypeOK
  <2>4. \A h \in Handlers : Retrieved(h) => current'[SubOf(h)].plan = current[SubOf(h)].plan
    BY <1>0, <2>2 DEF VersionInv, TypeOK
  <2> QED
    BY <2>1, <2>3, <2>4 DEF PlanInv, Retrieved, SubOf
<1>3. ASSUME NEW h \in Handlers, NEW e \in Events, Receive(h, e) PROVE PlanInv'
  BY <1>3, ReceiveStep DEF PlanInv, stripeVars, tableVars
<1>4. ASSUME NEW h \in Handlers, Fetch(h) PROVE PlanInv'
  BY <1>4 DEF Fetch, PlanInv, Retrieved, SubOf, stripeVars, tableVars, TypeOK
<1>5. ASSUME NEW h \in Handlers, Handle(h) \/ Fails(h), ~Fetch(h) PROVE PlanInv'
  <2>1. UNCHANGED current
    BY <1>5, RequestStep DEF stripeVars
  <2>2. \A g \in Handlers : (Retrieved(g) => snap[g].plan = current[SubOf(g)].plan)'
    BY <1>5, <2>1, RetrievedStep DEF PlanInv
  <2>3. CASE Write(h)
    <3> DEFINE s == SubOf(h)
    <3>1. row'[s] = snap[h] /\ snap[h].version > 0 /\ snap[h].plan = current[s].plan
      BY <1>0, <2>3 DEF Write, VersionInv, PlanInv, Retrieved, TypeOK
    <3>2. plan \in {None, snap[h].plan} /\ snap[h].plan # None
      BY <1>0, <3>1 DEF PlanInv, TypeOK, Snapshots
    <3>3. plan' = IF snap[h].on THEN snap[h].plan ELSE None
      BY <2>3, <3>2 DEF Write, PlanAfter
    <3>4. \A t \in Subs : t = s
      BY <1>0
    <3> QED
      BY <2>1, <2>2, <3>1, <3>3, <3>4 DEF PlanInv
  <2>4. CASE ~Write(h)
    BY <1>5, <2>1, <2>2, <2>4, RetrievedStep DEF PlanInv
  <2> QED
    BY <2>3, <2>4
<1> QED
  BY <1>1, <1>2, <1>3, <1>4, <1>5 DEF Next, Handle

(* With one subscription that stays on its plan, the tenant has the plan   *)
(* its subscription pays for.                                              *)
THEOREM BillingPlanIsPaid == Spec => []PlanIsPaid
<1>1. CASE ~PlanChanges /\ Cardinality(Subs) = 1
  <2>1. \A s, t \in Subs : s = t
    <3>1. PICK s \in Subs : TRUE
      OBVIOUS
    <3>2. IsFiniteSet(Subs \ {s}) /\ Cardinality(Subs \ {s}) = 0
      BY <1>1, <3>1, FS_RemoveElement
    <3>3. Subs \ {s} = {}
      BY <3>2, FS_EmptySet
    <3> QED
      BY <3>3
  <2>2. Init => PlanInv
    BY DEF Init, Blank, PlanInv, Retrieved
  <2>3. PlanInv => PlanIsPaid
    BY DEF PlanInv, PlanIsPaid
  <2>4. TypeOK /\ ReportInv /\ VersionInv /\ PlanInv /\ [Next]_vars => PlanInv'
    BY <1>1, <2>1, PlanStep
  <2> QED
    BY <2>2, <2>3, <2>4, BillingVersions, PTL DEF Spec
<1>2. CASE ~(~PlanChanges /\ Cardinality(Subs) = 1)
  <2>1. PlanIsPaid
    BY <1>2 DEF PlanIsPaid
  <2> QED
    BY <2>1, PTL
<1> QED
  BY <1>1, <1>2

-----------------------------------------------------------------------------
(* What is stored once every event is answered *)

(* A change reported now carries the current second, and no event or row   *)
(* a later one.                                                            *)
LEMMA NewChange ==
    ASSUME TypeOK, ReportInv, NEW s \in Subs,
           Changes(s) \/ \E n \in 1..MaxInvoices : Bills(s, n),
           NEW t \in Subs, NEW m \in 1..MaxVersion, NEW u \in 0..MaxTime, u <= clock,
           created'[Change(t, m)] # 0, created'[Change(t, m)] < u
    PROVE  Reported(Change(t, m)) /\ created[Change(t, m)] < u
<1> DEFINE c == Change(t, m)
<1>1. c \in Events
  BY PartsOf
<1>2. CASE Reported(c)
  BY <1>1, <1>2, EmitStep
<1>3. CASE ~Reported(c)
  <2>1. created'[c] = clock
    BY <1>1, <1>3, EmitStep
  <2> QED
    BY <2>1 DEF TypeOK
<1> QED
  BY <1>2, <1>3

LEMMA SeenStep == TypeOK /\ ReportInv /\ SeenInv /\ [Next]_vars => SeenInv'
<1> SUFFICES ASSUME TypeOK, ReportInv, SeenInv, [Next]_vars PROVE SeenInv'
  OBVIOUS
<1>0. ASSUME NEW h \in Handlers
      PROVE  event[h] \in Events /\ SubOf(h) \in Subs /\ event[h][1] = SubOf(h)
  BY EventParts DEF TypeOK, SubOf
<1>1. CASE Tick \/ UNCHANGED vars
  BY <1>1 DEF Tick, vars, SeenInv, UpTo, Retrieved, Reported, SubOf, KindOf, tableVars, handlerVars, TypeOK
<1>2. ASSUME NEW s \in Subs, Changes(s) \/ \E n \in 1..MaxInvoices : Bills(s, n) PROVE SeenInv'
  <2>1. UNCHANGED <<clock, row, at, pc, event, snap>>
    BY <1>2, EmitStep DEF tableVars, handlerVars
  <2>2. ASSUME NEW x, NEW t \in Subs, NEW u \in 0..MaxTime, u <= clock, UpTo(u, x, t)
        PROVE  UpTo(u, x, t)'
    BY <1>2, <2>2, NewChange DEF UpTo, Reported
  <2>3. ASSUME NEW h \in Handlers, Retrieved(h)
        PROVE  UpTo(created[event[h]], snap[h], SubOf(h))'
    <3>1. /\ created'[event[h]] = created[event[h]] /\ created[event[h]] <= clock
          /\ created[event[h]] \in 0..MaxTime
      BY <1>0, <1>2, <2>3, EmitStep DEF ReportInv, Retrieved, TypeOK
    <3>2. UpTo(created[event[h]], snap[h], SubOf(h))
      BY <2>3 DEF SeenInv
    <3>3. ASSUME NEW n \in 1..MaxVersion, created'[Change(SubOf(h), n)] # 0,
                 created'[Change(SubOf(h), n)] < created[event[h]]
          PROVE  snap[h].version >= n
      <4>1. Reported(Change(SubOf(h), n)) /\ created[Change(SubOf(h), n)] < created[event[h]]
        BY <1>0, <1>2, <3>1, <3>3, NewChange
      <4> QED
        BY <3>2, <4>1 DEF UpTo
    <3>4. SubOf(h)' = SubOf(h) /\ snap'[h] = snap[h] /\ created'[event'[h]] = created[event[h]]
      BY <2>1, <3>1 DEF SubOf
    <3> QED
      BY <3>3, <3>4 DEF UpTo, Reported
  <2>4. \A t \in Subs : UpTo(at[t], row[t], t)'
    <3> SUFFICES ASSUME NEW t \in Subs, NEW n \in 1..MaxVersion,
                        created'[Change(t, n)] # 0, created'[Change(t, n)] < at[t]
                 PROVE  row[t].version >= n
      BY <2>1 DEF UpTo, Reported
    <3>1. at[t] \in 0..MaxTime /\ at[t] <= clock /\ UpTo(at[t], row[t], t)
      BY DEF SeenInv, TypeOK
    <3> QED
      BY <1>2, <3>1, NewChange DEF UpTo
  <2>5. \A h \in Handlers : (Retrieved(h) => UpTo(created[event[h]], snap[h], SubOf(h)))'
    BY <2>1, <2>3 DEF Retrieved
  <2>7. \A h \in Handlers : (Retrieved(h) /\ KindOf(h) = "change" => snap[h].version >= event[h][3])'
    BY <2>1 DEF SeenInv, Retrieved, KindOf
  <2>6. \A t \in Subs : (at[t] <= clock)'
    BY <2>1 DEF SeenInv
  <2> QED
    BY <2>4, <2>5, <2>6, <2>7 DEF SeenInv
<1>3. ASSUME NEW h \in Handlers, NEW e \in Events, Receive(h, e) PROVE SeenInv'
  BY <1>3, ReceiveStep DEF SeenInv, UpTo, Reported, KindOf, stripeVars, tableVars
<1>4. ASSUME NEW h \in Handlers, Fetch(h) PROVE SeenInv'
  <2>1. /\ UNCHANGED <<clock, created, row, at, event>>
        /\ snap'[h] = current[SubOf(h)]
        /\ \A g \in Handlers : g # h => snap'[g] = snap[g] /\ pc'[g] = pc[g]
    BY <1>4 DEF Fetch, stripeVars, tableVars, TypeOK
  <2>2. UpTo(created[event[h]], current[SubOf(h)], SubOf(h))
    BY <1>0 DEF UpTo, ReportInv, TypeOK
  <2>3. KindOf(h) = "change" => current[SubOf(h)].version >= event[h][3]
    <3> SUFFICES ASSUME KindOf(h) = "change" PROVE current[SubOf(h)].version >= event[h][3]
      OBVIOUS
    <3>1. event[h] = Change(SubOf(h), event[h][3]) /\ event[h][3] \in 1..MaxVersion
      BY <1>0, EventParts DEF KindOf
    <3>2. Reported(Change(SubOf(h), event[h][3]))
      BY <1>4, <3>1 DEF Fetch, ReportInv
    <3>3. event[h][3] <= current[SubOf(h)].version /\ current[SubOf(h)].version \in Nat
      BY <1>0, <3>1, <3>2 DEF ReportInv, TypeOK, Snapshots
    <3> QED
      BY <3>1, <3>3
  <2> QED
    BY <2>1, <2>2, <2>3 DEF SeenInv, UpTo, Retrieved, Reported, SubOf, KindOf
<1>5. ASSUME NEW h \in Handlers, Handle(h) \/ Fails(h), ~Fetch(h) PROVE SeenInv'
  <2>1. UNCHANGED <<clock, created>>
    BY <1>5, RequestStep DEF stripeVars
  <2>2. \A g \in Handlers : (Retrieved(g) =>
            /\ UpTo(created[event[g]], snap[g], SubOf(g))
            /\ KindOf(g) = "change" => snap[g].version >= event[g][3])'
    BY <1>5, <2>1, RetrievedStep DEF SeenInv, UpTo, Reported, KindOf
  <2>3. CASE Write(h)
    <3>1. /\ row'[SubOf(h)] = snap[h] /\ at'[SubOf(h)] = created[event[h]]
          /\ \A s \in Subs : s # SubOf(h) => row'[s] = row[s] /\ at'[s] = at[s]
          /\ Retrieved(h) /\ created[event[h]] <= clock
      BY <1>0, <2>3 DEF Write, Retrieved, ReportInv, TypeOK
    <3> QED
      BY <1>0, <2>1, <2>2, <3>1 DEF SeenInv, UpTo, Reported
  <2>4. CASE ~Write(h)
    BY <1>5, <2>1, <2>2, <2>4, RetrievedStep DEF SeenInv, UpTo, Reported
  <2> QED
    BY <2>3, <2>4
<1> QED
  BY <1>1, <1>2, <1>3, <1>4, <1>5 DEF Next, Handle

(* A step that records no change and moves no request past the comparison. *)
LEMMA OrderKept ==
    ASSUME TypeOK, OrderInv, UNCHANGED <<row, at, overtaken>>,
           \A g \in Handlers : pc'[g] = "write" =>
               pc[g] = "write" /\ snap'[g] = snap[g] /\ SubOf(g)' = SubOf(g)
                   /\ created'[event'[g]] = created[event[g]],
           \A s \in Subs, n \in 1..MaxVersion : <<Change(s, n), "own">> \in ledger' =>
               <<Change(s, n), "own">> \in ledger /\ created'[Change(s, n)] = created[Change(s, n)]
    PROVE  OrderInv'
<1>0. \A h \in Handlers : SubOf(h) \in Subs
  BY EventParts DEF TypeOK, SubOf
<1>2. ASSUME NEW h \in Handlers, (pc[h] = "write" /\ SubOf(h) \notin overtaken)'
      PROVE  /\ (at[SubOf(h)] <= created[event[h]])'
             /\ \A n \in 1..MaxVersion : Holds(snap[h], SubOf(h), n)'
  <2>1. /\ pc[h] = "write" /\ SubOf(h) \notin overtaken /\ SubOf(h)' = SubOf(h)
        /\ snap'[h] = snap[h] /\ created'[event'[h]] = created[event[h]]
    BY <1>2
  <2> QED
    BY <1>0, <2>1 DEF OrderInv, Holds
<1>3. \A s \in Subs \ overtaken', n \in 1..MaxVersion :
         /\ Holds(row[s], s, n)'
         /\ (<<Change(s, n), "own">> \in ledger => created[Change(s, n)] <= at[s])'
  BY DEF OrderInv, Holds
<1> QED
  BY <1>2, <1>3 DEF OrderInv

LEMMA OrderCheck ==
    ASSUME TypeOK, ReportInv, VersionInv, SeenInv, OrderInv, NEW h \in Handlers, Check(h)
    PROVE  OrderInv'
<1> DEFINE s == SubOf(h)
<1>0. event[h] \in Events /\ s \in Subs /\ event[h][1] = s
  BY EventParts DEF TypeOK, SubOf
<1>1. UNCHANGED <<created, row, at>> /\ \A g \in Handlers : g # h => pc'[g] = pc[g]
  BY RequestStep DEF Check, Handle, stripeVars
<1>2. CASE pc' = [pc EXCEPT ![h] = "write"] /\ ~IsOlder(h) /\ UNCHANGED <<ledger, event, snap>>
           /\ overtaken' = IF SameSecond(h) THEN overtaken \cup {SubOf(h)} ELSE overtaken
  <2>1. \A g \in Handlers : SubOf(g)' = SubOf(g)
    BY <1>2 DEF SubOf
  <2>2. ASSUME s \notin overtaken'
        PROVE  at[s] <= created[event[h]] /\ \A n \in 1..MaxVersion : Holds(snap[h], s, n)
    <3>1. s \notin overtaken /\ ~SameSecond(h)
      BY <1>2, <2>2
    <3>2. at[s] \in Nat /\ created[event[h]] \in Nat /\ at[s] <= created[event[h]]
      BY <1>0, <1>2 DEF IsOlder, TypeOK
    <3>3. ASSUME NEW n \in 1..MaxVersion, <<Change(s, n), "own">> \in ledger
          PROVE  snap[h].version >= n
      <4>1. /\ created[Change(s, n)] <= at[s] /\ row[s].version >= n
            /\ Reported(Change(s, n)) /\ created[Change(s, n)] \in Nat
        <5>1. Change(s, n) \in Events /\ Reported(Change(s, n))
          BY <1>0, <3>3, PartsOf DEF ReportInv
        <5>2. created[Change(s, n)] <= at[s] /\ row[s].version >= n
          BY <1>0, <3>1, <3>3 DEF OrderInv, Holds
        <5> QED
          BY <5>1, <5>2 DEF TypeOK
      <4>2. CASE at[s] = created[event[h]]
        <5>1. snap[h].version \in Nat /\ row[s].version \in Nat
          BY <1>0 DEF TypeOK, Snapshots
        <5> QED
          BY <3>1, <4>1, <4>2, <5>1 DEF SameSecond
      <4>3. CASE at[s] < created[event[h]]
        <5>1. Retrieved(h) /\ created[Change(s, n)] < created[event[h]]
          BY <3>2, <4>1, <4>3 DEF Check, Retrieved
        <5> QED
          BY <4>1, <5>1 DEF SeenInv, UpTo
      <4> QED
        BY <3>2, <4>2, <4>3
    <3> QED
      BY <3>2, <3>3 DEF Holds
  <2>3. overtaken \subseteq overtaken'
    BY <1>2
  <2>4. ASSUME NEW g \in Handlers, (pc[g] = "write" /\ SubOf(g) \notin overtaken)'
        PROVE  /\ at[SubOf(g)] <= created[event[g]]
               /\ \A n \in 1..MaxVersion : Holds(snap[g], SubOf(g), n)
    <3>1. CASE g = h
      BY <2>1, <2>2, <2>4, <3>1
    <3>2. CASE g # h
      BY <1>1, <2>1, <2>3, <2>4, <3>2 DEF OrderInv
    <3> QED
      BY <3>1, <3>2
  <2>5. \A t \in Subs \ overtaken', n \in 1..MaxVersion :
            Holds(row[t], t, n) /\ (<<Change(t, n), "own">> \in ledger => created[Change(t, n)] <= at[t])
    BY <2>3 DEF OrderInv
  <2> QED
    BY <1>1, <1>2, <2>1, <2>4, <2>5 DEF OrderInv, Holds
<1>3. CASE /\ UpsertId(h) \in ledger \/ IsOlder(h)
           /\ ledger' = ledger \cup {UpsertId(h)} /\ Applied(h) /\ UNCHANGED overtaken
  <2>1. pc'[h] # "write"
    BY <1>3 DEF Applied, Answered, Ends, TypeOK
  <2>2. \A g \in Handlers : pc'[g] = "write" =>
            pc[g] = "write" /\ snap'[g] = snap[g] /\ event'[g] = event[g] /\ SubOf(g)' = SubOf(g)
    BY <1>1, <2>1, RetrievedStep DEF Handle, Retrieved, Check, Fetch
  <2>3. CASE UpsertId(h) \in ledger
    <3>1. ledger' = ledger
      BY <1>3, <2>3
    <3> QED
      BY <1>1, <1>3, <2>2, <3>1, OrderKept
  <2>4. CASE IsOlder(h)
    <3>1. /\ at[s] > created[event[h]] /\ at[s] \in Nat /\ created[event[h]] \in Nat
          /\ Reported(event[h])
      BY <1>0, <2>4 DEF IsOlder, Check, ReportInv, TypeOK
    <3>2. ASSUME NEW t \in Subs, NEW n \in 1..MaxVersion, <<Change(t, n), "own">> \in ledger',
                 <<Change(t, n), "own">> \notin ledger
          PROVE  t = s /\ Change(t, n) = event[h]
      BY <1>0, <1>3, <3>2, PartsOf DEF UpsertId
    <3>3. ASSUME NEW t \in Subs \ overtaken, NEW n \in 1..MaxVersion, <<Change(t, n), "own">> \in ledger'
          PROVE  row[t].version >= n /\ created[Change(t, n)] <= at[t]
      <4>1. CASE <<Change(t, n), "own">> \in ledger
        BY <4>1 DEF OrderInv, Holds
      <4>2. CASE <<Change(t, n), "own">> \notin ledger
        BY <3>1, <3>2, <3>3, <4>2 DEF SeenInv, UpTo
      <4> QED
        BY <4>1, <4>2
    <3>4. ASSUME NEW g \in Handlers, pc'[g] = "write", SubOf(g) \notin overtaken,
                 NEW n \in 1..MaxVersion, <<Change(SubOf(g), n), "own">> \in ledger'
          PROVE  snap[g].version >= n
      <4>0. SubOf(g) \in Subs /\ event[g] \in Events
        BY EventParts DEF TypeOK, SubOf
      <4>1. CASE <<Change(SubOf(g), n), "own">> \in ledger
        BY <2>2, <3>4, <4>1 DEF OrderInv, Holds
      <4>2. CASE <<Change(SubOf(g), n), "own">> \notin ledger
        <5>1. SubOf(g) = s /\ Change(s, n) = event[h]
          BY <3>2, <3>4, <4>0, <4>2
        <5>2. at[s] <= created[event[g]] /\ Retrieved(g) /\ created[event[g]] \in Nat
          BY <2>2, <3>4, <4>0, <5>1 DEF OrderInv, Retrieved, TypeOK
        <5>3. created[Change(s, n)] < created[event[g]]
          BY <3>1, <5>1, <5>2
        <5> QED
          BY <3>1, <5>1, <5>2, <5>3 DEF SeenInv, UpTo
      <4> QED
        BY <4>1, <4>2
    <3>5. ASSUME NEW g \in Handlers, (pc[g] = "write" /\ SubOf(g) \notin overtaken)'
          PROVE  /\ (at[SubOf(g)] <= created[event[g]])'
                 /\ \A n \in 1..MaxVersion : Holds(snap[g], SubOf(g), n)'
      <4>1. pc[g] = "write" /\ SubOf(g) \notin overtaken /\ SubOf(g)' = SubOf(g)
            /\ snap'[g] = snap[g] /\ event'[g] = event[g]
        BY <1>3, <2>2, <3>5
      <4> QED
        BY <1>1, <3>4, <3>5, <4>1 DEF OrderInv, Holds
    <3>6. \A t \in Subs \ overtaken', n \in 1..MaxVersion :
              Holds(row[t], t, n)' /\ (<<Change(t, n), "own">> \in ledger => created[Change(t, n)] <= at[t])'
      BY <1>1, <1>3, <3>3 DEF Holds
    <3> QED
      BY <3>5, <3>6 DEF OrderInv
  <2> QED
    BY <1>3, <2>3, <2>4
<1> QED
  BY <1>2, <1>3 DEF Check

LEMMA OrderWrite ==
    ASSUME TypeOK, ReportInv, VersionInv, SeenInv, OrderInv, NEW h \in Handlers, Write(h)
    PROVE  OrderInv'
<1> DEFINE s == SubOf(h)
<1>0. event[h] \in Events /\ s \in Subs /\ event[h][1] = s /\ created[event[h]] \in Nat
  BY EventParts DEF TypeOK, SubOf
<1>1. /\ row'[s] = snap[h] /\ at'[s] = created[event[h]]
      /\ \A t \in Subs : t # s => row'[t] = row[t] /\ at'[t] = at[t]
      /\ ledger' = ledger \cup {UpsertId(h)} /\ pc[h] = "write"
      /\ UNCHANGED created /\ overtaken \subseteq overtaken'
  BY <1>0 DEF Write, stripeVars, TypeOK
<1>2. pc'[h] # "write"
  BY DEF Write, Applied, Answered, Ends, TypeOK
<1>3. \A g \in Handlers : pc'[g] = "write" =>
          /\ g # h /\ pc[g] = "write" /\ snap'[g] = snap[g]
          /\ event'[g] = event[g] /\ SubOf(g)' = SubOf(g) /\ SubOf(g) \in Subs
  BY <1>1, <1>2, RequestStep, RetrievedStep, EventParts DEF Handle, Retrieved, Fetch, SubOf, TypeOK
<1>4. ASSUME NEW t \in Subs, NEW n \in 1..MaxVersion, <<Change(t, n), "own">> \in ledger',
             <<Change(t, n), "own">> \notin ledger
      PROVE  t = s /\ Change(t, n) = event[h]
  BY <1>0, <1>1, <1>4, PartsOf DEF UpsertId
<1>5. ASSUME s \notin overtaken, NEW n \in 1..MaxVersion, <<Change(s, n), "own">> \in ledger'
      PROVE  snap[h].version >= n /\ created[Change(s, n)] <= created[event[h]]
  <2>1. CASE <<Change(s, n), "own">> \in ledger
    <3>1. /\ snap[h].version >= n
          /\ created[Change(s, n)] <= at[s] /\ at[s] <= created[event[h]]
      BY <1>0, <1>1, <1>5, <2>1 DEF OrderInv, Holds
    <3>2. created[Change(s, n)] \in Nat /\ at[s] \in Nat
      BY <1>0, PartsOf DEF TypeOK
    <3> QED
      BY <1>0, <3>1, <3>2
  <2>2. CASE <<Change(s, n), "own">> \notin ledger
    <3>1. Change(s, n) = event[h]
      BY <1>0, <1>4, <1>5, <2>2
    <3>2. KindOf(h) = "change" /\ event[h][3] = n /\ Retrieved(h)
      BY <1>0, <1>1, <3>1, PartsOf DEF KindOf, Retrieved
    <3> QED
      BY <1>0, <3>1, <3>2 DEF SeenInv
  <2> QED
    BY <2>1, <2>2
<1>6. ASSUME NEW g \in Handlers, pc'[g] = "write", SubOf(g) = s, s \notin overtaken'
      PROVE  /\ created[event[h]] <= created[event[g]]
             /\ \A n \in 1..MaxVersion : <<Change(s, n), "own">> \in ledger' => snap[g].version >= n
  <2>1. /\ pc[g] = "write" /\ g # h /\ ~Overtakes(g, h) /\ s \notin overtaken
        /\ created[event[g]] \in Nat /\ snap[g].version \in Nat /\ snap[h].version \in Nat
    BY <1>1, <1>3, <1>6 DEF Write, TypeOK, Snapshots
  <2>2. \/ created[event[h]] < created[event[g]]
        \/ created[event[h]] = created[event[g]] /\ snap[g].version >= snap[h].version
    BY <1>0, <1>6, <2>1 DEF Overtakes
  <2>3. ASSUME NEW n \in 1..MaxVersion, <<Change(s, n), "own">> \in ledger'
        PROVE  snap[g].version >= n
    <3>1. /\ Change(s, n) \in Events /\ created[Change(s, n)] \in Nat
          /\ snap[h].version >= n /\ created[Change(s, n)] <= created[event[h]]
      BY <1>0, <1>5, <2>1, <2>3, PartsOf DEF TypeOK
    <3>2. Reported(Change(s, n))
      BY <1>0, <1>1, <1>4, <2>3, <3>1 DEF ReportInv
    <3>3. CASE created[event[h]] < created[event[g]]
      BY <1>0, <1>6, <2>1, <3>1, <3>2, <3>3 DEF SeenInv, UpTo, Retrieved
    <3> QED
      BY <2>1, <2>2, <3>1, <3>3
  <2> QED
    BY <1>0, <2>1, <2>2, <2>3
<1>7. ASSUME NEW g \in Handlers, (pc[g] = "write" /\ SubOf(g) \notin overtaken)'
      PROVE  /\ (at[SubOf(g)] <= created[event[g]])'
             /\ \A n \in 1..MaxVersion : Holds(snap[g], SubOf(g), n)'
  <2>1. /\ pc[g] = "write" /\ SubOf(g) \notin overtaken /\ SubOf(g)' = SubOf(g) /\ SubOf(g) \in Subs
        /\ snap'[g] = snap[g] /\ event'[g] = event[g] /\ SubOf(g) \notin overtaken'
    BY <1>1, <1>3, <1>7
  <2>2. CASE SubOf(g) = s
    BY <1>1, <1>6, <1>7, <2>1, <2>2 DEF Holds
  <2>3. CASE SubOf(g) # s
    <3>1. at'[SubOf(g)] = at[SubOf(g)]
      BY <1>1, <2>1, <2>3
    <3>2. \A n \in 1..MaxVersion : <<Change(SubOf(g), n), "own">> \in ledger' =>
              <<Change(SubOf(g), n), "own">> \in ledger
      BY <1>4, <2>1, <2>3
    <3> QED
      BY <1>1, <2>1, <3>1, <3>2 DEF OrderInv, Holds
  <2> QED
    BY <2>2, <2>3
<1>8. ASSUME NEW t \in Subs \ overtaken', NEW n \in 1..MaxVersion
      PROVE  Holds(row[t], t, n)' /\ (<<Change(t, n), "own">> \in ledger => created[Change(t, n)] <= at[t])'
  <2>1. CASE t = s
    BY <1>1, <1>5, <1>8, <2>1 DEF Holds
  <2>2. CASE t # s
    <3>1. <<Change(t, n), "own">> \in ledger' => <<Change(t, n), "own">> \in ledger
      BY <1>4, <2>2
    <3> QED
      BY <1>1, <1>8, <2>2, <3>1 DEF OrderInv, Holds
  <2> QED
    BY <2>1, <2>2
<1> QED
  BY <1>7, <1>8 DEF OrderInv

LEMMA OrderStep ==
    TypeOK /\ KindInv /\ ReportInv /\ VersionInv /\ SeenInv /\ OrderInv /\ [Next]_vars => OrderInv'
<1> SUFFICES ASSUME TypeOK, KindInv, ReportInv, VersionInv, SeenInv, OrderInv, [Next]_vars
             PROVE  OrderInv'
  OBVIOUS
<1>1. CASE Tick \/ UNCHANGED vars
  BY <1>1, OrderKept DEF Tick, vars, SubOf, tableVars, handlerVars
<1>2. ASSUME NEW s \in Subs, Changes(s) \/ \E n \in 1..MaxInvoices : Bills(s, n) PROVE OrderInv'
  <2>1. UNCHANGED <<row, at, ledger, pc, event, snap, overtaken>>
    BY <1>2, EmitStep DEF tableVars, handlerVars, Changes, Bills
  <2>2. \A e \in Events : Reported(e) => created'[e] = created[e]
    BY <1>2, EmitStep
  <2>3. \A g \in Handlers : pc[g] = "write" => created'[event[g]] = created[event[g]]
    BY <2>2 DEF ReportInv, TypeOK
  <2>4. \A t \in Subs, n \in 1..MaxVersion : <<Change(t, n), "own">> \in ledger =>
            created'[Change(t, n)] = created[Change(t, n)]
    BY <2>2, PartsOf DEF ReportInv
  <2> QED
    BY <2>1, <2>3, <2>4, OrderKept DEF SubOf
<1>3. ASSUME NEW h \in Handlers, NEW e \in Events, Receive(h, e) PROVE OrderInv'
  <2>1. \A g \in Handlers : pc'[g] = "write" =>
            pc[g] = "write" /\ snap'[g] = snap[g] /\ event'[g] = event[g] /\ SubOf(g)' = SubOf(g)
    BY <1>3, ReceiveStep DEF Retrieved
  <2>2. UNCHANGED <<created, row, at, ledger, overtaken>>
    BY <1>3 DEF Receive, stripeVars, tableVars
  <2> QED
    BY <2>1, <2>2, OrderKept
<1>4. ASSUME NEW h \in Handlers, Fetch(h) \/ LoadFirst(h) \/ RecordInvoice(h) \/ Fails(h)
      PROVE  OrderInv'
  <2>1. UNCHANGED <<created, row, at, overtaken>> /\ pc'[h] # "write"
    BY <1>4 DEF Fetch, LoadFirst, RecordInvoice, Fails, Answered, Ends, stripeVars, tableVars, TypeOK
  <2>2. \A s \in Subs, n \in 1..MaxVersion :
            <<Change(s, n), "own">> \in ledger' => <<Change(s, n), "own">> \in ledger
    BY <1>4, PartsOf DEF Fetch, LoadFirst, RecordInvoice, Fails, KindInv, KindOf, tableVars
  <2>3. \A g \in Handlers : pc'[g] = "write" =>
            pc[g] = "write" /\ snap'[g] = snap[g] /\ event'[g] = event[g] /\ SubOf(g)' = SubOf(g)
    <3>1. CASE Fetch(h)
      BY <2>1, <3>1 DEF Fetch, SubOf, TypeOK
    <3>2. CASE ~Fetch(h)
      BY <1>4, <2>1, <3>2, RequestStep, RetrievedStep DEF Handle, Retrieved
    <3> QED
      BY <3>1, <3>2
  <2> QED
    BY <2>1, <2>2, <2>3, OrderKept
<1>5. ASSUME NEW h \in Handlers, Check(h) \/ Write(h) PROVE OrderInv'
  BY <1>5, OrderCheck, OrderWrite
<1> QED
  BY <1>1, <1>2, <1>3, <1>4, <1>5 DEF Next, Handle

(* Once every event has been answered, what is stored is what Stripe has,  *)
(* in whatever order and however often the events came and however their   *)
(* requests overlapped, unless the comparison of times let an old state    *)
(* through: only then may the row be an old one.                           *)
THEOREM BillingCurrentOnceQuiet == Spec => []CurrentOnceQuiet
<1>1. Init => SeenInv /\ OrderInv
  BY PartsOf DEF Init, SeenInv, OrderInv, Holds, UpTo, Retrieved, Reported
<1>2. TypeOK /\ ReportInv /\ VersionInv /\ LedgerInv /\ OrderInv => CurrentOnceQuiet
  <2> SUFFICES ASSUME TypeOK, ReportInv, VersionInv, LedgerInv, OrderInv, pending = {},
                      NEW s \in Subs \ overtaken
               PROVE  row[s] = current[s]
    BY DEF CurrentOnceQuiet, Quiet
  <2> DEFINE v == current[s].version
             e == Change(s, v)
  <2>1. v \in 0..MaxVersion /\ row[s].version \in Nat /\ row[s].version <= v
    BY DEF TypeOK, Snapshots, VersionInv, Follows
  <2>2. CASE v > 0
    <3>1. v \in 1..MaxVersion /\ e \in Events /\ e[2] = "change" /\ Reported(e)
      BY <2>1, <2>2, PartsOf DEF ReportInv
    <3>2. <<e, "own">> \in ledger
      BY <3>1 DEF LedgerInv, OwnId
    <3>3. row[s].version >= v
      BY <3>1, <3>2 DEF OrderInv, Holds
    <3> QED
      BY <2>1, <3>3 DEF VersionInv, Follows
  <2>3. CASE v = 0
    BY <2>1, <2>3 DEF VersionInv, Follows
  <2> QED
    BY <2>1, <2>2, <2>3
<1> QED
  BY <1>1, <1>2, SeenStep, OrderStep, BillingVersions, BillingLedger, PTL DEF Spec
====
