------------------------------- MODULE Billing -------------------------------
(***************************************************************************)
(* Stripe billing of one tenant.  Stripe changes subscriptions and reports *)
(* each change, each checkout and each invoice as an event, delivered at   *)
(* least once, in any order, and again until it is answered 200.  The      *)
(* handler does not trust the payload of a subscription event: it          *)
(* retrieves the subscription, and stores what it read under the time the  *)
(* event was created, unless what is stored has a later time.              *)
(*                                                                         *)
(* billing_subscription_upsert reads last_event_at and writes the row in   *)
(* two statements of one transaction; nothing locks the row in between, so *)
(* Check and Write are two steps.  Every subscription names its tenant in  *)
(* its metadata (checkout/route.ts:50).                                    *)
(***************************************************************************)
EXTENDS Naturals, FiniteSets

CONSTANTS
    Subs,         \* subscriptions of the tenant
    Plans,        \* plan keys
    None,         \* no plan
    Handlers,     \* webhook requests that may overlap
    MaxVersion,   \* bound: states a subscription goes through
    MaxInvoices,  \* bound: invoices of a subscription
    MaxTime,      \* bound: seconds
    PlanChanges,  \* a subscription may move to another plan
    MaxFaults     \* bound: failed requests, lost answers and needless repetitions

ASSUME BillingAssumption ==
    /\ MaxVersion \in Nat \ {0} /\ MaxInvoices \in Nat /\ MaxTime \in Nat \ {0} /\ MaxFaults \in Nat
    /\ PlanChanges \in BOOLEAN
    /\ Subs # {} /\ IsFiniteSet(Subs)
    /\ Plans # {} /\ None \notin Plans

Change(s, n)   == <<s, "change", n>>
Checkout(s)    == <<s, "checkout", 1>>
Invoice(s, n)  == <<s, "invoice", n>>
Events ==
    {Change(s, n) : s \in Subs, n \in 1..MaxVersion} \cup {Checkout(s) : s \in Subs}
        \cup {Invoice(s, n) : s \in Subs, n \in 1..MaxInvoices}
Snapshots == [version : 0..MaxVersion, plan : Plans, on : BOOLEAN]

VARIABLES
    clock,    \* the current second
    current,  \* what Stripe answers for a subscription; version 0 before it exists
    created,  \* the second an event was created, 0 before that
    pending,  \* events not answered 200 yet
    ledger,   \* stripe_events: pairs of an event and "own" or "sub"
    row,      \* tenant_subscriptions: the snapshot; version 0 for no row
    at,       \* its last_event_at
    invoiced, \* its last invoice outcome; 0 for none
    plan,     \* tenants.plan
    pc,       \* "idle", "fetch", "check", "write" or "invoice"
    event,    \* event a request handles
    snap,     \* subscription it has retrieved
    overtaken, \* history: subscriptions of which the comparison of times let an old state through
    faults

stripeVars  == <<clock, current, created>>
tableVars   == <<ledger, row, at, invoiced, plan>>
handlerVars == <<pc, event, snap>>
vars ==
    <<clock, current, created, pending, ledger, row, at, invoiced, plan, pc, event, snap,
      overtaken, faults>>

TypeOK ==
    /\ clock \in 1..MaxTime
    /\ current \in [Subs -> Snapshots] /\ row \in [Subs -> Snapshots]
    /\ created \in [Events -> 0..MaxTime]
    /\ pending \subseteq {e \in Events : created[e] # 0}
    /\ ledger \subseteq Events \X {"own", "sub"}
    /\ at \in [Subs -> 0..MaxTime]
    /\ invoiced \in [Subs -> 0..MaxInvoices]
    /\ plan \in Plans \cup {None}
    /\ pc \in [Handlers -> {"idle", "fetch", "check", "write", "invoice"}]
    /\ event \in [Handlers -> Events]
    /\ snap \in [Handlers -> Snapshots]
    /\ overtaken \subseteq Subs
    /\ faults \in 0..MaxFaults

AnEvent == CHOOSE e \in Events : TRUE
Blank == [version |-> 0, plan |-> CHOOSE p \in Plans : TRUE, on |-> FALSE]

Init ==
    /\ clock = 1
    /\ current = [s \in Subs |-> Blank] /\ row = [s \in Subs |-> Blank]
    /\ created = [e \in Events |-> 0]
    /\ pending = {} /\ ledger = {}
    /\ at = [s \in Subs |-> 0] /\ invoiced = [s \in Subs |-> 0]
    /\ plan = None
    /\ pc = [h \in Handlers |-> "idle"]
    /\ event = [h \in Handlers |-> AnEvent]
    /\ snap = [h \in Handlers |-> Blank]
    /\ overtaken = {}
    /\ faults = 0

Fault == faults < MaxFaults /\ faults' = faults + 1
SubOf(h) == event[h][1]
KindOf(h) == event[h][2]

-----------------------------------------------------------------------------
(* Stripe *)

Tick ==
    /\ clock < MaxTime
    /\ clock' = clock + 1
    /\ UNCHANGED <<current, created, pending, tableVars, handlerVars, overtaken, faults>>

Emit(E) ==
    /\ created' = [e \in Events |-> IF e \in E THEN clock ELSE created[e]]
    /\ pending' = pending \cup E

(* A subscription is bought, paid, past due, canceled, moved to a plan.    *)
Changes(s) ==
    /\ current[s].version < MaxVersion
    /\ \E p \in Plans, b \in BOOLEAN :
        /\ current[s].version > 0 /\ ~PlanChanges => p = current[s].plan
        /\ current' = [current EXCEPT ![s] = [version |-> @.version + 1, plan |-> p, on |-> b]]
    /\ Emit({Change(s, current[s].version + 1)}
                \cup IF current[s].version = 0 THEN {Checkout(s)} ELSE {})
    /\ UNCHANGED <<clock, tableVars, handlerVars, overtaken, faults>>

Bills(s, n) ==
    /\ current[s].version > 0 /\ created[Invoice(s, n)] = 0
    /\ Emit({Invoice(s, n)})
    /\ UNCHANGED <<clock, current, tableVars, handlerVars, overtaken, faults>>

-----------------------------------------------------------------------------
(* handleStripeWebhook *)

(* A request arrives.  Stripe sends an event again until it is answered,   *)
(* and may send it once more after that.                                   *)
Receive(h, e) ==
    /\ pc[h] = "idle" /\ created[e] # 0
    /\ \/ e \in pending /\ UNCHANGED faults
       \/ e \notin pending /\ Fault
    /\ pc' = [pc EXCEPT ![h] = IF e[2] = "invoice" THEN "invoice" ELSE "fetch"]
    /\ event' = [event EXCEPT ![h] = e]
    /\ UNCHANGED <<stripeVars, pending, tableVars, snap, overtaken>>

(* stripe.subscriptions.retrieve                                           *)
Fetch(h) ==
    /\ pc[h] = "fetch"
    /\ snap' = [snap EXCEPT ![h] = current[SubOf(h)]]
    /\ pc' = [pc EXCEPT ![h] = "check"]
    /\ UNCHANGED <<stripeVars, pending, tableVars, event, overtaken, faults>>

(* The id an upsert is recorded under: an event that leads to a            *)
(* subscription gets ":sub".                                               *)
UpsertId_Same(h) == <<event[h], "own">>
UpsertId(h) == <<event[h], IF KindOf(h) = "change" THEN "own" ELSE "sub">>

(* A request ends, and its locals with it.                                 *)
Ends_Done(h) == pc' = [pc EXCEPT ![h] = "answered"] /\ UNCHANGED <<event, snap>>
Ends(h) ==
    /\ pc' = [pc EXCEPT ![h] = "idle"]
    /\ event' = [event EXCEPT ![h] = AnEvent]
    /\ snap' = [snap EXCEPT ![h] = Blank]

(* It is answered 200, or its answer is lost.                              *)
Answered(h) ==
    /\ Ends(h)
    /\ \/ pending' = pending \ {event[h]} /\ UNCHANGED faults
       \/ UNCHANGED pending /\ Fault

(* After applySubscription: an invoice is recorded, the others are done.   *)
Applied(h) ==
    IF KindOf(h) = "invoice"
    THEN /\ pc' = [pc EXCEPT ![h] = "invoice"]
         /\ snap' = [snap EXCEPT ![h] = Blank]
         /\ UNCHANGED <<event, pending, faults>>
    ELSE Answered(h)

(* billing_subscription_upsert, first half: the ledger's insert waits for  *)
(* a transaction that inserts the same id, and last_event_at is read.      *)
Free(h) == \A g \in Handlers \ {h} : pc[g] = "write" => event[g] # event[h]

(* The comparison lets an old state through: the stored one is newer than  *)
(* the one retrieved and carries the same second.                          *)
SameSecond(h) == at[SubOf(h)] = created[event[h]] /\ snap[h].version < row[SubOf(h)].version

IsOlder_Never(h) == FALSE
IsOlder(h) == at[SubOf(h)] > created[event[h]]
Check(h) ==
    /\ pc[h] = "check" /\ Free(h)
    /\ \/ /\ UpsertId(h) \notin ledger /\ ~IsOlder(h)
          /\ pc' = [pc EXCEPT ![h] = "write"]
          /\ overtaken' = IF SameSecond(h) THEN overtaken \cup {SubOf(h)} ELSE overtaken
          /\ UNCHANGED <<ledger, pending, event, snap, faults>>
       \/ /\ UpsertId(h) \in ledger \/ IsOlder(h)
          /\ ledger' = ledger \cup {UpsertId(h)}
          /\ Applied(h) /\ UNCHANGED overtaken
    /\ UNCHANGED <<stripeVars, row, at, invoiced, plan>>

(* It is too late for the comparison: g is past it, with a state older     *)
(* than the one h writes now.                                              *)
Overtakes(g, h) ==
    /\ pc[g] = "write" /\ SubOf(g) = SubOf(h)
    /\ \/ created[event[g]] < created[event[h]]
       \/ created[event[g]] = created[event[h]] /\ snap[g].version < snap[h].version

(* Second half: on conflict do update, and the tenant's plan.              *)
PlanAfter_Kept(h) == IF snap[h].on THEN snap[h].plan ELSE plan
PlanAfter(h) ==
    IF snap[h].on THEN snap[h].plan ELSE IF plan = snap[h].plan THEN None ELSE plan
Write(h) ==
    /\ pc[h] = "write"
    /\ overtaken' = IF \E g \in Handlers \ {h} : Overtakes(g, h)
                    THEN overtaken \cup {SubOf(h)} ELSE overtaken
    /\ ledger' = ledger \cup {UpsertId(h)}
    /\ row' = [row EXCEPT ![SubOf(h)] = snap[h]]
    /\ at' = [at EXCEPT ![SubOf(h)] = created[event[h]]]
    /\ plan' = PlanAfter(h)
    /\ Applied(h)
    /\ UNCHANGED <<stripeVars, invoiced>>

(* billing_invoice_record, which raises while the subscription is unknown: *)
(* the handler then loads it, which leaves its row there, and comes back.  *)
(* An event already recorded under its own id changes nothing.             *)
Known_Paying(h) == row[SubOf(h)].version > 0 /\ row[SubOf(h)].on
Known(h) == row[SubOf(h)].version > 0
LoadFirst(h) ==
    /\ pc[h] = "invoice" /\ ~Known(h)
    /\ pc' = [pc EXCEPT ![h] = "fetch"]
    /\ UNCHANGED <<stripeVars, pending, tableVars, event, snap, overtaken, faults>>
RecordInvoice(h) ==
    /\ pc[h] = "invoice" /\ Known(h)
    /\ invoiced' = IF <<event[h], "own">> \in ledger THEN invoiced
                   ELSE [invoiced EXCEPT ![SubOf(h)] = event[h][3]]
    /\ ledger' = ledger \cup {<<event[h], "own">>}
    /\ Answered(h)
    /\ UNCHANGED <<stripeVars, row, at, plan, overtaken>>

(* A call fails or the machine restarts: the transaction is rolled back,   *)
(* Stripe gets a 500 or nothing and tries again.                           *)
Fails(h) ==
    /\ pc[h] # "idle" /\ Fault
    /\ Ends(h)
    /\ UNCHANGED <<stripeVars, pending, tableVars, overtaken>>

Handle(h) == Fetch(h) \/ Check(h) \/ Write(h) \/ LoadFirst(h) \/ RecordInvoice(h)

Next ==
    \/ Tick
    \/ \E s \in Subs : Changes(s)
    \/ \E s \in Subs, n \in 1..MaxInvoices : Bills(s, n)
    \/ \E h \in Handlers : Handle(h) \/ Fails(h) \/ \E e \in Events : Receive(h, e)

(* While anything waits for an answer, Stripe sends something that does;   *)
(* and requests go on.                                                     *)
Fairness ==
    /\ \A h \in Handlers : WF_vars(Handle(h))
    /\ WF_vars(\E h \in Handlers, e \in pending : Receive(h, e))

Spec == Init /\ [][Next]_vars /\ Fairness

-----------------------------------------------------------------------------
(* Properties *)

Quiet == pending = {} /\ \A h \in Handlers : pc[h] = "idle"

(* webhook.ts:22, "ignore snapshots older than the stored one": once every *)
(* event has been answered, what is stored is what Stripe has, though      *)
(* requests for one subscription overlap and its events share seconds.     *)
(* Exempt are the subscriptions of which the comparison of times let an    *)
(* old state through, because it was made before a later one was written   *)
(* or both carry one second: those may keep it until the next event.       *)
CurrentOnceQuiet ==
    Quiet => \A s \in Subs \ overtaken : row[s] = current[s]

(* webhook.ts:102, "the RPCs are idempotent so a retry is safe": whatever  *)
(* failed before, an event is answered 200 only when the subscription it   *)
(* is about, and the outcome of an invoice, are in the tables.             *)
AnsweredIsRecorded ==
    \A e \in Events : created[e] # 0 /\ e \notin pending =>
        row[e[1]].version > 0 /\ (e[2] = "invoice" => invoiced[e[1]] > 0)

(* The access the tenant has is the one its subscription pays for          *)
(* (20261005_23_billing.sql:122), while it has one subscription that stays *)
(* on its plan.                                                            *)
PlanIsPaid ==
    ~PlanChanges /\ Cardinality(Subs) = 1 =>
        \A s \in Subs : row[s].version > 0 =>
            plan = IF row[s].on THEN row[s].plan ELSE None

(* Every event is answered in the end: nothing waits for ever, whatever    *)
(* fails and is sent again (webhook.ts:102).                               *)
EveryEventAnswered == pending # {} ~> pending = {}
====
