------------------------------- MODULE Audits --------------------------------
(***************************************************************************)
(* Purchased audits of one tenant.  A verified payment records an audit;   *)
(* whoever passes by (the Stripe handler, the cron sweep, an upload)       *)
(* claims it, reads the tenant's newest documents and publishes a report,  *)
(* or leaves the audit waiting for data.                                   *)
(*                                                                         *)
(* Documents are numbered by created_at, which is the start of the upload  *)
(* transaction; a document is visible when that transaction commits.       *)
(* attempted_at is kept as the number of documents stamped by then.        *)
(* audit_claim tests the row it updates, so it is one step.                *)
(***************************************************************************)
EXTENDS Naturals, FiniteSets

CONSTANTS
    AuditIds,     \* rows of audits
    Workers,      \* calls of runPendingAudits and generateForAudit that may overlap
    MaxDocs,      \* bound: uploads
    DocLimit,     \* newest documents one attempt looks at (10)
    MaxFaults     \* bound: restarts and failed or lost calls

ASSUME AuditAssumption ==
    /\ MaxDocs \in Nat /\ DocLimit \in Nat \ {0} /\ MaxFaults \in Nat

VARIABLES
    issued,      \* documents stamped so far: 1..issued
    open,        \* documents whose upload transaction is still open
    stored,      \* documents committed and not deleted
    usable,      \* those of them with an item and a price column
    status,      \* audits.status; "none" before the purchase
    attemptedAt, \* attempted_at: documents up to this one were stamped before it
    stale,       \* attempted_at is more than ten minutes ago
    uncommitted, \* history: documents stamped but not committed at the audit's last claim
    outlived,    \* history: audits of which an attempt took longer than ten minutes
    pc,          \* "idle", "todo", "list", "read", "save" or "rescue"
    todo,        \* audits a worker still has to try
    job,         \* audit it has claimed
    seen,        \* documents it has listed
    verdict,     \* status it is about to save
    faults

docVars    == <<issued, open, stored, usable>>
historyVars == <<uncommitted, outlived>>
auditVars  == <<status, attemptedAt, stale, historyVars>>
workerVars == <<pc, todo, job, seen, verdict>>
vars == <<issued, open, stored, usable, status, attemptedAt, stale, uncommitted, outlived,
          pc, todo, job, seen, verdict, faults>>

Docs     == 1..MaxDocs
Verdicts == {"ready", "needs_data", "failed"}
Busy     == {"list", "read", "save", "rescue"}

TypeOK ==
    /\ issued \in 0..MaxDocs
    /\ {open, stored} \subseteq SUBSET (1..issued) /\ usable \subseteq open \cup stored
    /\ status \in [AuditIds -> {"none", "queued", "generating"} \cup Verdicts]
    /\ attemptedAt \in [AuditIds -> 0..MaxDocs]
    /\ stale \in [AuditIds -> BOOLEAN]
    /\ uncommitted \in [AuditIds -> SUBSET Docs] /\ outlived \in SUBSET AuditIds
    /\ pc \in [Workers -> {"idle", "todo"} \cup Busy]
    /\ todo \in [Workers -> SUBSET AuditIds]
    /\ job \in [Workers -> AuditIds]
    /\ seen \in [Workers -> SUBSET Docs]
    /\ verdict \in [Workers -> Verdicts]
    /\ faults \in 0..MaxFaults

Init ==
    /\ issued = 0 /\ open = {} /\ stored = {} /\ usable = {}
    /\ status = [a \in AuditIds |-> "none"]
    /\ attemptedAt = [a \in AuditIds |-> 0]
    /\ stale = [a \in AuditIds |-> FALSE]
    /\ uncommitted = [a \in AuditIds |-> {}] /\ outlived = {}
    /\ pc = [w \in Workers |-> "idle"]
    /\ todo = [w \in Workers |-> {}]
    /\ job \in [Workers -> AuditIds]
    /\ seen = [w \in Workers |-> {}]
    /\ verdict = [w \in Workers |-> "failed"]
    /\ faults = 0

Fault == faults < MaxFaults /\ faults' = faults + 1
Holds(w, a) == pc[w] \in Busy /\ job[w] = a
Generates(w, a) == pc[w] \in Busy \ {"rescue"} /\ job[w] = a

-----------------------------------------------------------------------------
(* Documents *)

(* The transaction of document_upload begins: created_at is taken here.    *)
BeginUpload ==
    /\ issued < MaxDocs
    /\ issued' = issued + 1
    /\ open' = open \cup {issued + 1}
    /\ usable' \in {usable, usable \cup {issued + 1}}
    /\ UNCHANGED <<stored, auditVars, workerVars, faults>>

(* It has encrypted the file and commits, or it rolls back.                *)
EndUpload(d) ==
    /\ d \in open
    /\ open' = open \ {d}
    /\ \/ stored' = stored \cup {d} /\ UNCHANGED usable
       \/ usable' = usable \ {d} /\ UNCHANGED stored
    /\ UNCHANGED <<issued, auditVars, workerVars, faults>>

(* document_delete                                                         *)
DeleteDocument(d) ==
    /\ d \in stored
    /\ stored' = stored \ {d}
    /\ usable' = usable \ {d}
    /\ UNCHANGED <<issued, open, auditVars, workerVars, faults>>

-----------------------------------------------------------------------------
(* The table *)

(* The condition of audit_claim and audit_pending.                         *)
Claimable_NoLease(a) ==
    \/ status[a] \in {"queued", "generating"}
    \/ status[a] = "failed" /\ stale[a]
    \/ status[a] = "needs_data" /\ \E d \in stored : d > attemptedAt[a]
Claimable_NoFailed(a) ==
    \/ status[a] = "queued"
    \/ status[a] = "generating" /\ stale[a]
    \/ status[a] = "needs_data" /\ \E d \in stored : d > attemptedAt[a]
Claimable(a) ==
    \/ status[a] = "queued"
    \/ status[a] \in {"generating", "failed"} /\ stale[a]
    \/ status[a] = "needs_data" /\ \E d \in stored : d > attemptedAt[a]

(* Ten minutes have passed since attempted_at, maybe with the attempt      *)
(* still under way.                                                        *)
LeaseRunsOut(a) ==
    /\ status[a] \in {"generating", "failed"} /\ ~stale[a]
    /\ stale' = [stale EXCEPT ![a] = TRUE]
    /\ outlived' = IF \E w \in Workers : Holds(w, a) THEN outlived \cup {a} ELSE outlived
    /\ UNCHANGED <<docVars, status, attemptedAt, uncommitted, workerVars, faults>>

-----------------------------------------------------------------------------
(* The work *)

(* handleAuditCheckoutEvent: audit_record_purchase inserts the audit unless *)
(* its session is known, and the handler goes on to generate it.  Stripe    *)
(* may deliver the event again.                                             *)
RecordPurchase(w, a) ==
    /\ pc[w] = "idle"
    /\ status' = [status EXCEPT ![a] = IF @ = "none" THEN "queued" ELSE @]
    /\ pc' = [pc EXCEPT ![w] = "todo"]
    /\ todo' = [todo EXCEPT ![w] = {a}]
    /\ UNCHANGED <<docVars, attemptedAt, stale, historyVars, job, seen, verdict, faults>>

(* runPendingAudits, from the cron route or after an upload: audit_pending. *)
Sweep(w) ==
    /\ pc[w] = "idle"
    /\ {a \in AuditIds : Claimable(a)} # {}
    /\ pc' = [pc EXCEPT ![w] = "todo"]
    /\ todo' = [todo EXCEPT ![w] = {a \in AuditIds : Claimable(a)}]
    /\ UNCHANGED <<docVars, auditVars, job, seen, verdict, faults>>

(* The next audit of the list, or the end of the call.                     *)
Rest(w, a) == todo[w] \ {a}
After_Done(w) == IF todo[w] = {} THEN "done" ELSE "todo"
After(w) == IF todo[w] = {} THEN "idle" ELSE "todo"

(* audit_claim.  Its answer may be lost: the error leaves runPendingAudits. *)
Claim(w, a) ==
    /\ pc[w] = "todo" /\ a \in todo[w] /\ Claimable(a)
    /\ status' = [status EXCEPT ![a] = "generating"]
    /\ attemptedAt' = [attemptedAt EXCEPT ![a] = issued]
    /\ uncommitted' = [uncommitted EXCEPT ![a] = open]
    /\ stale' = [stale EXCEPT ![a] = FALSE]
    /\ job' = [job EXCEPT ![w] = a]
    /\ \/ /\ pc' = [pc EXCEPT ![w] = "list"]
          /\ todo' = [todo EXCEPT ![w] = Rest(w, a)]
          /\ UNCHANGED faults
       \/ /\ Fault
          /\ pc' = [pc EXCEPT ![w] = "idle"]
          /\ todo' = [todo EXCEPT ![w] = {}]
    /\ UNCHANGED <<docVars, outlived, seen, verdict>>

(* Someone else has it: "skipped".                                         *)
Skip(w, a) ==
    /\ pc[w] = "todo" /\ a \in todo[w] /\ ~Claimable(a)
    /\ todo' = [todo EXCEPT ![w] = Rest(w, a)]
    /\ pc' = [pc EXCEPT ![w] = IF Rest(w, a) = {} THEN "idle" ELSE "todo"]
    /\ UNCHANGED <<docVars, auditVars, job, seen, verdict, faults>>

(* The catch block is entered: it saves "failed".                          *)
GoToRescue(w) ==
    /\ pc' = [pc EXCEPT ![w] = "rescue"]
    /\ seen' = [seen EXCEPT ![w] = {}]
    /\ verdict' = [verdict EXCEPT ![w] = "failed"]

(* A call failed.                                                          *)
GoesWrong(w) == Fault /\ GoToRescue(w)

(* The attempt is over, and the next audit's turn comes.                   *)
EndAttempt(w) ==
    /\ pc' = [pc EXCEPT ![w] = After(w)]
    /\ seen' = [seen EXCEPT ![w] = {}]
    /\ verdict' = [verdict EXCEPT ![w] = "failed"]

(* audit_input_documents                                                   *)
Newest_Oldest(S) == {d \in S : Cardinality({e \in S : e < d}) < DocLimit}
Newest(S) == {d \in S : Cardinality({e \in S : e > d}) < DocLimit}
List(w) ==
    /\ pc[w] = "list"
    /\ \/ /\ seen' = [seen EXCEPT ![w] = Newest(stored)]
          /\ pc' = [pc EXCEPT ![w] = "read"]
          /\ UNCHANGED <<verdict, faults>>
       \/ GoesWrong(w)
    /\ UNCHANGED <<docVars, auditVars, todo, job>>

(* Each document is read and mapped, one deleted meanwhile is passed over,  *)
(* and the best is kept.  A report that does not pass its own checks is a   *)
(* fault.                                                                   *)
Found(w) == seen[w] \cap stored \cap usable
Read(w) ==
    /\ pc[w] = "read"
    /\ \/ /\ \/ \E best \in Found(w) :
                    /\ seen' = [seen EXCEPT ![w] = {best}]
                    /\ verdict' = [verdict EXCEPT ![w] = "ready"]
             \/ /\ Found(w) = {}
                /\ seen' = [seen EXCEPT ![w] = {}]
                /\ verdict' = [verdict EXCEPT ![w] = "needs_data"]
          /\ pc' = [pc EXCEPT ![w] = "save"]
          /\ UNCHANGED faults
       \/ GoesWrong(w)
    /\ UNCHANGED <<docVars, auditVars, todo, job>>

(* audit_save: the audit must be in generation, by whichever claim.        *)
Settled_AnyStatus(a, v) == [status EXCEPT ![a] = v]
Settled(a, v) == IF status[a] = "generating" THEN [status EXCEPT ![a] = v] ELSE status

(* It takes effect, its answer may be lost, and it may fail.               *)
Save(w) ==
    /\ pc[w] = "save" /\ seen[w] \subseteq stored
    /\ \/ /\ status' = Settled(job[w], verdict[w])
          /\ EndAttempt(w)
          /\ UNCHANGED faults
       \/ status' \in {status, Settled(job[w], verdict[w])} /\ GoesWrong(w)
    /\ UNCHANGED <<docVars, attemptedAt, stale, historyVars, todo, job>>

(* It raises when the report's document has been deleted.                  *)
SaveRefused(w) ==
    /\ pc[w] = "save" /\ ~(seen[w] \subseteq stored)
    /\ GoToRescue(w)
    /\ UNCHANGED <<docVars, auditVars, todo, job, faults>>

(* The save of the catch block; if it fails the claim goes stale.          *)
Rescue(w) ==
    /\ pc[w] = "rescue"
    /\ \/ status' = Settled(job[w], verdict[w]) /\ UNCHANGED faults
       \/ UNCHANGED status /\ Fault
    /\ EndAttempt(w)
    /\ UNCHANGED <<docVars, attemptedAt, stale, historyVars, todo, job>>

(* The machine restarts.                                                   *)
Restart ==
    /\ Fault
    /\ pc' = [w \in Workers |-> "idle"]
    /\ todo' = [w \in Workers |-> {}]
    /\ seen' = [w \in Workers |-> {}]
    /\ verdict' = [w \in Workers |-> "failed"]
    /\ UNCHANGED <<docVars, auditVars, job>>

Work(w) ==
    \/ Sweep(w) \/ List(w) \/ Read(w) \/ Save(w) \/ SaveRefused(w) \/ Rescue(w)
    \/ \E a \in AuditIds : Claim(w, a) \/ Skip(w, a)

Next ==
    \/ BeginUpload
    \/ \E d \in Docs : EndUpload(d) \/ DeleteDocument(d)
    \/ \E a \in AuditIds : LeaseRunsOut(a)
    \/ \E w \in Workers, a \in AuditIds : RecordPurchase(w, a)
    \/ \E w \in Workers : Work(w)
    \/ Restart

(* Sweeps are started every five minutes, calls go on, uploads end and     *)
(* time passes.  Nothing is assumed of payments, uploads and deletions.    *)
Fairness ==
    /\ \A w \in Workers : WF_vars(Work(w))
    /\ \A d \in Docs : WF_vars(EndUpload(d))
    /\ \A a \in AuditIds : WF_vars(LeaseRunsOut(a))

Spec == Init /\ [][Next]_vars /\ Fairness

-----------------------------------------------------------------------------
(* Properties *)

(* A usable document that every attempt looks at, whatever is deleted.     *)
Recent(d) == d \in stored \cap usable /\ issued - d < DocLimit

(* An audit that waits for data has not overlooked any: a recent usable    *)
(* document was stamped after its last attempt, so audit_claim takes the   *)
(* audit again (20261005_26_audits.sql:71).  A document between its stamp  *)
(* and its commit when the audit was claimed is left out, and so is an     *)
(* audit that an attempt outlived its ten minutes on.                      *)
NothingOverlooked ==
    \A a \in AuditIds \ outlived : status[a] = "needs_data" =>
        \A d \in Docs \ uncommitted[a] : Recent(d) => d > attemptedAt[a]

(* Until an attempt on it outlives its lease an audit has one generator,   *)
(* though a second worker may still be saving "failed" for an attempt      *)
(* whose first save had taken effect (service.ts:83 "claiming is atomic"). *)
OneGenerator ==
    \A v, w \in Workers, a \in AuditIds \ outlived : Generates(v, a) /\ Generates(w, a) => v = w

(* A published report stays published: no late or repeated save and no new *)
(* claim takes it back (:69 and :114).                                     *)
ReadyFinal == [][\A a \in AuditIds : status[a] = "ready" => status'[a] = "ready"]_vars

(* service.ts:3: a paid audit is ready in the end once a recent usable     *)
(* document stays that was not being committed when the audit was claimed  *)
(* (it "re-runs by itself when a new document arrives").                   *)
ReadyOnceUsable ==
    \A a \in AuditIds :
        <>[](status[a] # "none" /\ a \notin outlived /\ \E d \in Docs \ uncommitted[a] : Recent(d))
            => <>(status[a] = "ready")

(* The same as service.ts:3 says it, of every recent usable document.      *)
RerunsByItself ==
    \A a \in AuditIds :
        <>[](status[a] # "none" /\ \E d \in Docs : Recent(d)) => <>(status[a] = "ready")
====
