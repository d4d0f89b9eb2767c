---------------------------- MODULE EnginePipeline ----------------------------
(***************************************************************************)
(* The tenant pipeline of one client tenant, and what becomes of its       *)
(* approvals.  A pipeline run reads the ingested records after the stored  *)
(* cursor, proposes a task and (for a gated record) an approval for each,  *)
(* and only then moves the cursor, by compare-and-set.  The client decides *)
(* a pending approval; an executor claims an approved one, carries it out  *)
(* and records the proof.                                                  *)
(*                                                                         *)
(* The record loop is modelled by what it sends: a record is "facts" when  *)
(* nothing is proposed for it (rejected, unverified, or no action and gate *)
(* auto), "insight" for a task alone, "gated" for a task and an approval,  *)
(* "unrouted" when its workstream does not exist.  Its seq is taken from   *)
(* an identity column when the row is inserted, and becomes visible when   *)
(* the inserting transaction commits.                                      *)
(*                                                                         *)
(* The executor is not part of the repository: it is modelled from the     *)
(* RPCs it is given.                                                       *)
(***************************************************************************)
EXTENDS Naturals, FiniteSets

CONSTANTS
    MaxSeq,    \* bound on ingested records
    MaxCopies, \* bound on the approvals proposed for one record
    Runs,      \* pipeline runs that may overlap
    Executors,
    Kinds,     \* the kinds of record that occur
    Limit,     \* records one run reads (500)
    MaxFaults  \* bound on crashes and failed calls

ASSUME PipelineAssumption ==
    /\ {MaxSeq, MaxCopies, Limit} \subseteq Nat \ {0}
    /\ MaxFaults \in Nat
    /\ Kinds \subseteq {"facts", "insight", "gated", "unrouted"}

VARIABLES
    nextSeq,  \* the identity column's next value
    stored,   \* state of each seq
    kind,     \* what the record of each seq asks for
    late,     \* history: records committed after a run had read past their seq
    cursor,   \* engine_pipeline_cursors.last_seq, 0 when there is no row
    placed,   \* records that have a workstream task
    approval, \* approvals.status; <<s, n>> is the n-th row with source_ref s
    claimed,  \* approvals with claimed_at
    proven,   \* approvals with executed_proof
    effects,  \* approvals whose action was carried out, with how often (up to 2)
    pc, from, upto, todo,  \* runs: where it stands, the cursor it read, its new cursor, records left
    hand,     \* executors: the approvals it has claimed and still has to carry out
    done,     \* executors: those it has carried out and not recorded yet
    faults

recordVars   == <<nextSeq, stored, kind, late>>
approvalVars == <<approval, claimed, proven>>
runVars      == <<pc, from, upto, todo>>
executorVars == <<effects, hand, done>>
vars == <<nextSeq, stored, kind, late, cursor, placed, approval, claimed, proven, effects,
          pc, from, upto, todo, hand, done, faults>>

Seqs == 1..MaxSeq
Rows == Seqs \X (1..MaxCopies)
Verdicts == {"approved", "rejected", "edited"}
Busy == {"work", "gate", "insert"}

TypeOK ==
    /\ nextSeq \in 1..(MaxSeq + 1)
    /\ stored \in [Seqs -> {"none", "open", "visible", "gone"}]
    /\ kind \in [Seqs -> Kinds \cup {"facts"}]
    /\ late \in SUBSET Seqs
    /\ cursor \in 0..MaxSeq
    /\ placed \in SUBSET Seqs
    /\ approval \in [Rows -> {"free", "pending"} \cup Verdicts]
    /\ claimed \in SUBSET Rows /\ proven \in SUBSET Rows
    /\ effects \in [Rows -> 0..2]
    /\ pc \in [Runs -> {"off", "due"} \cup Busy]
    /\ from \in [Runs -> 0..MaxSeq] /\ upto \in [Runs -> 0..MaxSeq]
    /\ todo \in [Runs -> SUBSET Seqs]
    /\ \A r \in Runs : pc[r] \in {"gate", "insert"} => todo[r] # {}
    /\ hand \in [Executors -> SUBSET Rows] /\ done \in [Executors -> SUBSET Rows]
    /\ faults \in 0..MaxFaults

Init ==
    /\ nextSeq = 1
    /\ stored = [s \in Seqs |-> "none"] /\ kind = [s \in Seqs |-> "facts"]
    /\ late = {}
    /\ cursor = 0 /\ placed = {}
    /\ approval = [a \in Rows |-> "free"] /\ claimed = {} /\ proven = {}
    /\ effects = [a \in Rows |-> 0]
    /\ pc = [r \in Runs |-> "off"]
    /\ from = [r \in Runs |-> 0] /\ upto = [r \in Runs |-> 0] /\ todo = [r \in Runs |-> {}]
    /\ hand = [x \in Executors |-> {}] /\ done = [x \in Executors |-> {}]
    /\ faults = 0

Fault == faults < MaxFaults /\ faults' = faults + 1

-----------------------------------------------------------------------------
(* ingest_records, one new row per transaction                             *)

InsertRecord(k) ==
    /\ nextSeq <= MaxSeq
    /\ stored' = [stored EXCEPT ![nextSeq] = "open"]
    /\ kind' = [kind EXCEPT ![nextSeq] = k]
    /\ nextSeq' = nextSeq + 1
    /\ UNCHANGED <<late, cursor, placed, approvalVars, runVars, executorVars, faults>>

(* The cursor, or a run that is about to move it, is past s.               *)
ReadPast(s) == s <= cursor \/ \E r \in Runs : s <= upto[r]

(* Transactions commit in any order.  A rolled back one leaves a gap.      *)
EndTransaction(s, outcome) ==
    /\ stored[s] = "open"
    /\ stored' = [stored EXCEPT ![s] = outcome]
    /\ late' = IF outcome = "visible" /\ ReadPast(s) THEN late \cup {s} ELSE late
    /\ UNCHANGED <<nextSeq, kind, cursor, placed, approvalVars, runVars, executorVars, faults>>

-----------------------------------------------------------------------------
(* runClientTenants for this tenant                                        *)

Visible == {s \in Seqs : stored[s] = "visible"}

(* engine_pipeline_due                                                     *)
FindDue(r) ==
    /\ pc[r] = "off" /\ \E s \in Visible : s > cursor
    /\ pc' = [pc EXCEPT ![r] = "due"]
    /\ from' = [from EXCEPT ![r] = cursor]
    /\ UNCHANGED <<recordVars, cursor, placed, approvalVars, upto, todo, executorVars, faults>>

After(s) == {t \in Visible : t > s}

(* S is what readNew returns: the first Limit records after the cursor.    *)
FirstAfter(c, S) ==
    /\ \A s \in S, t \in After(c) \ S : s < t
    /\ Cardinality(S) <= Limit /\ (Cardinality(S) = Limit \/ S = After(c))

(* nextCursor: the last seq read, or the cursor when nothing was.          *)
IsNextCursor_Newest(m, c, S) == m \in Visible /\ \A t \in Visible : t <= m
IsNextCursor(m, c, S) == IF S = {} THEN m = c ELSE m \in S /\ \A s \in S : s <= m

Read(r) ==
    /\ pc[r] = "due"
    /\ \E S \in SUBSET After(from[r]), m \in 0..MaxSeq :
         /\ FirstAfter(from[r], S) /\ IsNextCursor(m, from[r], S)
         /\ todo' = [todo EXCEPT ![r] = S]
         /\ upto' = [upto EXCEPT ![r] = m]
    /\ pc' = [pc EXCEPT ![r] = "work"]
    /\ UNCHANGED <<recordVars, cursor, placed, approvalVars, from, executorVars, faults>>

Routed(s) == kind[s] \in {"insight", "gated"}
Gated(s)  == kind[s] \in {"gated", "unrouted"}

Current(r, s) == s \in todo[r] /\ \A t \in todo[r] : s <= t

(* A record is put away: the loop goes on with the next one.               *)
NextRecord_SamePlace(r, s) ==
    /\ pc' = pc
    /\ todo' = [todo EXCEPT ![r] = @ \ {s}]
NextRecord(r, s) ==
    /\ pc' = [pc EXCEPT ![r] = "work"]
    /\ todo' = [todo EXCEPT ![r] = @ \ {s}]

(* proposeTask.  An unknown workstream is reported, not thrown.  A task    *)
(* with an open task's title is that task.                                 *)
Propose(r, s) ==
    /\ pc[r] = "work" /\ Current(r, s)
    /\ placed' = IF Routed(s) THEN placed \cup {s} ELSE placed
    /\ IF Gated(s) THEN pc' = [pc EXCEPT ![r] = "gate"] /\ UNCHANGED todo
       ELSE NextRecord(r, s)
    /\ UNCHANGED <<recordVars, cursor, approvalVars, from, upto, executorVars, faults>>

(* approval_propose looks for a pending row of the record ...              *)
Lookup(r, s) ==
    /\ pc[r] = "gate" /\ Current(r, s)
    /\ IF \E n \in 1..MaxCopies : approval[<<s, n>>] = "pending"
       THEN NextRecord(r, s)
       ELSE pc' = [pc EXCEPT ![r] = "insert"] /\ UNCHANGED todo
    /\ UNCHANGED <<recordVars, cursor, placed, approvalVars, from, upto, executorVars, faults>>

(* ... and inserts one.  Row bound: past MaxCopies nothing is inserted.    *)
IsFirstFree(s, n) ==
    approval[<<s, n>>] = "free" /\ \A m \in 1..MaxCopies : m < n => approval[<<s, m>>] # "free"

InsertApproval(r, s) ==
    /\ pc[r] = "insert" /\ Current(r, s)
    /\ \/ \E n \in 1..MaxCopies :
            IsFirstFree(s, n) /\ approval' = [approval EXCEPT ![<<s, n>>] = "pending"]
       \/ (\A n \in 1..MaxCopies : approval[<<s, n>>] # "free") /\ UNCHANGED approval
    /\ NextRecord(r, s)
    /\ UNCHANGED <<recordVars, cursor, placed, claimed, proven, from, upto, executorVars, faults>>

(* engine_pipeline_advance: the cursor moves if it is where the run found  *)
(* it.  A run that read nothing new does not call it.                      *)
Advanced_NoCompare(r) == IF upto[r] > from[r] THEN upto[r] ELSE cursor
Advanced_InsertOnly(r) == IF upto[r] > 0 /\ cursor = 0 THEN upto[r] ELSE cursor
Advanced(r) == IF upto[r] > from[r] /\ cursor = from[r] THEN upto[r] ELSE cursor

Ended(r) ==
    /\ pc' = [pc EXCEPT ![r] = "off"]
    /\ from' = [from EXCEPT ![r] = 0]
    /\ upto' = [upto EXCEPT ![r] = 0]
    /\ todo' = [todo EXCEPT ![r] = {}]

Advance(r) ==
    /\ pc[r] = "work" /\ todo[r] = {}
    /\ cursor' = Advanced(r)
    /\ Ended(r)
    /\ UNCHANGED <<recordVars, placed, approvalVars, executorVars, faults>>

(* A call failed or its answer was lost, or the process died: the run ends *)
(* and the cursor stays.                                                   *)
RunFails(r) ==
    /\ pc[r] # "off" /\ Fault /\ Ended(r)
    /\ UNCHANGED <<recordVars, cursor, placed, approvalVars, executorVars>>

-----------------------------------------------------------------------------
(* approval_decide                                                         *)
Decide(a, v) ==
    /\ approval[a] = "pending"
    /\ approval' = [approval EXCEPT ![a] = v]
    /\ UNCHANGED <<recordVars, cursor, placed, claimed, proven, runVars, executorVars, faults>>

-----------------------------------------------------------------------------
(* The executor                                                            *)

(* WHERE status = 'approved' AND claimed_at IS NULL                        *)
Claimable_Again(a) == approval[a] = "approved"
Claimable(a) == approval[a] = "approved" /\ a \notin claimed

(* approval_claim.  The answer may be lost after the row was updated.      *)
Claim(x, a) ==
    /\ hand[x] = {} /\ done[x] = {} /\ Claimable(a)
    /\ claimed' = claimed \cup {a}
    /\ \/ hand' = [hand EXCEPT ![x] = {a}] /\ UNCHANGED faults
       \/ Fault /\ UNCHANGED hand
    /\ UNCHANGED <<recordVars, cursor, placed, approval, proven, effects, done, runVars>>

CarryOut(x, a) ==
    /\ a \in hand[x]
    /\ effects' = [effects EXCEPT ![a] = IF @ < 2 THEN @ + 1 ELSE @]
    /\ hand' = [hand EXCEPT ![x] = {}]
    /\ done' = [done EXCEPT ![x] = {a}]
    /\ UNCHANGED <<recordVars, cursor, placed, approvalVars, runVars, faults>>

(* approval_record_proof: written once, and only on a claimed approval.    *)
RecordProof(x, a) ==
    /\ a \in done[x]
    /\ proven' = IF a \in claimed THEN proven \cup {a} ELSE proven
    /\ done' = [done EXCEPT ![x] = {}]
    /\ UNCHANGED <<recordVars, cursor, placed, approval, claimed, effects, hand, runVars, faults>>

(* The executor dies: what it had claimed stays claimed.                   *)
ExecutorFails(x) ==
    /\ hand[x] \cup done[x] # {} /\ Fault
    /\ hand' = [hand EXCEPT ![x] = {}]
    /\ done' = [done EXCEPT ![x] = {}]
    /\ UNCHANGED <<recordVars, cursor, placed, approvalVars, effects, runVars>>

-----------------------------------------------------------------------------

Run(r) ==
    \/ FindDue(r) \/ Read(r) \/ Advance(r)
    \/ \E s \in Seqs : Propose(r, s) \/ Lookup(r, s) \/ InsertApproval(r, s)

Next ==
    \/ \E k \in Kinds : InsertRecord(k)
    \/ \E s \in Seqs, outcome \in {"visible", "gone"} : EndTransaction(s, outcome)
    \/ \E r \in Runs : Run(r) \/ RunFails(r)
    \/ \E a \in Rows, v \in Verdicts : Decide(a, v)
    \/ \E x \in Executors, a \in Rows : Claim(x, a) \/ CarryOut(x, a) \/ RecordProof(x, a)
    \/ \E x \in Executors : ExecutorFails(x)

Spec == Init /\ [][Next]_vars

-----------------------------------------------------------------------------
(* Properties *)

(* What a record asks for has been proposed.                               *)
Handled(s) ==
    /\ Routed(s) => s \in placed
    /\ Gated(s) => \E n \in 1..MaxCopies : approval[<<s, n>>] # "free"

(* The cursor never passes a record whose task or approval is missing,     *)
(* through failed runs, overlapping runs, rolled back inserts and inserts  *)
(* that commit out of seq order ("The cursor advances only after a         *)
(* successful run", run.ts).  The only records left out are those that     *)
(* committed when a run had already read past them: readNew takes what is  *)
(* visible after the cursor, and nothing orders the commits.               *)
NothingPassedOver == \A s \in Visible \ late : s <= cursor => Handled(s)

(* The cursor never moves backwards, although a slow run may end long      *)
(* after a faster one has moved it on.                                     *)
CursorForward == [][cursor' >= cursor]_vars

(* However executors race for it, crash and lose answers, an approval is   *)
(* carried out at most once, only if the client approved it as it stood,   *)
(* and a recorded proof means that it was.                                 *)
CarriedOutOnce ==
    \A a \in Rows :
        /\ effects[a] <= 1
        /\ effects[a] > 0 => approval[a] = "approved"
        /\ a \in proven => effects[a] = 1

(* "Proposals are idempotent" (run.ts): a record that is read again by a   *)
(* failed or overlapping run does not get a second approval.               *)
OneProposal ==
    \A s \in Seqs : Cardinality({n \in 1..MaxCopies : approval[<<s, n>>] # "free"}) <= 1

(* The cron starts runs again and again; runs and transactions end.        *)
FairSpec ==
    /\ Spec
    /\ \A r \in Runs : WF_vars(Run(r))
    /\ \A s \in Seqs : WF_vars(\E o \in {"visible", "gone"} : EndTransaction(s, o))

(* Every record is reached: neither an unrouted record nor a run that      *)
(* fails pins the cursor for ever.                                         *)
RecordsReached == \A s \in Seqs : stored[s] = "visible" ~> cursor >= s
=============================================================================
