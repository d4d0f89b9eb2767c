------------------------------ MODULE SyncQueue ------------------------------
(***************************************************************************)
(* The connector sync queue: table sync_jobs, its three server RPCs        *)
(* (enqueue, claim, finish) and the cron handler that drains it.           *)
(*                                                                         *)
(* A handler (one POST /api/cron/sync, one random worker id) first         *)
(* enqueues due connections and then runs several drain loops that share   *)
(* its worker id.  A drain claims one job, runs the connection and reports *)
(* the outcome.  Every RPC is one READ COMMITTED transaction:              *)
(*   - enqueue reads its snapshot (StartHandler) before it inserts         *)
(*     (EnqueueInsert), so only the unique index arbitrates two enqueues;  *)
(*   - claim ranks the claimable rows in its snapshot (ClaimScan), then    *)
(*     locks a row that no other transaction holds (LockRow), then updates *)
(*     it (ClaimUpdate).  The status test belongs to the sub-select that   *)
(*     ranks, not to the row being locked, so a row another claim updated  *)
(*     and committed in between is locked and updated all the same.        *)
(*                                                                         *)
(* Time is a flag per row.  ripe[j] says "run_after <= now()" of a pending *)
(* row and "locked_at is older than the 10 minute lease" of a running one. *)
(***************************************************************************)
EXTENDS Naturals, FiniteSets

CONSTANTS
    Conns,        \* tenant_connections rows
    Jobs,         \* ids of sync_jobs rows, the unused ones included
    Workers,      \* handler incarnations (crypto.randomUUID)
    Drains,       \* drain loops
    WorkerOf,     \* the handler a drain loop belongs to
    MaxAttempts,  \* 5 in sync_jobs_finish
    MaxFaults,    \* bound: crashes, lost responses and outlived leases
    NoOne         \* SQL null

ASSUME QueueAssumption ==
    /\ MaxAttempts \in Nat \ {0}
    /\ MaxFaults \in Nat
    /\ WorkerOf \in [Drains -> Workers]
    /\ NoOne \notin Workers \cup Jobs \cup Conns

VARIABLES
    recent,    \* the connection's last run started less than an hour ago
    status,    \* sync_jobs.status, or "free" for a row not inserted yet
    connOf,    \* sync_jobs.connection_id
    attempts,  \* sync_jobs.attempts
    lockedBy,  \* sync_jobs.locked_by
    ripe,      \* see above: run_after or locked_at has passed its limit
    phase,     \* handler: "off", "enqueue", "open" or "closed" (deadline passed)
    batch,     \* connections the handler's enqueue saw as due
    pc,        \* where a drain loop stands
    cand,      \* rows the drain's claim saw as claimable
    task,      \* the row the drain's claim locked
    claimNo,   \* attempts of that row right after this drain's claim
    retaken,   \* history: drains whose job another drain of their handler claimed since
    faults     \* faults so far

rowVars   == <<status, connOf, attempts, lockedBy, ripe>>
drainVars == <<pc, cand, task, claimNo, retaken>>
vars == <<recent, status, connOf, attempts, lockedBy, ripe, phase,
          batch, pc, cand, task, claimNo, retaken, faults>>

JobStatus  == {"free", "pending", "running", "completed", "failed"}
Phase      == {"off", "enqueue", "open", "closed"}
Tasked     == {"locked", "working", "ok", "err", "refinish"}
Claimed    == Tasked \ {"locked"}
DrainState == {"off", "idle", "scanned"} \cup Tasked

TypeOK ==
    /\ recent \in [Conns -> BOOLEAN]
    /\ status \in [Jobs -> JobStatus]
    /\ connOf \in [Jobs -> Conns \cup {NoOne}]
    /\ attempts \in [Jobs -> Nat]
    /\ lockedBy \in [Jobs -> Workers \cup {NoOne}]
    /\ ripe \in [Jobs -> BOOLEAN]
    /\ phase \in [Workers -> Phase]
    /\ batch \in [Workers -> SUBSET Conns]
    /\ pc \in [Drains -> DrainState]
    /\ cand \in [Drains -> SUBSET Jobs]
    /\ task \in [Drains -> Jobs \cup {NoOne}]
    /\ claimNo \in [Drains -> Nat]
    /\ retaken \in SUBSET Drains
    /\ faults \in 0..MaxFaults
    /\ \A d \in Drains : pc[d] \in Tasked => task[d] \in Jobs

Init ==
    /\ recent = [c \in Conns |-> FALSE]
    /\ status = [j \in Jobs |-> "free"]
    /\ connOf = [j \in Jobs |-> NoOne]
    /\ attempts = [j \in Jobs |-> 0]
    /\ lockedBy = [j \in Jobs |-> NoOne]
    /\ ripe = [j \in Jobs |-> FALSE]
    /\ phase = [w \in Workers |-> "off"]
    /\ batch = [w \in Workers |-> {}]
    /\ pc = [d \in Drains |-> "off"]
    /\ cand = [d \in Drains |-> {}]
    /\ task = [d \in Drains |-> NoOne]
    /\ claimNo = [d \in Drains |-> 0]
    /\ retaken = {}
    /\ faults = 0

-----------------------------------------------------------------------------
(* Rows *)

Outstanding(j)    == status[j] \in {"pending", "running"}
HasOutstanding(c) == \E j \in Jobs : Outstanding(j) /\ connOf[j] = c
FreeRows          == {j \in Jobs : status[j] = "free"}
RowLocked(j)      == \E d \in Drains : pc[d] = "locked" /\ task[d] = j
Live(w)           == \E d \in Drains : WorkerOf[d] = w /\ pc[d] # "off"

(* The WHERE of sync_jobs_enqueue, for a connection that is active and has *)
(* a credential.  A run younger than 30 minutes is also younger than an    *)
(* hour, so its separate "still running" test never decides.               *)
Due(c) == ~recent[c] /\ ~HasOutstanding(c)

(* The WHERE of sync_jobs_claim's ranking.                                 *)
Claimable_PendingOnly(j) == status[j] = "pending" /\ ripe[j]
Claimable(j) == Outstanding(j) /\ ripe[j]

(* The unique index sync_jobs_outstanding.  The enqueue meets it with ON   *)
(* CONFLICT DO NOTHING; a claim that revives a settled row fails on it.    *)
Insertable_NoIndex(S) == S
Insertable(S) == {c \in S : ~HasOutstanding(c)}

IndexAllows_NoIndex(j) == TRUE
IndexAllows(j) == Outstanding(j) \/ ~HasOutstanding(connOf[j])

-----------------------------------------------------------------------------
(* The handler *)

(* A request arrives and its enqueue takes its snapshot.  The client can   *)
(* pause, disconnect and reconnect at any time, so any due connections may *)
(* be the active ones.  A new worker id is one that no row is locked by.   *)
StartHandler(w) ==
    /\ phase[w] = "off" /\ ~Live(w)
    /\ \A j \in Jobs : lockedBy[j] # w
    /\ phase' = [phase EXCEPT ![w] = "enqueue"]
    /\ \E S \in SUBSET {c \in Conns : Due(c)} : batch' = [batch EXCEPT ![w] = S]
    /\ UNCHANGED <<recent, rowVars, drainVars, faults>>

(* One pending row per connection of new; the ids come from unused ones.   *)
InsertAs(rows, conn, new) ==
    /\ \A j, k \in rows : conn[j] = conn[k] => j = k
    /\ \A c \in new : \E j \in rows : conn[j] = c
    /\ status' = [j \in Jobs |-> IF j \in rows THEN "pending" ELSE status[j]]
    /\ connOf' = [j \in Jobs |-> IF j \in rows THEN conn[j] ELSE connOf[j]]
    /\ ripe' = [j \in Jobs |-> IF j \in rows THEN TRUE ELSE ripe[j]]

InsertRows(new) ==
    \E rows \in SUBSET FreeRows : \E conn \in [rows -> new] : InsertAs(rows, conn, new)

(* The insert, then the drain loops start.  Row bound: when Jobs runs out  *)
(* of unused ids nothing is inserted.                                      *)
EnqueueInsert(w) ==
    LET wanted == Insertable(batch[w]) IN
    /\ phase[w] = "enqueue"
    /\ InsertRows(IF Cardinality(wanted) <= Cardinality(FreeRows) THEN wanted ELSE {})
    /\ phase' = [phase EXCEPT ![w] = "open"]
    /\ batch' = [batch EXCEPT ![w] = {}]
    /\ pc' = [d \in Drains |-> IF WorkerOf[d] = w THEN "idle" ELSE pc[d]]
    /\ UNCHANGED <<recent, attempts, lockedBy, cand, task, claimNo, retaken, faults>>

(* 285 seconds have passed: no drain of this handler claims any more.      *)
Deadline(w) ==
    /\ phase[w] = "open"
    /\ phase' = [phase EXCEPT ![w] = "closed"]
    /\ UNCHANGED <<recent, rowVars, batch, drainVars, faults>>

(* The enqueue call failed (502), or every drain loop has returned.        *)
HandlerReturns(w) ==
    /\ phase[w] # "off" /\ ~Live(w)
    /\ phase[w] = "enqueue" => faults < MaxFaults
    /\ faults' = IF phase[w] = "enqueue" THEN faults + 1 ELSE faults
    /\ phase' = [phase EXCEPT ![w] = "off"]
    /\ batch' = [batch EXCEPT ![w] = {}]
    /\ UNCHANGED <<recent, rowVars, drainVars>>

-----------------------------------------------------------------------------
(* sync_jobs_claim with p_limit = 1, called by a drain loop *)

ClaimScan(d) ==
    /\ pc[d] = "idle" /\ phase[WorkerOf[d]] = "open"
    /\ pc' = [pc EXCEPT ![d] = "scanned"]
    /\ cand' = [cand EXCEPT ![d] = {j \in Jobs : Claimable(j)}]
    /\ UNCHANGED <<recent, rowVars, phase, batch, task, claimNo, retaken, faults>>

(* FOR UPDATE OF j SKIP LOCKED takes the best-ranked row that no other     *)
(* transaction holds.  Which one that is depends on the ranking, left open *)
(* here.                                                                   *)
LockRow(d, j) ==
    /\ pc[d] = "scanned"
    /\ j \in cand[d] /\ ~RowLocked(j)
    /\ pc' = [pc EXCEPT ![d] = "locked"]
    /\ task' = [task EXCEPT ![d] = j]
    /\ cand' = [cand EXCEPT ![d] = {}]
    /\ UNCHANGED <<recent, rowVars, phase, batch, claimNo, retaken, faults>>

(* The drain returns: the deadline has passed, or the claim found no row.  *)
DrainReturns(d) ==
    /\ \/ pc[d] = "idle" /\ phase[WorkerOf[d]] = "closed"
       \/ pc[d] = "scanned" /\ \A j \in cand[d] : RowLocked(j)
    /\ pc' = [pc EXCEPT ![d] = "off"]
    /\ cand' = [cand EXCEPT ![d] = {}]
    /\ UNCHANGED <<recent, rowVars, phase, batch, task, claimNo, retaken, faults>>

(* The drains of d's handler that already work on the job d has locked.    *)
Siblings(d) == {e \in Drains \ {d} : /\ WorkerOf[e] = WorkerOf[d] /\ task[e] = task[d]
                                     /\ pc[e] \in Claimed}

(* The update commits.  A drain whose response is lost throws and returns, *)
(* leaving the row claimed.                                                *)
ClaimUpdate(d) ==
    LET j == task[d] IN
    /\ pc[d] = "locked" /\ IndexAllows(j)
    /\ status' = [status EXCEPT ![j] = "running"]
    /\ attempts' = [attempts EXCEPT ![j] = @ + 1]
    /\ lockedBy' = [lockedBy EXCEPT ![j] = WorkerOf[d]]
    /\ ripe' = [ripe EXCEPT ![j] = FALSE]
    /\ retaken' = (retaken \ {d}) \cup Siblings(d)
    /\ \/ /\ pc' = [pc EXCEPT ![d] = "working"]
          /\ claimNo' = [claimNo EXCEPT ![d] = attempts[j] + 1]
          /\ UNCHANGED <<task, faults>>
       \/ /\ faults < MaxFaults
          /\ faults' = faults + 1
          /\ pc' = [pc EXCEPT ![d] = "off"]
          /\ task' = [task EXCEPT ![d] = NoOne]
          /\ UNCHANGED claimNo
    /\ UNCHANGED <<recent, connOf, phase, batch, cand>>

(* The update violates the unique index: the call fails, the drain throws. *)
ClaimFails(d) ==
    /\ pc[d] = "locked" /\ ~IndexAllows(task[d])
    /\ pc' = [pc EXCEPT ![d] = "off"]
    /\ task' = [task EXCEPT ![d] = NoOne]
    /\ UNCHANGED <<recent, rowVars, phase, batch, cand, claimNo, retaken, faults>>

-----------------------------------------------------------------------------
(* work(): run the connection, then sync_jobs_finish *)

(* A success means that at least one run was started.  An object may fail  *)
(* and the error be reported ("err"), or the catch block be reached with   *)
(* the outcome unreported ("refinish"), with or without a run before.      *)
RunConnection(d) ==
    LET c == connOf[task[d]] IN
    /\ pc[d] = "working"
    /\ \/ /\ recent' = [recent EXCEPT ![c] = TRUE]
          /\ \E out \in {"ok", "err", "refinish"} : pc' = [pc EXCEPT ![d] = out]
       \/ /\ \E out \in {"err", "refinish"} : pc' = [pc EXCEPT ![d] = out]
          /\ UNCHANGED recent
    /\ UNCHANGED <<rowVars, phase, batch, cand, task, claimNo, retaken, faults>>

(* WHERE id = p_job AND status = 'running' AND locked_by = p_worker        *)
Holds_AnyWorker(d) == status[task[d]] = "running"
Holds(d) == status[task[d]] = "running" /\ lockedBy[task[d]] = WorkerOf[d]

NextStatus_OneEarly(j, ok) == IF ok THEN "completed"
                              ELSE IF attempts[j] + 1 >= MaxAttempts THEN "failed" ELSE "pending"
NextStatus_Unknown(j, ok) == IF ok THEN "completed"
                             ELSE IF attempts[j] >= MaxAttempts THEN "error" ELSE "pending"
NextStatus(j, ok) == IF ok THEN "completed"
                     ELSE IF attempts[j] >= MaxAttempts THEN "failed" ELSE "pending"

SettleRow(d, ok) ==
    LET j == task[d] IN
    /\ Holds(d) /\ ~RowLocked(j)
    /\ status' = [status EXCEPT ![j] = NextStatus(j, ok)]
    /\ lockedBy' = [lockedBy EXCEPT ![j] = NoOne]
    /\ ripe' = [ripe EXCEPT ![j] = FALSE]
    /\ UNCHANGED <<connOf, attempts>>

Idle(d) ==
    /\ pc' = [pc EXCEPT ![d] = "idle"]
    /\ task' = [task EXCEPT ![d] = NoOne]
    /\ claimNo' = [claimNo EXCEPT ![d] = 0]
    /\ retaken' = retaken \ {d}

NoMatch(d) == ~Holds(d) /\ ~RowLocked(task[d]) /\ UNCHANGED rowVars
CallFails  == faults < MaxFaults /\ faults' = faults + 1

(* The first call.  No match, a call that failed and a lost response all   *)
(* throw into the catch.                                                   *)
Finish(d) ==
    /\ pc[d] \in {"ok", "err"}
    /\ \/ SettleRow(d, pc[d] = "ok") /\ Idle(d) /\ UNCHANGED faults
       \/ /\ \/ NoMatch(d) /\ UNCHANGED faults
             \/ CallFails /\ (SettleRow(d, pc[d] = "ok") \/ UNCHANGED rowVars)
          /\ pc' = [pc EXCEPT ![d] = "refinish"]
          /\ UNCHANGED <<task, claimNo, retaken>>
    /\ UNCHANGED <<recent, phase, batch, cand>>

(* The catch block calls finish again, always with an error, and does not  *)
(* look at the result: if the call failed the row stays running.           *)
Refinish(d) ==
    /\ pc[d] = "refinish"
    /\ \/ (SettleRow(d, FALSE) \/ NoMatch(d)) /\ UNCHANGED faults
       \/ CallFails /\ UNCHANGED rowVars
    /\ Idle(d)
    /\ UNCHANGED <<recent, phase, batch, cand>>

-----------------------------------------------------------------------------
(* Time and failures *)

BackoffElapses(j) ==
    /\ status[j] = "pending" /\ ~ripe[j]
    /\ ripe' = [ripe EXCEPT ![j] = TRUE]
    /\ UNCHANGED <<recent, status, connOf, attempts, lockedBy, phase, batch,
                   drainVars, faults>>

Worked(j) == \E d \in Drains : task[d] = j /\ pc[d] \notin {"off", "locked"}

(* The lease (10 minutes) is longer than the 285 seconds in which the      *)
(* holder still claims, so the holder has stopped claiming.  A lease that  *)
(* lapses under a drain still at work counts as a fault.                   *)
LeaseExpires(j) ==
    /\ status[j] = "running" /\ ~ripe[j]
    /\ phase[lockedBy[j]] # "open"
    /\ Worked(j) => faults < MaxFaults
    /\ faults' = IF Worked(j) THEN faults + 1 ELSE faults
    /\ ripe' = [ripe EXCEPT ![j] = TRUE]
    /\ UNCHANGED <<recent, status, connOf, attempts, lockedBy, phase, batch, drainVars>>

HourPasses(c) ==
    /\ recent[c]
    /\ recent' = [recent EXCEPT ![c] = FALSE]
    /\ UNCHANGED <<rowVars, phase, batch, drainVars, faults>>

(* The one app machine restarts: every handler dies, open transactions     *)
(* roll back.                                                              *)
Crash ==
    /\ faults < MaxFaults
    /\ \E w \in Workers : phase[w] # "off"
    /\ faults' = faults + 1
    /\ phase' = [w \in Workers |-> "off"]
    /\ batch' = [w \in Workers |-> {}]
    /\ pc' = [d \in Drains |-> "off"]
    /\ cand' = [d \in Drains |-> {}]
    /\ task' = [d \in Drains |-> NoOne]
    /\ claimNo' = [d \in Drains |-> 0]
    /\ retaken' = {}
    /\ UNCHANGED <<recent, rowVars>>

Handler(w) == StartHandler(w) \/ EnqueueInsert(w) \/ Deadline(w) \/ HandlerReturns(w)

Drain(d) ==
    \/ ClaimScan(d) \/ DrainReturns(d)
    \/ \E j \in Jobs : LockRow(d, j)
    \/ ClaimUpdate(d) \/ ClaimFails(d)
    \/ RunConnection(d) \/ Finish(d) \/ Refinish(d)

Next ==
    \/ \E w \in Workers : Handler(w)
    \/ \E d \in Drains : Drain(d)
    \/ \E j \in Jobs : BackoffElapses(j) \/ LeaseExpires(j)
    \/ \E c \in Conns : HourPasses(c)
    \/ Crash

Spec == Init /\ [][Next]_vars

-----------------------------------------------------------------------------
(* Properties *)

(* A connection never has two jobs that are pending or running, however    *)
(* enqueues of overlapping handlers and claims of settled rows interleave  *)
(* ("One outstanding job per connection", head of the migration).          *)
OneOutstanding ==
    \A j, k \in Jobs :
        Outstanding(j) /\ Outstanding(k) /\ connOf[j] = connOf[k] => j = k

(* The row and drain facts that the invariants above and below rest on:    *)
(* locked_by is set exactly while a row is running, every used row has a   *)
(* connection, claims only ever reach used rows.                           *)
RowsWellFormed ==
    /\ \A j \in Jobs : /\ (status[j] = "running") <=> (lockedBy[j] # NoOne)
                       /\ status[j] # "free" => connOf[j] \in Conns
    /\ \A d \in Drains :
         /\ \A j \in cand[d] : status[j] # "free"
         /\ pc[d] \in Tasked => status[task[d]] # "free"

(* A drain still named by the locked_by of its row made that row's latest  *)
(* claim: the number it holds is the row's attempts.  The drains of a      *)
(* handler share its worker id, so this is so unless a sibling has claimed *)
(* the job since.                                                          *)
ClaimsFenced ==
    \A d \in Drains \ retaken :
        pc[d] \in Claimed /\ lockedBy[task[d]] = WorkerOf[d] => claimNo[d] = attempts[task[d]]

(* The outcome written to a row is the outcome of its latest claim: a      *)
(* drain that lost its lease, or whose response was lost, never settles a  *)
(* claim that another handler made after its own, nor one of its siblings  *)
(* unless that sibling claimed the job out of its hands.                   *)
SettleStep ==
    \A j \in Jobs : status[j] = "running" /\ status'[j] # "running" =>
        \E d \in Drains : /\ task[d] = j /\ pc'[d] # pc[d] /\ WorkerOf[d] = lockedBy[j]
                          /\ d \in retaken \/ claimNo[d] = attempts[j]
SettledByLatestClaim == [][SettleStep]_vars

(* What the queue promises of every job (JobClaims): the transactions of   *)
(* handlers and drains, their crashes and their lost responses show as its *)
(* steps or not at all.                                                    *)
JobState(s) == IF s \in {"pending", "running"} THEN "open" ELSE s
ClaimOf(d)  == [job |-> task[d], by |-> WorkerOf[d], number |-> claimNo[d],
                again |-> d \in retaken]
HeldClaims  == {ClaimOf(d) : d \in {e \in Drains : pc[e] \in Claimed}}
Promise     == INSTANCE JobClaims
                   WITH state <- [j \in Jobs |-> JobState(status[j])], Handlers <- Workers,
                        tries <- attempts, holder <- lockedBy, claims <- HeldClaims
JobsKept == Promise!Spec

(* A running job is taken over only after its lease has run out, as the    *)
(* queue's test has it ("stale running jobs can be reclaimed").            *)
ReclaimOnlyStale ==
    [][\A j \in Jobs : status[j] = "running" /\ attempts'[j] > attempts[j]
          => ripe[j]]_vars

(* The loops that run the code are fair: the scheduler keeps sending       *)
(* requests, drains keep executing, time passes.  A drain's first claim    *)
(* goes out at once, 285 seconds before the deadline could stop it (strong *)
(* fairness of ClaimScan).  The ranking serves every ripe row in turn      *)
(* (strong fairness of taking each row).                                   *)
FairSpec ==
    /\ Spec
    /\ WF_vars(\E w \in Workers : StartHandler(w))
    /\ \A w \in Workers : WF_vars(EnqueueInsert(w) \/ Deadline(w) \/ HandlerReturns(w))
    /\ \A d \in Drains : SF_vars(ClaimScan(d)) /\ WF_vars(Drain(d))
    /\ \A j \in Jobs :
         /\ SF_vars(\E d \in Drains : LockRow(d, j))
         /\ WF_vars(BackoffElapses(j)) /\ WF_vars(LeaseExpires(j))

(* Every job reaches an outcome, through crashes, lost responses and       *)
(* leases that lapse, provided these are finitely many.                    *)
EveryJobSettles ==
    \A j \in Jobs : Outstanding(j) ~> status[j] \in {"completed", "failed"}
=============================================================================
