-------------------------- MODULE SyncQueueProofs --------------------------
(***************************************************************************)
(* The safety of SyncQueue for every set of connections, rows, handlers    *)
(* and drains and every MaxAttempts and MaxFaults.                         *)
(***************************************************************************)
EXTENDS SyncQueue, TLAPS

USE QueueAssumption DEF JobStatus, Phase, DrainState, Tasked, Claimed

(* Every reachable state is well typed.                                    *)
THEOREM QueueTyped == Spec => []TypeOK
<1>1. Init => TypeOK
  BY DEF Init, TypeOK
<1>2. TypeOK /\ [Next]_vars => TypeOK'
  <2> SUFFICES ASSUME TypeOK, [Next]_vars PROVE TypeOK'
    OBVIOUS
  <2> USE DEF TypeOK, rowVars, drainVars
  <2>1. ASSUME NEW w \in Workers, StartHandler(w) PROVE TypeOK'
    BY <2>1 DEF StartHandler
  <2>2. ASSUME NEW w \in Workers, EnqueueInsert(w) PROVE TypeOK'
    <3>1. PICK new \in SUBSET Conns, rows \in SUBSET FreeRows :
            \E conn \in [rows -> new] : InsertAs(rows, conn, new)
      BY <2>2 DEF EnqueueInsert, Insertable, InsertRows
    <3>2. PICK conn \in [rows -> new] : InsertAs(rows, conn, new)
      BY <3>1
    <3>3. \A j \in rows : conn[j] \in Conns
      OBVIOUS
    <3>4. /\ status' \in [Jobs -> JobStatus] /\ ripe' \in [Jobs -> BOOLEAN]
          /\ connOf' \in [Jobs -> Conns \cup {NoOne}]
      BY <3>2, <3>3 DEF InsertAs
    <3> QED
      BY <2>2, <3>4 DEF EnqueueInsert
  <2>3. ASSUME NEW w \in Workers, Deadline(w) PROVE TypeOK'
    BY <2>3 DEF Deadline
  <2>4. ASSUME NEW w \in Workers, HandlerReturns(w) PROVE TypeOK'
    BY <2>4 DEF HandlerReturns
  <2>5. ASSUME NEW d \in Drains, Drain(d) PROVE TypeOK'
    <3>1. CASE ClaimScan(d)
      BY <3>1 DEF ClaimScan
    <3>2. CASE DrainReturns(d)
      BY <3>2 DEF DrainReturns
    <3>3. ASSUME NEW j \in Jobs, LockRow(d, j) PROVE TypeOK'
      BY <3>3 DEF LockRow
    <3>4. CASE ClaimUpdate(d)
      BY <3>4 DEF ClaimUpdate, Siblings
    <3>5. CASE ClaimFails(d)
      BY <3>5 DEF ClaimFails
    <3>6. CASE RunConnection(d)
      <4>1. /\ recent' \in [Conns -> BOOLEAN]
            /\ \E out \in {"ok", "err", "refinish"} : pc' = [pc EXCEPT ![d] = out]
        BY <3>6 DEF RunConnection
      <4>2. /\ pc' \in [Drains -> DrainState]
            /\ \A e \in Drains : pc'[e] \in Tasked => task[e] \in Jobs
        BY <3>6, <4>1 DEF RunConnection
      <4> QED
        BY <3>6, <4>1, <4>2 DEF RunConnection
    <3>0. ASSUME NEW ok \in BOOLEAN, pc[d] \in Tasked, SettleRow(d, ok) \/ UNCHANGED rowVars
          PROVE  /\ status' \in [Jobs -> JobStatus] /\ connOf' \in [Jobs -> Conns \cup {NoOne}]
                 /\ attempts' \in [Jobs -> Nat] /\ ripe' \in [Jobs -> BOOLEAN]
                 /\ lockedBy' \in [Jobs -> Workers \cup {NoOne}]
      <4>1. NextStatus(task[d], ok) \in JobStatus
        BY DEF NextStatus
      <4>2. CASE SettleRow(d, ok)
        BY <3>0, <4>1, <4>2 DEF SettleRow
      <4> QED
        BY <3>0, <4>2
    <3>7. CASE Finish(d)
      <4>1. pc[d] \in Tasked /\ (SettleRow(d, pc[d] = "ok") \/ UNCHANGED rowVars)
        BY <3>7 DEF Finish, NoMatch
      <4>2. /\ pc' \in [Drains -> DrainState] /\ task' \in [Drains -> Jobs \cup {NoOne}]
            /\ claimNo' \in [Drains -> Nat] /\ faults' \in 0..MaxFaults
            /\ retaken' \in SUBSET Drains
            /\ \A e \in Drains : pc'[e] \in Tasked => task'[e] \in Jobs
        BY <3>7 DEF Finish, Idle, CallFails, NoMatch
      <4> QED
        BY <3>7, <3>0, <4>1, <4>2 DEF Finish
    <3>8. CASE Refinish(d)
      <4>1. pc[d] \in Tasked /\ (SettleRow(d, FALSE) \/ UNCHANGED rowVars)
        BY <3>8 DEF Refinish, NoMatch
      <4>2. Idle(d) /\ (faults' = faults \/ CallFails)
        BY <3>8 DEF Refinish
      <4>3. faults' \in 0..MaxFaults
        BY <4>2 DEF CallFails
      <4>4. /\ pc' \in [Drains -> DrainState] /\ task' \in [Drains -> Jobs \cup {NoOne}]
            /\ claimNo' \in [Drains -> Nat] /\ retaken' \in SUBSET Drains
            /\ \A e \in Drains : pc'[e] \in Tasked => task'[e] \in Jobs
        BY <4>2 DEF Idle
      <4> QED
        BY <3>8, <3>0, <4>1, <4>2, <4>3, <4>4 DEF Refinish
    <3> QED
      BY <2>5, <3>1, <3>2, <3>3, <3>4, <3>5, <3>6, <3>7, <3>8 DEF Drain
  <2>6. ASSUME NEW j \in Jobs, BackoffElapses(j) PROVE TypeOK'
    BY <2>6 DEF BackoffElapses
  <2>7. ASSUME NEW j \in Jobs, LeaseExpires(j) PROVE TypeOK'
    BY <2>7 DEF LeaseExpires
  <2>8. ASSUME NEW c \in Conns, HourPasses(c) PROVE TypeOK'
    BY <2>8 DEF HourPasses
  <2>10. CASE Crash
    BY <2>10 DEF Crash
  <2>11. CASE UNCHANGED vars
    BY <2>11 DEF vars
  <2> QED
    BY <2>1, <2>2, <2>3, <2>4, <2>5, <2>6, <2>7, <2>8, <2>10, <2>11
    DEF Next, Handler
<1> QED
  BY <1>1, <1>2, PTL DEF Spec

-----------------------------------------------------------------------------

(* What the two calls of sync_jobs_finish do: at most one row, the row of   *)
(* the calling drain, is settled, and no drain gets or changes a task.     *)
LEMMA FinishEffect ==
    ASSUME TypeOK, NEW d \in Drains, Finish(d) \/ Refinish(d)
    PROVE  /\ pc[d] \in Claimed /\ task[d] \in Jobs /\ pc'[d] # pc[d]
           /\ \E ok \in BOOLEAN : SettleRow(d, ok) \/ UNCHANGED rowVars
           /\ cand' = cand
           /\ \A e \in Drains : pc'[e] \in Tasked =>
                /\ pc[e] \in Tasked
                /\ (pc'[e] = "locked") <=> (pc[e] = "locked")
                /\ task'[e] = task[e] /\ claimNo'[e] = claimNo[e]
                /\ e \in retaken' <=> e \in retaken
<1> USE DEF TypeOK
<1>1. CASE Finish(d)
  <2>1. pc[d] \in {"ok", "err"} /\ task[d] \in Jobs /\ cand' = cand
    BY <1>1 DEF Finish
  <2>2. \/ pc' = [pc EXCEPT ![d] = "refinish"] /\ UNCHANGED <<task, claimNo, retaken>>
        \/ Idle(d)
    BY <1>1 DEF Finish
  <2>3. \E ok \in BOOLEAN : SettleRow(d, ok) \/ UNCHANGED rowVars
    BY <1>1 DEF Finish, NoMatch
  <2> QED
    BY <2>1, <2>2, <2>3 DEF Idle
<1>2. CASE Refinish(d)
  <2>1. pc[d] = "refinish" /\ task[d] \in Jobs /\ cand' = cand /\ Idle(d)
    BY <1>2 DEF Refinish
  <2>2. \E ok \in BOOLEAN : SettleRow(d, ok) \/ UNCHANGED rowVars
    BY <1>2 DEF Refinish, NoMatch
  <2> QED
    BY <2>1, <2>2 DEF Idle
<1> QED
  BY <1>1, <1>2

(* The bookkeeping of rows and drains that the results below rest on.      *)
THEOREM QueueRowsWellFormed == Spec => []RowsWellFormed
<1>1. Init => RowsWellFormed
  BY DEF Init, RowsWellFormed
<1>2. TypeOK /\ TypeOK' /\ RowsWellFormed /\ [Next]_vars => RowsWellFormed'
  <2> SUFFICES ASSUME TypeOK, TypeOK', RowsWellFormed, [Next]_vars PROVE RowsWellFormed'
    OBVIOUS
  <2> USE DEF RowsWellFormed, rowVars, drainVars
  <2>1. ASSUME NEW w \in Workers, StartHandler(w) PROVE RowsWellFormed'
    BY <2>1 DEF StartHandler
  <2>2. ASSUME NEW w \in Workers, EnqueueInsert(w) PROVE RowsWellFormed'
    <3>1. PICK new \in SUBSET Conns, rows \in SUBSET FreeRows :
            \E conn \in [rows -> new] : InsertAs(rows, conn, new)
      BY <2>2 DEF EnqueueInsert, Insertable, InsertRows, TypeOK
    <3>2. PICK conn \in [rows -> new] : InsertAs(rows, conn, new)
      BY <3>1
    <3>3. \A j \in Jobs : /\ status'[j] = IF j \in rows THEN "pending" ELSE status[j]
                          /\ connOf'[j] = IF j \in rows THEN conn[j] ELSE connOf[j]
      BY <3>2 DEF InsertAs
    <3>4. \A j \in rows : status[j] = "free" /\ conn[j] \in Conns
      BY DEF FreeRows
    <3>5. \A d \in Drains : pc'[d] \in Tasked => pc[d] \in Tasked
      BY <2>2 DEF EnqueueInsert, TypeOK
    <3> QED
      BY <2>2, <3>3, <3>4, <3>5 DEF EnqueueInsert, TypeOK
  <2>3. ASSUME NEW w \in Workers, Deadline(w) \/ HandlerReturns(w) PROVE RowsWellFormed'
    BY <2>3 DEF Deadline, HandlerReturns
  <2>4. ASSUME NEW d \in Drains, Drain(d) PROVE RowsWellFormed'
    <3>1. CASE ClaimScan(d)
      BY <3>1 DEF ClaimScan, Claimable, Outstanding, TypeOK
    <3>2. CASE DrainReturns(d)
      BY <3>2 DEF DrainReturns, TypeOK
    <3>3. ASSUME NEW j \in Jobs, LockRow(d, j) PROVE RowsWellFormed'
      BY <3>3 DEF LockRow, TypeOK
    <3>4. CASE ClaimUpdate(d)
      <4>1. task[d] \in Jobs /\ WorkerOf[d] \in Workers /\ WorkerOf[d] # NoOne
        BY <3>4 DEF ClaimUpdate, TypeOK
      <4>2. /\ status' = [status EXCEPT ![task[d]] = "running"]
            /\ lockedBy' = [lockedBy EXCEPT ![task[d]] = WorkerOf[d]]
            /\ connOf' = connOf /\ cand' = cand
            /\ \A e \in Drains : pc'[e] \in Tasked => pc[e] \in Tasked /\ task'[e] = task[e]
        BY <3>4 DEF ClaimUpdate, TypeOK
      <4> QED
        BY <3>4, <4>1, <4>2 DEF ClaimUpdate, TypeOK
    <3>5. CASE ClaimFails(d)
      BY <3>5 DEF ClaimFails, TypeOK
    <3>6. CASE RunConnection(d)
      <4>1. \A e \in Drains : pc'[e] \in Tasked => pc[e] \in Tasked
        BY <3>6 DEF RunConnection, TypeOK
      <4> QED
        BY <3>6, <4>1 DEF RunConnection
    <3>7. CASE Finish(d) \/ Refinish(d)
      <4>1. PICK ok \in BOOLEAN : SettleRow(d, ok) \/ UNCHANGED rowVars
        BY <3>7, FinishEffect
      <4>2. /\ cand' = cand /\ task[d] \in Jobs
            /\ \A e \in Drains : pc'[e] \in Tasked => pc[e] \in Tasked /\ task'[e] = task[e]
        BY <3>7, FinishEffect
      <4>3. CASE SettleRow(d, ok)
        <5>1. NextStatus(task[d], ok) \notin {"free", "running"} /\ status[task[d]] = "running"
          BY <4>3 DEF NextStatus, SettleRow, Holds
        <5> QED
          BY <4>2, <4>3, <5>1 DEF SettleRow, TypeOK
      <4> QED
        BY <4>1, <4>2, <4>3
    <3> QED
      BY <2>4, <3>1, <3>2, <3>3, <3>4, <3>5, <3>6, <3>7 DEF Drain
  <2>5. ASSUME NEW j \in Jobs, BackoffElapses(j) \/ LeaseExpires(j) PROVE RowsWellFormed'
    BY <2>5 DEF BackoffElapses, LeaseExpires
  <2>6. ASSUME NEW c \in Conns, HourPasses(c) PROVE RowsWellFormed'
    BY <2>6 DEF HourPasses
  <2>7. CASE Crash
    BY <2>7 DEF Crash
  <2>8. CASE UNCHANGED vars
    BY <2>8 DEF vars
  <2> QED
    BY <2>1, <2>2, <2>3, <2>4, <2>5, <2>6, <2>7, <2>8 DEF Next, Handler
<1> QED
  BY <1>1, <1>2, QueueTyped, PTL DEF Spec

-----------------------------------------------------------------------------

(* A connection never has two jobs that are pending or running: the unique *)
(* index arbitrates racing enqueues and claims that revive a settled row.  *)
THEOREM QueueOneOutstanding == Spec => []OneOutstanding
<1>1. Init => OneOutstanding
  BY DEF Init, OneOutstanding, Outstanding
<1>2. TypeOK /\ OneOutstanding /\ [Next]_vars => OneOutstanding'
  <2> SUFFICES ASSUME TypeOK, OneOutstanding, [Next]_vars PROVE OneOutstanding'
    OBVIOUS
  <2> USE DEF OneOutstanding, Outstanding, rowVars, drainVars
  <2>1. ASSUME NEW w \in Workers, EnqueueInsert(w) PROVE OneOutstanding'
    <3>1. PICK new \in SUBSET Insertable(batch[w]), rows \in SUBSET FreeRows :
            \E conn \in [rows -> new] : InsertAs(rows, conn, new)
      BY <2>1 DEF EnqueueInsert, InsertRows
    <3>2. PICK conn \in [rows -> new] : InsertAs(rows, conn, new)
      BY <3>1
    <3>3. \A j \in Jobs : /\ status'[j] = IF j \in rows THEN "pending" ELSE status[j]
                          /\ connOf'[j] = IF j \in rows THEN conn[j] ELSE connOf[j]
      BY <3>2 DEF InsertAs
    <3>4. \A j, k \in rows : conn[j] = conn[k] => j = k
      BY <3>2 DEF InsertAs
    <3>5. \A j \in rows, k \in Jobs : Outstanding(k) => connOf[k] # conn[j]
      BY DEF Insertable, HasOutstanding
    <3> QED
      BY <3>3, <3>4, <3>5
  <2>2. ASSUME NEW d \in Drains, ClaimUpdate(d) PROVE OneOutstanding'
    <3>1. /\ IndexAllows(task[d]) /\ connOf' = connOf
          /\ status' = [status EXCEPT ![task[d]] = "running"]
      BY <2>2 DEF ClaimUpdate
    <3>2. task[d] \in Jobs
      BY <2>2 DEF ClaimUpdate, TypeOK
    <3> QED
      BY <3>1, <3>2 DEF IndexAllows, HasOutstanding, TypeOK
  <2>3. ASSUME NEW d \in Drains, Finish(d) \/ Refinish(d) PROVE OneOutstanding'
    <3>1. PICK ok \in BOOLEAN : SettleRow(d, ok) \/ UNCHANGED rowVars
      BY <2>3, FinishEffect
    <3>2. CASE SettleRow(d, ok)
      BY <3>2 DEF SettleRow, Holds, TypeOK
    <3> QED
      BY <3>1, <3>2
  <2>4. CASE UNCHANGED <<status, connOf>>
    BY <2>4
  <2>5. ASSUME NEW w \in Workers, StartHandler(w) \/ Deadline(w) \/ HandlerReturns(w)
        PROVE  UNCHANGED <<status, connOf>>
    BY <2>5 DEF StartHandler, Deadline, HandlerReturns
  <2>6. ASSUME NEW d \in Drains, Drain(d), ~ClaimUpdate(d), ~(Finish(d) \/ Refinish(d))
        PROVE  UNCHANGED <<status, connOf>>
    BY <2>6 DEF Drain, ClaimScan, DrainReturns, LockRow, ClaimFails, RunConnection
  <2>7. ASSUME NEW j \in Jobs, BackoffElapses(j) \/ LeaseExpires(j)
        PROVE  UNCHANGED <<status, connOf>>
    BY <2>7 DEF BackoffElapses, LeaseExpires
  <2>8. ASSUME NEW c \in Conns, HourPasses(c)
        PROVE  UNCHANGED <<status, connOf>>
    BY <2>8 DEF HourPasses
  <2>9. CASE Crash \/ UNCHANGED vars
    BY <2>9 DEF Crash, vars
  <2> QED
    BY <2>1, <2>2, <2>3, <2>4, <2>5, <2>6, <2>7, <2>8, <2>9 DEF Next, Handler
<1> QED
  BY <1>1, <1>2, QueueTyped, PTL DEF Spec

-----------------------------------------------------------------------------

(* Only the two calls of finish take a row out of "running", and only the  *)
(* row of the calling drain while that drain is named by its locked_by.    *)
LEMMA OnlyHoldersSettle ==
    ASSUME TypeOK, [Next]_vars, NEW j \in Jobs, status[j] = "running", status'[j] # "running"
    PROVE  \E d \in Drains : task[d] = j /\ Holds(d) /\ (Finish(d) \/ Refinish(d))
<1> USE DEF rowVars, drainVars
<1>1. ASSUME NEW w \in Workers, Handler(w) PROVE status'[j] = "running"
  <2>1. CASE EnqueueInsert(w)
    <3>1. PICK new \in SUBSET Conns, rows \in SUBSET FreeRows :
            \E conn \in [rows -> new] : InsertAs(rows, conn, new)
      BY <2>1 DEF EnqueueInsert, Insertable, InsertRows, TypeOK
    <3>2. j \notin rows
      BY DEF FreeRows
    <3> QED
      BY <3>1, <3>2 DEF InsertAs
  <2> QED
    BY <1>1, <2>1 DEF Handler, StartHandler, Deadline, HandlerReturns
<1>2. ASSUME NEW d \in Drains, Drain(d), ~(Finish(d) \/ Refinish(d)) PROVE status'[j] = "running"
  BY <1>2 DEF Drain, ClaimScan, DrainReturns, LockRow, ClaimUpdate, ClaimFails, RunConnection,
              TypeOK
<1>3. ASSUME NEW d \in Drains, Finish(d) \/ Refinish(d) PROVE task[d] = j /\ Holds(d)
  <2>1. PICK ok \in BOOLEAN : SettleRow(d, ok) \/ UNCHANGED rowVars
    BY <1>3, FinishEffect
  <2> QED
    BY <2>1 DEF SettleRow, TypeOK
<1>4. ASSUME NEW k \in Jobs, BackoffElapses(k) \/ LeaseExpires(k) PROVE status'[j] = "running"
  BY <1>4 DEF BackoffElapses, LeaseExpires
<1>5. ASSUME NEW c \in Conns, HourPasses(c) PROVE status'[j] = "running"
  BY <1>5 DEF HourPasses
<1>6. CASE Crash \/ UNCHANGED vars
  BY <1>6 DEF Crash, vars
<1> QED
  BY <1>1, <1>2, <1>3, <1>4, <1>5, <1>6 DEF Next

(* A drain still named by locked_by made the latest claim of its row,      *)
(* unless another drain of its handler has claimed the row since.          *)
THEOREM QueueClaimsFenced == Spec => []ClaimsFenced
<1>1. Init => ClaimsFenced
  BY DEF Init, ClaimsFenced
<1>2. TypeOK /\ ClaimsFenced /\ [Next]_vars => ClaimsFenced'
  <2> SUFFICES ASSUME TypeOK, ClaimsFenced, [Next]_vars PROVE ClaimsFenced'
    OBVIOUS
  <2> USE DEF ClaimsFenced, rowVars, drainVars
  <2>1. ASSUME NEW w \in Workers, Handler(w) PROVE ClaimsFenced'
    <3>1. /\ UNCHANGED <<attempts, lockedBy, task, claimNo, retaken>>
          /\ \A d \in Drains : pc'[d] = pc[d] \/ pc'[d] = "idle"
      BY <2>1 DEF Handler, StartHandler, EnqueueInsert, Deadline, HandlerReturns, TypeOK
    <3> QED
      BY <3>1
  <2>2. ASSUME NEW d \in Drains, Drain(d) PROVE ClaimsFenced'
    <3>1. CASE ClaimScan(d)
      BY <3>1 DEF ClaimScan, TypeOK
    <3>2. CASE DrainReturns(d)
      BY <3>2 DEF DrainReturns, TypeOK
    <3>3. ASSUME NEW j \in Jobs, LockRow(d, j) PROVE ClaimsFenced'
      BY <3>3 DEF LockRow, TypeOK
    <3>4. CASE ClaimUpdate(d)
      <4>1. task[d] \in Jobs
        BY <3>4 DEF ClaimUpdate, TypeOK
      <4>2. /\ attempts' = [attempts EXCEPT ![task[d]] = @ + 1]
            /\ lockedBy' = [lockedBy EXCEPT ![task[d]] = WorkerOf[d]]
            /\ \/ pc'[d] = "off"
               \/ claimNo'[d] = attempts[task[d]] + 1 /\ task'[d] = task[d]
            /\ \A e \in Drains \ {d} : /\ pc'[e] = pc[e] /\ task'[e] = task[e]
                                       /\ claimNo'[e] = claimNo[e]
        BY <3>4 DEF ClaimUpdate, TypeOK
      <4>3. \A e \in Drains \ {d} : e \notin retaken' =>
              /\ e \notin retaken
              /\ pc[e] \in Claimed /\ task[e] = task[d] => WorkerOf[e] # WorkerOf[d]
        BY <3>4 DEF ClaimUpdate, Siblings
      <4> QED
        BY <4>1, <4>2, <4>3 DEF TypeOK
    <3>5. CASE ClaimFails(d)
      BY <3>5 DEF ClaimFails, TypeOK
    <3>6. CASE RunConnection(d)
      <4>1. \A e \in Drains : pc'[e] # pc[e] => pc[e] = "working"
        BY <3>6 DEF RunConnection, TypeOK
      <4> QED
        BY <3>6, <4>1 DEF RunConnection
    <3>7. CASE Finish(d) \/ Refinish(d)
      <4>1. PICK ok \in BOOLEAN : SettleRow(d, ok) \/ UNCHANGED rowVars
        BY <3>7, FinishEffect
      <4>2. \A e \in Drains : pc'[e] \in Claimed =>
               /\ pc[e] \in Claimed /\ task[e] \in Jobs
               /\ task'[e] = task[e] /\ claimNo'[e] = claimNo[e]
               /\ e \in retaken' <=> e \in retaken
        <5>1. \A e \in Drains : pc[e] \in Tasked => task[e] \in Jobs
          BY DEF TypeOK
        <5> QED
          BY <3>7, <5>1, FinishEffect
      <4>3. CASE SettleRow(d, ok)
        BY <4>2, <4>3 DEF SettleRow, TypeOK
      <4> QED
        BY <4>1, <4>2, <4>3
    <3> QED
      BY <2>2, <3>1, <3>2, <3>3, <3>4, <3>5, <3>6, <3>7 DEF Drain
  <2>3. ASSUME NEW j \in Jobs, BackoffElapses(j) \/ LeaseExpires(j) PROVE ClaimsFenced'
    BY <2>3 DEF BackoffElapses, LeaseExpires
  <2>4. ASSUME NEW c \in Conns, HourPasses(c) PROVE ClaimsFenced'
    BY <2>4 DEF HourPasses
  <2>5. CASE Crash
    BY <2>5 DEF Crash
  <2>6. CASE UNCHANGED vars
    BY <2>6 DEF vars
  <2> QED
    BY <2>1, <2>2, <2>3, <2>4, <2>5, <2>6 DEF Next
<1> QED
  BY <1>1, <1>2, QueueTyped, PTL DEF Spec

(* Whatever settles a row is the outcome of its latest claim, or of one    *)
(* the same handler's drain made before and still held: a drain whose      *)
(* lease lapsed, or whose response was lost, never settles the job of a    *)
(* later claim of another handler.                                         *)
THEOREM QueueSettledByLatestClaim == Spec => SettledByLatestClaim
<1>1. TypeOK /\ ClaimsFenced /\ [Next]_vars => SettleStep
  <2> SUFFICES ASSUME TypeOK, ClaimsFenced, [Next]_vars,
                      NEW j \in Jobs, status[j] = "running", status'[j] # "running"
               PROVE  \E d \in Drains : /\ task[d] = j /\ pc'[d] # pc[d] /\ WorkerOf[d] = lockedBy[j]
                                        /\ d \in retaken \/ claimNo[d] = attempts[j]
    BY DEF SettleStep
  <2>1. PICK d \in Drains : task[d] = j /\ Holds(d) /\ (Finish(d) \/ Refinish(d))
    BY OnlyHoldersSettle
  <2>2. pc[d] \in Claimed /\ pc'[d] # pc[d]
    BY <2>1, FinishEffect
  <2> QED
    BY <2>1, <2>2 DEF ClaimsFenced, Holds
<1> QED
  BY <1>1, QueueTyped, QueueClaimsFenced, PTL DEF Spec, SettledByLatestClaim

-----------------------------------------------------------------------------
(* The promise of JobClaims                                                *)

state == [j \in Jobs |-> JobState(status[j])]

(* A handler's drains run only after its enqueue.                          *)
DrainsOpen == \A d \in Drains : pc[d] # "off" => phase[WorkerOf[d]] \in {"open", "closed"}

LEMMA QueueDrainsOpen == Spec => []DrainsOpen
<1>1. Init => DrainsOpen
  BY DEF Init, DrainsOpen
<1>2. TypeOK /\ DrainsOpen /\ [Next]_vars => DrainsOpen'
  <2> SUFFICES ASSUME TypeOK, DrainsOpen, [Next]_vars PROVE DrainsOpen'
    OBVIOUS
  <2> USE DEF TypeOK, DrainsOpen, drainVars
  <2>1. ASSUME NEW w \in Workers, Handler(w) PROVE DrainsOpen'
    BY <2>1 DEF Handler, StartHandler, EnqueueInsert, Deadline, HandlerReturns, Live
  <2>2. ASSUME NEW d \in Drains, Drain(d) PROVE DrainsOpen'
    <3>1. phase' = phase /\ pc[d] # "off" /\ \A e \in Drains \ {d} : pc'[e] = pc[e]
      BY <2>2 DEF Drain, ClaimScan, DrainReturns, LockRow, ClaimUpdate, ClaimFails, RunConnection,
                  Finish, Refinish, Idle
    <3> QED
      BY <3>1
  <2>3. ASSUME NEW j \in Jobs, BackoffElapses(j) \/ LeaseExpires(j) PROVE DrainsOpen'
    BY <2>3 DEF BackoffElapses, LeaseExpires
  <2>4. ASSUME NEW c \in Conns, HourPasses(c) PROVE DrainsOpen'
    BY <2>4 DEF HourPasses
  <2>5. CASE Crash
    BY <2>5 DEF Crash
  <2>6. CASE UNCHANGED vars
    BY <2>6 DEF vars
  <2> QED
    BY <2>1, <2>2, <2>3, <2>4, <2>5, <2>6 DEF Next
<1> QED
  BY <1>1, <1>2, QueueTyped, PTL DEF Spec

LEMMA OpenIsOutstanding == ASSUME TypeOK PROVE \A c : Promise!HasOpen(c) <=> HasOutstanding(c)
<1>1. \A j \in Jobs : state[j] = "open" <=> Outstanding(j)
  BY DEF state, JobState, Outstanding, TypeOK
<1> QED
  BY <1>1 DEF Promise!HasOpen, HasOutstanding, state

(* The enqueue's insert creates jobs for connections without an open one.  *)
LEMMA EnqueueKeepsJobs ==
    ASSUME TypeOK, DrainsOpen, NEW w \in Workers, EnqueueInsert(w) PROVE Promise!Next
<1>1. PICK new \in SUBSET Conns, rows \in SUBSET FreeRows :
        /\ \A c \in new : ~HasOutstanding(c)
        /\ \E conn \in [rows -> new] : InsertAs(rows, conn, new)
  BY DEF EnqueueInsert, Insertable, InsertRows, TypeOK
<1>2. PICK conn \in [rows -> new] : InsertAs(rows, conn, new)
  BY <1>1
<1>3. rows \in SUBSET Jobs /\ conn \in [rows -> Conns]
  BY DEF FreeRows
<1>4. \A j \in rows : state[j] = "free" /\ ~Promise!HasOpen(conn[j])
  BY <1>1, <1>3, OpenIsOutstanding DEF FreeRows, state, JobState
<1>5. state' = [j \in Jobs |-> IF j \in rows THEN "open" ELSE state[j]]
  BY <1>2 DEF InsertAs, state, JobState
<1>6. \A d \in Drains : /\ pc[d] \in Tasked <=> pc'[d] \in Tasked
                        /\ pc[d] \in Tasked => pc'[d] = pc[d]
  BY DEF EnqueueInsert, DrainsOpen, TypeOK
<1>7. HeldClaims' = HeldClaims
  BY <1>6 DEF HeldClaims, ClaimOf, EnqueueInsert
<1>8. Promise!Create(rows, conn)
  BY <1>2, <1>4, <1>5, <1>7 DEF Promise!Create, state, InsertAs, EnqueueInsert
<1> QED
  BY <1>3, <1>8 DEF Promise!Next

(* A claim that commits is a claim, whether its answer arrives or not.     *)
LEMMA ClaimKeepsJobs ==
    ASSUME TypeOK, RowsWellFormed, NEW d \in Drains, ClaimUpdate(d) PROVE Promise!Next
<1> DEFINE j == task[d]
           w == WorkerOf[d]
           new == [job |-> j, by |-> w, number |-> attempts[j] + 1, again |-> FALSE]
           Again(c) == IF c.job = j /\ c.by = w THEN [c EXCEPT !.again = TRUE] ELSE c
<1>1. j \in Jobs /\ status[j] # "free" /\ IndexAllows(j)
  BY DEF ClaimUpdate, TypeOK, RowsWellFormed
<1>2. state[j] = "open" \/ (state[j] # "free" /\ ~Promise!HasOpen(connOf[j]))
  BY <1>1, OpenIsOutstanding DEF IndexAllows, state, JobState, Outstanding, TypeOK
<1>3. state' = [state EXCEPT ![j] = "open"]
  BY <1>1 DEF ClaimUpdate, state, JobState, TypeOK
<1>4. attempts' = [attempts EXCEPT ![j] = @ + 1] /\ connOf' = connOf
  BY DEF ClaimUpdate
<1>5. lockedBy' = [lockedBy EXCEPT ![j] = w]
  BY DEF ClaimUpdate
<1>6. pc[d] = "locked" /\ Claimed = {"working", "ok", "err", "refinish"}
  BY DEF ClaimUpdate
<1>7. ASSUME NEW e \in Drains \ {d}
      PROVE  pc'[e] = pc[e] /\ (pc[e] \in Claimed => ClaimOf(e)' = Again(ClaimOf(e)))
  <2>1. pc'[e] = pc[e] /\ task'[e] = task[e] /\ claimNo'[e] = claimNo[e]
    BY DEF ClaimUpdate, TypeOK
  <2>2. CASE pc[e] \in Claimed /\ task[e] = j /\ WorkerOf[e] = w
    <3>1. e \in retaken'
      BY <2>2 DEF ClaimUpdate, Siblings
    <3>2. ClaimOf(e)' = [job |-> task[e], by |-> WorkerOf[e], number |-> claimNo[e], again |-> TRUE]
      BY <2>1, <3>1 DEF ClaimOf
    <3>3. Again(ClaimOf(e)) = [ClaimOf(e) EXCEPT !.again = TRUE]
      BY <2>2 DEF ClaimOf
    <3> QED
      BY <2>1, <3>2, <3>3 DEF ClaimOf
  <2>3. CASE pc[e] \in Claimed /\ ~(task[e] = j /\ WorkerOf[e] = w)
    <3>1. e \in retaken' <=> e \in retaken
      BY <2>3 DEF ClaimUpdate, Siblings
    <3>2. ClaimOf(e)' = ClaimOf(e)
      BY <2>1, <3>1 DEF ClaimOf
    <3>3. Again(ClaimOf(e)) = ClaimOf(e)
      BY <2>3 DEF ClaimOf
    <3> QED
      BY <2>1, <3>2, <3>3
  <2> QED
    BY <2>1, <2>2, <2>3
<1> DEFINE others == {e \in Drains \ {d} : pc[e] \in Claimed}
<1>8. Promise!Repeated(j, w) = {Again(ClaimOf(e)) : e \in others}
  BY <1>6 DEF HeldClaims, Promise!Repeated
<1>9. \/ HeldClaims' = Promise!Repeated(j, w)
      \/ HeldClaims' = Promise!Repeated(j, w) \cup {new}
  <2>0. {ClaimOf(e)' : e \in others} = {Again(ClaimOf(e)) : e \in others}
    BY <1>7
  <2>1. CASE pc'[d] = "working" /\ task'[d] = j /\ claimNo'[d] = attempts[j] + 1
    <3>1. (d \in retaken') = FALSE
      BY DEF ClaimUpdate, Siblings
    <3>2. ClaimOf(d)' = new
      BY <2>1, <3>1 DEF ClaimOf
    <3>3. {e \in Drains : pc'[e] \in Claimed} = others \cup {d}
      BY <1>6, <1>7, <2>1
    <3>4. HeldClaims' = {ClaimOf(e)' : e \in others \cup {d}}
      BY <3>3 DEF HeldClaims
    <3>5. HeldClaims' = {ClaimOf(e)' : e \in others} \cup {new}
      BY <3>2, <3>4
    <3> QED
      BY <1>8, <2>0, <3>5
  <2>2. CASE pc'[d] = "off"
    <3>1. {e \in Drains : pc'[e] \in Claimed} = others
      BY <1>6, <1>7, <2>2
    <3>2. HeldClaims' = {ClaimOf(e)' : e \in others}
      BY <3>1 DEF HeldClaims
    <3> QED
      BY <1>8, <2>0, <3>2
  <2> QED
    BY <2>1, <2>2 DEF ClaimUpdate, TypeOK
<1>10. Promise!Claim(j, w)
  BY <1>2, <1>3, <1>4, <1>5, <1>9 DEF Promise!Claim, state
<1> QED
  BY <1>1, <1>10 DEF Promise!Next

(* A call of finish settles the job its drain holds the latest claim of,   *)
(* or leaves it open and forgets that claim, or changes nothing.           *)
LEMMA FinishKeepsJobs ==
    ASSUME TypeOK, ClaimsFenced, NEW d \in Drains, Finish(d) \/ Refinish(d)
    PROVE  Promise!Next \/ UNCHANGED <<state, connOf, attempts, lockedBy, HeldClaims>>
<1> DEFINE j == task[d]
           claim == ClaimOf(d)
<1>1. pc[d] \in Claimed /\ j \in Jobs /\ claim \in HeldClaims
  BY FinishEffect DEF HeldClaims
<1>2. HeldClaims' \in {HeldClaims, HeldClaims \ {claim}}
  <2>1. \A e \in Drains : pc'[e] \in Claimed => pc[e] \in Claimed /\ ClaimOf(e)' = ClaimOf(e)
    BY FinishEffect DEF ClaimOf
  <2>2. \A e \in Drains \ {d} : pc'[e] = pc[e]
    BY DEF Finish, Refinish, Idle, TypeOK
  <2>3. HeldClaims' \subseteq HeldClaims
    BY <2>1 DEF HeldClaims
  <2>4. HeldClaims \ {claim} \subseteq HeldClaims'
    BY <2>1, <2>2 DEF HeldClaims
  <2> QED
    BY <2>3, <2>4
<1>3. {claim} \in SUBSET HeldClaims
  BY <1>1
<1>4. CASE UNCHANGED rowVars
  <2>1. UNCHANGED <<state, connOf, attempts, lockedBy>>
    BY <1>4 DEF rowVars, state
  <2>2. CASE HeldClaims' = HeldClaims \ {claim}
    <3>1. Promise!Forget({claim})
      BY <2>1, <2>2 DEF Promise!Forget, state
    <3> QED
      BY <1>3, <3>1 DEF Promise!Next
  <2> QED
    BY <1>2, <2>1, <2>2
<1>5. ASSUME NEW ok \in BOOLEAN, SettleRow(d, ok) PROVE Promise!Next
  <2> DEFINE outcome == JobState(NextStatus(j, ok))
  <2>1. /\ status[j] = "running" /\ lockedBy[j] = WorkerOf[d]
        /\ status' = [status EXCEPT ![j] = NextStatus(j, ok)]
        /\ lockedBy' = [lockedBy EXCEPT ![j] = NoOne]
        /\ UNCHANGED <<connOf, attempts>>
    BY <1>5 DEF SettleRow, Holds
  <2>2. /\ claim.job = j /\ claim.by = WorkerOf[d]
        /\ claim.number = attempts[j] \/ claim.again
    BY <1>1, <2>1 DEF ClaimsFenced, ClaimOf
  <2>3. state[j] = "open" /\ state' = [state EXCEPT ![j] = outcome]
    BY <1>1, <2>1 DEF state, JobState, TypeOK
  <2>4. /\ outcome \in {"open", "completed", "failed"}
        /\ outcome = "failed" => attempts[j] >= MaxAttempts
    BY DEF JobState, NextStatus
  <2>5. Promise!Settle(claim, outcome)
    BY <1>1, <1>2, <2>1, <2>2, <2>3, <2>4 DEF Promise!Settle, state
  <2> QED
    BY <1>1, <2>4, <2>5 DEF Promise!Next
<1> QED
  BY <1>4, <1>5, FinishEffect

(* SyncQueue implements JobClaims, however many drains share a worker id:  *)
(* overlapping enqueues and claims, lapsed leases, lost answers and        *)
(* restarts never give a connection two open jobs, nor let a claim settle  *)
(* a job that another handler has claimed since.                           *)
THEOREM QueueJobsKept == Spec => JobsKept
<1>1. Init => Promise!Init
  BY DEF Init, Promise!Init, JobState, HeldClaims
<1>2. TypeOK /\ RowsWellFormed /\ ClaimsFenced /\ DrainsOpen /\ [Next]_vars
        => [Promise!Next]_(Promise!vars)
  <2> SUFFICES ASSUME TypeOK, RowsWellFormed, ClaimsFenced, DrainsOpen, [Next]_vars
               PROVE  Promise!Next \/ UNCHANGED <<state, connOf, attempts, lockedBy, HeldClaims>>
    BY DEF state, Promise!vars
  <2>1. ASSUME NEW w \in Workers, StartHandler(w) \/ Deadline(w) \/ HandlerReturns(w)
        PROVE  UNCHANGED <<state, connOf, attempts, lockedBy, HeldClaims>>
    BY <2>1 DEF StartHandler, Deadline, HandlerReturns, rowVars, drainVars, state, HeldClaims, ClaimOf
  <2>2. ASSUME NEW d \in Drains, Drain(d), ~ClaimUpdate(d), ~(Finish(d) \/ Refinish(d))
        PROVE  UNCHANGED <<state, connOf, attempts, lockedBy, HeldClaims>>
    <3>1. UNCHANGED <<rowVars, claimNo, retaken>>
      BY <2>2 DEF Drain, ClaimScan, DrainReturns, LockRow, ClaimFails, RunConnection, rowVars
    <3>2. \A e \in Drains : /\ pc'[e] \in Claimed <=> pc[e] \in Claimed
                            /\ pc[e] \in Claimed => task'[e] = task[e]
      BY <2>2 DEF Drain, ClaimScan, DrainReturns, LockRow, ClaimFails, RunConnection, TypeOK
    <3>3. HeldClaims' = HeldClaims
      BY <3>1, <3>2 DEF HeldClaims, ClaimOf
    <3> QED
      BY <3>1, <3>3 DEF rowVars, state
  <2>3. ASSUME NEW j \in Jobs, BackoffElapses(j) \/ LeaseExpires(j)
        PROVE  UNCHANGED <<state, connOf, attempts, lockedBy, HeldClaims>>
    BY <2>3 DEF BackoffElapses, LeaseExpires, drainVars, state, HeldClaims, ClaimOf
  <2>4. ASSUME NEW c \in Conns, HourPasses(c)
        PROVE  UNCHANGED <<state, connOf, attempts, lockedBy, HeldClaims>>
    BY <2>4 DEF HourPasses, rowVars, drainVars, state, HeldClaims, ClaimOf
  <2>5. CASE Crash
    <3>1. HeldClaims' = {}
      BY <2>5 DEF Crash, HeldClaims
    <3>2. Promise!Forget(HeldClaims)
      BY <2>5, <3>1 DEF Crash, Promise!Forget, rowVars
    <3> QED
      BY <3>2 DEF Promise!Next
  <2>6. CASE UNCHANGED vars
    BY <2>6 DEF vars, state, HeldClaims, ClaimOf
  <2> QED
    BY <2>1, <2>2, <2>3, <2>4, <2>5, <2>6, EnqueueKeepsJobs, ClaimKeepsJobs, FinishKeepsJobs
       DEF Next, Handler
<1> QED
  BY <1>1, <1>2, QueueTyped, QueueRowsWellFormed, QueueClaimsFenced, QueueDrainsOpen, PTL
     DEF Spec, JobsKept, Promise!Spec
=============================================================================
