---------------------------- MODULE AuditsProofs ----------------------------
(***************************************************************************)
(* Proofs about the purchased audits, for any number of audits, workers    *)
(* and documents.                                                          *)
(***************************************************************************)
EXTENDS Audits, FiniteSetTheorems, TLAPS

USE AuditAssumption

LEMMA TypeInit == Init => TypeOK
  BY DEF Init, TypeOK, Verdicts, Busy, Docs

LEMMA TypeStep == TypeOK /\ [Next]_vars => TypeOK'
  <1> SUFFICES ASSUME TypeOK, [Next]_vars PROVE TypeOK'
    OBVIOUS
  <1> USE DEF TypeOK, Busy, Docs, docVars, auditVars, historyVars, workerVars
  <1>1. CASE BeginUpload
    BY <1>1 DEF BeginUpload
  <1>2. ASSUME NEW d \in Docs, EndUpload(d) \/ DeleteDocument(d) PROVE TypeOK'
    BY <1>2 DEF EndUpload, DeleteDocument
  <1>3. ASSUME NEW a \in AuditIds, LeaseRunsOut(a) PROVE TypeOK'
    BY <1>3 DEF LeaseRunsOut
  <1>4. ASSUME NEW w \in Workers, NEW a \in AuditIds, RecordPurchase(w, a) PROVE TypeOK'
    BY <1>4 DEF RecordPurchase
  <1>5. ASSUME NEW w \in Workers, Sweep(w) PROVE TypeOK'
    BY <1>5 DEF Sweep
  <1>6. ASSUME NEW w \in Workers, NEW a \in AuditIds, Claim(w, a) PROVE TypeOK'
    <2>1. open \in SUBSET Docs
      BY DEF Docs
    <2>2. uncommitted' \in [AuditIds -> SUBSET Docs]
      BY <1>6, <2>1 DEF Claim
    <2>3. /\ UNCHANGED <<issued, open, stored, usable, outlived, seen, verdict>>
          /\ status' \in [AuditIds -> {"none", "queued", "generating"} \cup Verdicts]
          /\ attemptedAt' \in [AuditIds -> 0..MaxDocs]
          /\ stale' \in [AuditIds -> BOOLEAN]
          /\ pc' \in [Workers -> {"idle", "todo"} \cup Busy]
          /\ job' \in [Workers -> AuditIds]
      BY <1>6 DEF Claim
    <2>4. todo' \in [Workers -> SUBSET AuditIds] /\ faults' \in 0..MaxFaults
      BY <1>6 DEF Claim, Rest, Fault
    <2> QED
      BY <2>2, <2>3, <2>4
  <1>7. ASSUME NEW w \in Workers, NEW a \in AuditIds, Skip(w, a) PROVE TypeOK'
    BY <1>7 DEF Skip, Rest
  <1>8. ASSUME NEW w \in Workers, List(w) PROVE TypeOK'
    <2>1. Newest(stored) \subseteq Docs
      BY DEF Newest, Docs
    <2> QED
      BY <1>8, <2>1 DEF List, GoesWrong, GoToRescue, Fault, Verdicts
  <1>9. ASSUME NEW w \in Workers, Read(w) PROVE TypeOK'
    BY <1>9 DEF Read, Found, GoesWrong, GoToRescue, Fault, Verdicts
  <1>10. ASSUME NEW w \in Workers, Save(w) PROVE TypeOK'
    BY <1>10 DEF Save, Settled, EndAttempt, After, GoesWrong, GoToRescue, Fault, Verdicts
  <1>11. ASSUME NEW w \in Workers, SaveRefused(w) PROVE TypeOK'
    BY <1>11 DEF SaveRefused, GoToRescue, Verdicts
  <1>12. ASSUME NEW w \in Workers, Rescue(w) PROVE TypeOK'
    BY <1>12 DEF Rescue, Settled, EndAttempt, After, Fault, Verdicts
  <1>13. CASE Restart
    BY <1>13 DEF Restart, Fault, Verdicts
  <1>14. CASE UNCHANGED vars
    BY <1>14 DEF vars
  <1> QED
    BY <1>1, <1>2, <1>3, <1>4, <1>5, <1>6, <1>7, <1>8, <1>9, <1>10, <1>11, <1>12, <1>13, <1>14
       DEF Next, Work

(* The tables and the workers' variables have their types.                 *)
THEOREM AuditsTyped == Spec => []TypeOK
  BY TypeInit, TypeStep, PTL DEF Spec

-----------------------------------------------------------------------------
(* A report stays published: only a claim and a save write a status, and a *)
(* ready audit is neither claimable nor in generation.                     *)
LEMMA ReadyStep ==
  ASSUME TypeOK, [Next]_vars, NEW a \in AuditIds, status[a] = "ready"
  PROVE  status'[a] = "ready"
  <1> USE DEF TypeOK, auditVars
  <1>1. ASSUME NEW w \in Workers, NEW b \in AuditIds, RecordPurchase(w, b) PROVE status'[a] = "ready"
    BY <1>1 DEF RecordPurchase
  <1>2. ASSUME NEW w \in Workers, NEW b \in AuditIds, Claim(w, b) PROVE status'[a] = "ready"
    BY <1>2 DEF Claim, Claimable
  <1>3. ASSUME NEW b \in AuditIds, NEW v \in Verdicts, status' = Settled(b, v) PROVE status'[a] = "ready"
    BY <1>3 DEF Settled
  <1>4. ASSUME NEW w \in Workers, Save(w) PROVE status'[a] = "ready"
    BY <1>3, <1>4 DEF Save
  <1>5. ASSUME NEW w \in Workers, Rescue(w) PROVE status'[a] = "ready"
    BY <1>3, <1>5 DEF Rescue
  <1>6. CASE UNCHANGED status
    BY <1>6
  <1>7. UNCHANGED status \/ (\E w \in Workers, b \in AuditIds : RecordPurchase(w, b) \/ Claim(w, b))
          \/ \E w \in Workers : Save(w) \/ Rescue(w)
    BY DEF Next, Work, BeginUpload, EndUpload, DeleteDocument, LeaseRunsOut, Sweep, List, Read,
           SaveRefused, Skip, Restart, vars
  <1> QED
    BY <1>1, <1>2, <1>4, <1>5, <1>6, <1>7

(* A published report stays published (20261005_26_audits.sql:69, :114).   *)
THEOREM AuditsReadyFinal == Spec => ReadyFinal
  <1>1. TypeOK /\ [Next]_vars => [\A a \in AuditIds : status[a] = "ready" => status'[a] = "ready"]_vars
    BY ReadyStep
  <1> QED
    BY <1>1, TypeInit, TypeStep, PTL DEF Spec, ReadyFinal

-----------------------------------------------------------------------------
(* While a worker generates an audit that no attempt outlived its lease on *)
(* nobody else can claim it: its lease runs, and another worker's rescue   *)
(* can only have made it "failed", which is claimable after the same ten   *)
(* minutes.                                                                *)
Rescuer == \A w \in Workers : pc[w] = "rescue" => verdict[w] = "failed"
Leased ==
    \A w \in Workers, a \in AuditIds \ outlived :
        Generates(w, a) => status[a] \in {"generating", "failed"} /\ ~stale[a]
LeaseInv == Rescuer /\ Leased /\ OneGenerator

LEMMA RescuerStep ==
  ASSUME TypeOK, Rescuer, [Next]_vars
  PROVE  Rescuer'
  <1> USE DEF TypeOK, Rescuer, Busy, workerVars, auditVars
  <1>1. ASSUME NEW w \in Workers, List(w) \/ Read(w) \/ Save(w) \/ SaveRefused(w) \/ Rescue(w)
        PROVE  Rescuer'
    BY <1>1 DEF List, Read, Save, SaveRefused, Rescue, GoesWrong, GoToRescue, EndAttempt, After
  <1>2. ASSUME NEW w \in Workers, NEW a \in AuditIds, Claim(w, a) \/ Skip(w, a) \/ RecordPurchase(w, a)
        PROVE  Rescuer'
    BY <1>2 DEF Claim, Skip, RecordPurchase
  <1>3. ASSUME NEW w \in Workers, Sweep(w) PROVE Rescuer'
    BY <1>3 DEF Sweep
  <1>4. CASE Restart
    BY <1>4 DEF Restart
  <1>5. CASE UNCHANGED workerVars
    BY <1>5
  <1> QED
    BY <1>1, <1>2, <1>3, <1>4, <1>5
       DEF Next, Work, BeginUpload, EndUpload, DeleteDocument, LeaseRunsOut, vars

(* Who generates an audit after a step did so before, but for a claim.     *)
LEMMA GeneratorStep ==
  ASSUME TypeOK, [Next]_vars, NEW w \in Workers, NEW a \in AuditIds, Generates(w, a)'
  PROVE  Generates(w, a) \/ (Claim(w, a) /\ pc'[w] = "list")
  <1> USE DEF TypeOK, Generates, Busy, workerVars
  <1>1. ASSUME NEW v \in Workers, List(v) \/ Read(v) \/ Save(v) \/ SaveRefused(v) \/ Rescue(v)
        PROVE  Generates(w, a)
    BY <1>1 DEF List, Read, Save, SaveRefused, Rescue, GoesWrong, GoToRescue, EndAttempt, After
  <1>2. ASSUME NEW v \in Workers, NEW b \in AuditIds, Skip(v, b) \/ RecordPurchase(v, b)
        PROVE  Generates(w, a)
    BY <1>2 DEF Skip, RecordPurchase
  <1>3. ASSUME NEW v \in Workers, NEW b \in AuditIds, Claim(v, b)
        PROVE  Generates(w, a) \/ (Claim(w, a) /\ pc'[w] = "list")
    BY <1>3 DEF Claim
  <1>4. ASSUME NEW v \in Workers, Sweep(v) PROVE Generates(w, a)
    BY <1>4 DEF Sweep
  <1>5. CASE Restart
    BY <1>5 DEF Restart
  <1>6. CASE UNCHANGED workerVars
    BY <1>6
  <1> QED
    BY <1>1, <1>2, <1>3, <1>4, <1>5, <1>6
       DEF Next, Work, BeginUpload, EndUpload, DeleteDocument, LeaseRunsOut, vars

(* What was outlived stays so.                                             *)
LEMMA OutlivedStep ==
  ASSUME [Next]_vars
  PROVE  outlived \subseteq outlived'
  <1>1. ASSUME NEW a \in AuditIds, LeaseRunsOut(a) PROVE outlived \subseteq outlived'
    BY <1>1 DEF LeaseRunsOut
  <1>2. CASE UNCHANGED outlived
    BY <1>2
  <1> QED
    BY <1>1, <1>2
       DEF Next, Work, BeginUpload, EndUpload, DeleteDocument, RecordPurchase, Sweep, Claim, Skip,
           List, Read, Save, SaveRefused, Rescue, Restart, vars, auditVars, historyVars

LEMMA LeasedStep ==
  ASSUME TypeOK, LeaseInv, [Next]_vars,
         NEW w \in Workers, NEW a \in AuditIds \ outlived', Generates(w, a)'
  PROVE  status'[a] \in {"generating", "failed"} /\ ~stale'[a]
  <1> USE DEF TypeOK
  <1>1. CASE Claim(w, a)
    BY <1>1 DEF Claim
  <1>2. CASE Generates(w, a)
    <2>0. a \notin outlived
      BY OutlivedStep
    <2>1. status[a] \in {"generating", "failed"} /\ ~stale[a]
      BY <1>2, <2>0 DEF LeaseInv, Leased
    <2>2. ~Claimable(a) /\ Holds(w, a)
      BY <1>2, <2>1 DEF Claimable, Generates, Holds
    <2>3. ASSUME NEW v \in Workers, NEW b \in AuditIds, RecordPurchase(v, b)
          PROVE  status'[a] = status[a] /\ stale' = stale
      BY <2>1, <2>3 DEF RecordPurchase
    <2>4. ASSUME NEW v \in Workers, NEW b \in AuditIds, Claim(v, b)
          PROVE  status'[a] = status[a] /\ stale'[a] = stale[a]
      BY <2>2, <2>4 DEF Claim
    <2>5. ASSUME NEW b \in AuditIds, LeaseRunsOut(b)
          PROVE  status' = status /\ stale'[a] = stale[a]
      <3>1. a # b
        BY <2>2, <2>5 DEF LeaseRunsOut
      <3> QED
        BY <2>5, <3>1 DEF LeaseRunsOut
    <2>6. ASSUME NEW v \in Workers, Save(v)
          PROVE  status'[a] = status[a] /\ stale' = stale
      <3>1. job[v] # a
        <4>1. pc[v] = "save" /\ (job[v] = a => v = w)
          BY <1>2, <2>0, <2>6 DEF Save, Generates, Busy, LeaseInv, OneGenerator
        <4>2. pc'[v] \in {"idle", "todo", "rescue"}
          BY <2>6 DEF Save, EndAttempt, After, GoesWrong, GoToRescue
        <4> QED
          BY <4>1, <4>2 DEF Generates, Busy
      <3> QED
        BY <2>6, <3>1 DEF Save, Settled
    <2>7. ASSUME NEW v \in Workers, Rescue(v)
          PROVE  status'[a] \in {status[a], "failed"} /\ stale' = stale
      BY <2>7 DEF Rescue, Settled, LeaseInv, Rescuer
    <2>8. CASE UNCHANGED auditVars
      BY <2>1, <2>8 DEF auditVars
    <2> QED
      BY <2>1, <2>3, <2>4, <2>5, <2>6, <2>7, <2>8
         DEF Next, Work, BeginUpload, EndUpload, DeleteDocument, Sweep, List, Read, SaveRefused,
             Skip, Restart, vars, auditVars
  <1> QED
    BY <1>1, <1>2, GeneratorStep

LEMMA GeneratorsStep ==
  ASSUME TypeOK, LeaseInv, [Next]_vars
  PROVE  OneGenerator'
  <1> SUFFICES ASSUME NEW v \in Workers, NEW w \in Workers, NEW a \in AuditIds \ outlived',
                      Generates(v, a)', Generates(w, a)', v # w
               PROVE  FALSE
    BY DEF OneGenerator
  <1>0. a \notin outlived
    BY OutlivedStep
  <1>1. ASSUME NEW x \in Workers, NEW y \in Workers, x # y, Generates(y, a)', Claim(x, a)
        PROVE  FALSE
    <2>1. Generates(y, a) \/ (Claim(y, a) /\ pc'[y] = "list")
      BY <1>1, GeneratorStep
    <2>2. ~Generates(y, a)
      BY <1>0, <1>1 DEF LeaseInv, Leased, Claim, Claimable
    <2>3. pc'[y] = pc[y]
      BY <1>1 DEF Claim, TypeOK
    <2> QED
      BY <2>1, <2>2, <2>3 DEF Claim
  <1>2. Generates(v, a) /\ Generates(w, a)
    BY <1>1, GeneratorStep
  <1> QED
    BY <1>0, <1>2 DEF LeaseInv, OneGenerator

LEMMA LeaseInvInit == Init => LeaseInv
  BY DEF Init, LeaseInv, Rescuer, Leased, OneGenerator, Generates, Busy

LEMMA LeaseInvStep == TypeOK /\ LeaseInv /\ [Next]_vars => LeaseInv'
  <1> SUFFICES ASSUME TypeOK, LeaseInv, [Next]_vars PROVE LeaseInv'
    OBVIOUS
  <1>1. Rescuer'
    BY RescuerStep DEF LeaseInv
  <1>2. Leased'
    BY LeasedStep DEF Leased
  <1> QED
    BY <1>1, <1>2, GeneratorsStep DEF LeaseInv

(* Until an attempt outlives its lease, an audit has one generator.        *)
THEOREM AuditsOneGenerator == Spec => []OneGenerator
  <1>1. Init => TypeOK /\ LeaseInv
    BY TypeInit, LeaseInvInit
  <1>2. TypeOK /\ LeaseInv /\ [Next]_vars => (TypeOK /\ LeaseInv)'
    BY TypeStep, LeaseInvStep
  <1>3. TypeOK /\ LeaseInv => OneGenerator
    BY DEF LeaseInv
  <1> QED
    BY <1>1, <1>2, <1>3, PTL DEF Spec

-----------------------------------------------------------------------------
(* A document that the last attempt on an audit had to know: it is recent  *)
(* and usable, and was committed when the attempt began.                   *)
Passed(d, a) == Recent(d) /\ d <= attemptedAt[a] /\ d \notin uncommitted[a]

(* What was not committed at the claim of an attempt is known, a listing   *)
(* has every document the attempt had to know, and an audit that is about  *)
(* to wait for data has none.                                              *)
Stamped ==
    \A a \in AuditIds :
        attemptedAt[a] <= issued /\ \A d \in open : d > attemptedAt[a] \/ d \in uncommitted[a]
Looked ==
    \A w \in Workers, a \in AuditIds \ outlived, d \in Docs : Generates(w, a) /\ Passed(d, a) =>
        /\ pc[w] = "read" => d \in seen[w]
        /\ ~(pc[w] = "save" /\ verdict[w] = "needs_data")
LookInv == LeaseInv /\ Stamped /\ Looked /\ NothingOverlooked

LEMMA StampedStep ==
  ASSUME TypeOK, Stamped, [Next]_vars
  PROVE  Stamped'
  <1> USE DEF TypeOK, Stamped, Docs
  <1>1. CASE BeginUpload
    BY <1>1 DEF BeginUpload, auditVars, historyVars
  <1>2. ASSUME NEW d \in Docs, EndUpload(d) PROVE Stamped'
    BY <1>2 DEF EndUpload, auditVars, historyVars
  <1>3. ASSUME NEW w \in Workers, NEW a \in AuditIds, Claim(w, a) PROVE Stamped'
    BY <1>3 DEF Claim, docVars
  <1>4. CASE UNCHANGED <<issued, open, attemptedAt, uncommitted>>
    BY <1>4
  <1> QED
    BY <1>1, <1>2, <1>3, <1>4
       DEF Next, Work, DeleteDocument, LeaseRunsOut, RecordPurchase, Sweep, Skip, List, Read, Save,
           SaveRefused, Rescue, Restart, vars, docVars, auditVars, historyVars

(* Only a claim gives an attempt more documents it had to know.            *)
LEMMA PassedStep ==
  ASSUME TypeOK, Stamped, [Next]_vars, NEW a \in AuditIds, NEW d \in Docs,
         \A w \in Workers : ~Claim(w, a), Passed(d, a)'
  PROVE  Passed(d, a)
  <1> USE DEF TypeOK, Passed, Recent, Docs
  <1>1. CASE BeginUpload
    BY <1>1 DEF BeginUpload, auditVars, historyVars, Stamped
  <1>2. ASSUME NEW e \in Docs, EndUpload(e) PROVE Passed(d, a)
    BY <1>2 DEF EndUpload, auditVars, historyVars, Stamped
  <1>3. ASSUME NEW e \in Docs, DeleteDocument(e) PROVE Passed(d, a)
    BY <1>3 DEF DeleteDocument, auditVars, historyVars
  <1>4. ASSUME NEW w \in Workers, NEW b \in AuditIds, Claim(w, b) PROVE Passed(d, a)
    BY <1>4 DEF Claim, docVars
  <1>5. CASE UNCHANGED <<issued, stored, usable, attemptedAt, uncommitted>>
    BY <1>5
  <1> QED
    BY <1>1, <1>2, <1>3, <1>4, <1>5
       DEF Next, Work, LeaseRunsOut, RecordPurchase, Sweep, Skip, List, Read, Save, SaveRefused,
           Rescue, Restart, vars, docVars, auditVars, historyVars

(* Every recent document is among the newest that are listed.              *)
LEMMA RecentIsListed ==
  ASSUME TypeOK, NEW d \in Docs, Recent(d)
  PROVE  d \in Newest(stored)
  <1> DEFINE later == {e \in stored : e > d}
  <1>1. d \in Nat /\ issued \in Nat /\ d <= issued
    BY DEF TypeOK, Recent, Docs
  <1>2. later \subseteq (d + 1)..issued
    BY <1>1 DEF TypeOK
  <1>3. IsFiniteSet((d + 1)..issued) /\ Cardinality((d + 1)..issued) = issued - d
    <2>1. d + 1 \in Int /\ issued \in Int
      BY <1>1
    <2>2. IsFiniteSet((d + 1)..issued) /\ Cardinality((d + 1)..issued)
             = IF d + 1 > issued THEN 0 ELSE issued - (d + 1) + 1
      BY <2>1, FS_Interval, Zenon
    <2> QED
      BY <1>1, <2>2
  <1>4. IsFiniteSet(later) /\ Cardinality(later) <= Cardinality((d + 1)..issued)
    BY <1>2, <1>3, FS_Subset
  <1>5. Cardinality(later) \in Nat
    BY <1>4, FS_CardinalityType
  <1>6. Cardinality(later) < DocLimit
    BY <1>1, <1>3, <1>4, <1>5 DEF Recent
  <1> QED
    BY <1>6 DEF Recent, Newest

(* A generated audit is not claimed again, so a worker's attempt is the    *)
(* last one on its audit.                                                  *)
LEMMA NotClaimedAgain ==
  ASSUME TypeOK, Leased, NEW w \in Workers, NEW a \in AuditIds \ outlived, Generates(w, a)
  PROVE  \A v \in Workers : ~Claim(v, a)
  BY DEF Leased, Claim, Claimable

LEMMA LookedStep ==
  ASSUME TypeOK, LookInv, [Next]_vars,
         NEW w \in Workers, NEW a \in AuditIds \ outlived', NEW d \in Docs, Generates(w, a)', Passed(d, a)'
  PROVE  /\ pc'[w] = "read" => d \in seen'[w]
         /\ ~(pc'[w] = "save" /\ verdict'[w] = "needs_data")
  <1> USE DEF TypeOK
  <1>0. a \notin outlived
    BY OutlivedStep
  <1>1. CASE Claim(w, a) /\ pc'[w] = "list"
    BY <1>1
  <1>2. CASE Generates(w, a)
    <2>1. Passed(d, a)
      BY <1>0, <1>2, NotClaimedAgain, PassedStep DEF LookInv, LeaseInv
    <2>2. /\ pc[w] = "read" => d \in seen[w]
          /\ ~(pc[w] = "save" /\ verdict[w] = "needs_data")
      BY <1>0, <1>2, <2>1 DEF LookInv, Looked
    <2>3. CASE List(w)
      BY <2>1, <2>3, RecentIsListed DEF List, GoesWrong, GoToRescue, Passed
    <2>4. CASE Read(w)
      <3>1. pc[w] = "read" /\ d \in Found(w)
        BY <2>1, <2>2, <2>4 DEF Read, Found, Passed, Recent
      <3> QED
        BY <2>4, <3>1 DEF Read, GoesWrong, GoToRescue
    <2>5. CASE Save(w) \/ SaveRefused(w) \/ Rescue(w)
      BY <2>5 DEF Save, SaveRefused, Rescue, GoesWrong, GoToRescue, EndAttempt, After
    <2>6. ASSUME NEW v \in Workers \ {w}, List(v) \/ Read(v) \/ Save(v) \/ SaveRefused(v) \/ Rescue(v)
          PROVE  pc'[w] = pc[w] /\ seen'[w] = seen[w] /\ verdict'[w] = verdict[w]
      BY <2>6 DEF List, Read, Save, SaveRefused, Rescue, GoesWrong, GoToRescue, EndAttempt
    <2>7. ASSUME NEW v \in Workers, NEW b \in AuditIds, Claim(v, b) \/ Skip(v, b) \/ RecordPurchase(v, b)
          PROVE  /\ pc'[w] \in {pc[w], "idle", "todo", "list"}
                 /\ seen' = seen /\ verdict' = verdict
      BY <2>7 DEF Claim, Skip, RecordPurchase
    <2>8. ASSUME NEW v \in Workers, Sweep(v)
          PROVE  pc'[w] \in {pc[w], "todo"} /\ seen' = seen /\ verdict' = verdict
      BY <2>8 DEF Sweep
    <2>9. CASE Restart
      BY <2>9 DEF Restart
    <2>10. CASE UNCHANGED workerVars
      BY <2>2, <2>10 DEF workerVars
    <2> QED
      BY <2>2, <2>3, <2>4, <2>5, <2>6, <2>7, <2>8, <2>9, <2>10
         DEF Next, Work, BeginUpload, EndUpload, DeleteDocument, LeaseRunsOut, vars, workerVars
  <1> QED
    BY <1>1, <1>2, GeneratorStep

(* An audit comes to wait for data in the save of its generator only.      *)
LEMMA WaitingStep ==
  ASSUME TypeOK, LookInv, [Next]_vars, NEW a \in AuditIds, status'[a] = "needs_data"
  PROVE  /\ \A w \in Workers : ~Claim(w, a)
         /\ \/ status[a] = "needs_data"
            \/ \E w \in Workers : Generates(w, a) /\ pc[w] = "save" /\ verdict[w] = "needs_data"
  <1> USE DEF TypeOK
  <1>1. \A w \in Workers : ~Claim(w, a)
    BY DEF Claim
  <1>2. ASSUME NEW w \in Workers, NEW b \in AuditIds, Claim(w, b) \/ RecordPurchase(w, b)
        PROVE  status[a] = "needs_data"
    BY <1>2 DEF Claim, RecordPurchase
  <1>3. ASSUME NEW w \in Workers, Save(w)
        PROVE  \/ status[a] = "needs_data"
               \/ Generates(w, a) /\ pc[w] = "save" /\ verdict[w] = "needs_data"
    BY <1>3 DEF Save, Settled, Generates, Busy
  <1>4. ASSUME NEW w \in Workers, Rescue(w) PROVE status[a] = "needs_data"
    BY <1>4 DEF Rescue, Settled, LookInv, LeaseInv, Rescuer
  <1>5. CASE UNCHANGED status
    BY <1>1, <1>5
  <1> QED
    BY <1>1, <1>2, <1>3, <1>4, <1>5
       DEF Next, Work, BeginUpload, EndUpload, DeleteDocument, LeaseRunsOut, Sweep, Skip, List, Read,
           SaveRefused, Restart, vars, auditVars

LEMMA LookInvStep == TypeOK /\ LookInv /\ [Next]_vars => LookInv'
  <1> SUFFICES ASSUME TypeOK, LookInv, [Next]_vars PROVE LookInv'
    OBVIOUS
  <1>1. LeaseInv'
    BY LeaseInvStep DEF LookInv
  <1>2. Stamped'
    BY StampedStep DEF LookInv
  <1>3. Looked'
    BY LookedStep DEF Looked
  <1>4. NothingOverlooked'
    <2> SUFFICES ASSUME NEW a \in AuditIds \ outlived', NEW d \in Docs, status'[a] = "needs_data", Passed(d, a)'
                 PROVE  FALSE
      BY <1>2, TypeStep DEF NothingOverlooked, Passed, Recent, TypeOK, Docs
    <2>0. a \notin outlived
      BY OutlivedStep
    <2>1. Passed(d, a)
      BY WaitingStep, PassedStep DEF LookInv
    <2>2. status[a] # "needs_data"
      BY <2>0, <2>1 DEF LookInv, NothingOverlooked, Passed, TypeOK, Docs
    <2> QED
      BY <2>0, <2>1, <2>2, WaitingStep DEF LookInv, Looked
  <1> QED
    BY <1>1, <1>2, <1>3, <1>4 DEF LookInv

LEMMA LookInvInit == Init => LookInv
  BY LeaseInvInit DEF Init, LookInv, Stamped, Looked, NothingOverlooked, Generates, Busy

(* An audit that waits for data has not overlooked any document that was   *)
(* committed when it was claimed, unless an attempt outlived its lease.    *)
THEOREM AuditsNothingOverlooked == Spec => []NothingOverlooked
  <1>1. Init => TypeOK /\ LookInv
    BY TypeInit, LookInvInit
  <1>2. TypeOK /\ LookInv /\ [Next]_vars => (TypeOK /\ LookInv)'
    BY TypeStep, LookInvStep
  <1>3. TypeOK /\ LookInv => NothingOverlooked
    BY DEF LookInv
  <1> QED
    BY <1>1, <1>2, <1>3, PTL DEF Spec
=============================================================================
