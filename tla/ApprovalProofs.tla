---------------------------- MODULE ApprovalProofs ----------------------------
(***************************************************************************)
(* Proofs about the two models in which what is done waits for a person's  *)
(* approval: the tenant pipeline (Spec), for any number of records, runs   *)
(* and executors, and the drafted reply (ReplySpec), for every set of      *)
(* requests and bodies and every number of faults.  They share no state.   *)
(***************************************************************************)
EXTENDS EnginePipeline, EmailApproval, TLAPS

-----------------------------------------------------------------------------
(* Typing *)

(* Every variable of the pipeline stays in its type, and a run that works  *)
(* on an approval has a record left.                                       *)
THEOREM PipelineTyped == Spec => []TypeOK
<1>1. Init => TypeOK
  BY PipelineAssumption DEF Init, TypeOK, Seqs, Rows
<1>2. TypeOK /\ [Next]_vars => TypeOK'
  <2> SUFFICES ASSUME TypeOK, [Next]_vars PROVE TypeOK'
    OBVIOUS
  <2> USE PipelineAssumption DEF TypeOK, recordVars, approvalVars, runVars, executorVars, Busy
  <2>1. ASSUME NEW k \in Kinds, InsertRecord(k) PROVE TypeOK'
    BY <2>1 DEF InsertRecord, Seqs
  <2>2. ASSUME NEW s \in Seqs, NEW o \in {"visible", "gone"}, EndTransaction(s, o) PROVE TypeOK'
    BY <2>2 DEF EndTransaction
  <2>3. ASSUME NEW r \in Runs, Run(r) PROVE TypeOK'
    <3>1. CASE FindDue(r)
      BY <3>1 DEF FindDue
    <3>2. CASE Read(r)
      BY <3>2 DEF Read, After, Visible
    <3>3. CASE Advance(r)
      BY <3>3 DEF Advance, Advanced, Ended
    <3>4. ASSUME NEW s \in Seqs, Propose(r, s) PROVE TypeOK'
      BY <3>4 DEF Propose, NextRecord, Current
    <3>5. ASSUME NEW s \in Seqs, Lookup(r, s) PROVE TypeOK'
      <4>1. CASE \E n \in 1..MaxCopies : approval[<<s, n>>] = "pending"
        <5>1. NextRecord(r, s)
          BY <3>5, <4>1 DEF Lookup
        <5> QED
          BY <3>5, <5>1 DEF Lookup, NextRecord
      <4>2. CASE ~\E n \in 1..MaxCopies : approval[<<s, n>>] = "pending"
        <5>1. pc'[r] = "insert" /\ UNCHANGED todo /\ pc' \in [Runs -> {"off", "due"} \cup Busy]
          BY <3>5, <4>2 DEF Lookup
        <5>2. todo[r] # {} /\ \A q \in Runs : q # r => pc'[q] = pc[q]
          BY <3>5, <4>2 DEF Lookup, Current
        <5> QED
          BY <3>5, <5>1, <5>2 DEF Lookup
      <4> QED
        BY <4>1, <4>2
    <3>6. ASSUME NEW s \in Seqs, InsertApproval(r, s) PROVE TypeOK'
      <4>1. approval' \in [Rows -> {"free", "pending"} \cup Verdicts]
        BY <3>6 DEF InsertApproval, Rows
      <4> QED
        BY <3>6, <4>1 DEF InsertApproval, NextRecord, Current
    <3> QED
      BY <2>3, <3>1, <3>2, <3>3, <3>4, <3>5, <3>6 DEF Run
  <2>4. ASSUME NEW r \in Runs, RunFails(r) PROVE TypeOK'
    BY <2>4 DEF RunFails, Ended, Fault
  <2>5. ASSUME NEW a \in Rows, NEW v \in Verdicts, Decide(a, v) PROVE TypeOK'
    BY <2>5 DEF Decide
  <2>6. ASSUME NEW x \in Executors, NEW a \in Rows, Claim(x, a) PROVE TypeOK'
    BY <2>6 DEF Claim, Fault
  <2>7. ASSUME NEW x \in Executors, NEW a \in Rows, CarryOut(x, a) PROVE TypeOK'
    BY <2>7 DEF CarryOut
  <2>8. ASSUME NEW x \in Executors, NEW a \in Rows, RecordProof(x, a) PROVE TypeOK'
    BY <2>8 DEF RecordProof
  <2>9. ASSUME NEW x \in Executors, ExecutorFails(x) PROVE TypeOK'
    BY <2>9 DEF ExecutorFails, Fault
  <2>10. CASE UNCHANGED vars
    BY <2>10 DEF vars
  <2> QED
    BY <2>1, <2>2, <2>3, <2>4, <2>5, <2>6, <2>7, <2>8, <2>9, <2>10 DEF Next
<1> QED
  BY <1>1, <1>2, PTL DEF Spec

-----------------------------------------------------------------------------
(* The cursor *)

(* Only Advance writes the cursor, and only upwards.                       *)
LEMMA CursorStep ==
    ASSUME TypeOK, [Next]_vars
    PROVE  cursor' \in 0..MaxSeq /\ cursor' >= cursor
<1> USE DEF TypeOK
<1>1. ASSUME NEW r \in Runs, Advance(r) PROVE cursor' \in 0..MaxSeq /\ cursor' >= cursor
  BY <1>1 DEF Advance, Advanced
<1>2. ASSUME NEW r \in Runs, Run(r), ~Advance(r) PROVE cursor' = cursor
  BY <1>2 DEF Run, FindDue, Read, Propose, Lookup, InsertApproval
<1>3. ASSUME NEW r \in Runs, RunFails(r) PROVE cursor' = cursor
  BY <1>3 DEF RunFails
<1>4. ASSUME NEW x \in Executors, NEW a \in Rows,
             Claim(x, a) \/ CarryOut(x, a) \/ RecordProof(x, a) PROVE cursor' = cursor
  BY <1>4 DEF Claim, CarryOut, RecordProof
<1> QED
  BY <1>1, <1>2, <1>3, <1>4
  DEF Next, vars, InsertRecord, EndTransaction, Decide, ExecutorFails

(* The cursor of a tenant never moves backwards.                           *)
THEOREM PipelineCursorForward == Spec => CursorForward
<1>1. TypeOK /\ [Next]_vars => [cursor' >= cursor]_vars
  BY CursorStep
<1> QED
  BY <1>1, PipelineTyped, PTL DEF Spec, CursorForward

-----------------------------------------------------------------------------
(* Nothing is passed over *)

(* Up to c what is visible is handled, but for what committed too late.    *)
Passed(c) == \A s \in Seqs \ late : stored[s] = "visible" /\ s <= c => Handled(s)

(* Only a seq that was handed out has a record.                            *)
SeqOrder == \A s \in Seqs : s >= nextSeq => stored[s] = "none"

RunPasses(r) ==
    /\ from[r] <= cursor
    /\ pc[r] = "due" => Passed(from[r])
    /\ pc[r] \in Busy =>
         /\ \A s \in todo[r] : stored[s] = "visible"
         /\ \A s \in Seqs \ late :
              stored[s] = "visible" /\ s <= upto[r] => s \in todo[r] \/ Handled(s)
    /\ pc[r] \in {"gate", "insert"} =>
         \A s \in Seqs : Current(r, s) /\ Routed(s) => s \in placed

PassInv == SeqOrder /\ Passed(cursor) /\ \A r \in Runs : RunPasses(r)

(* Seqs are handed out in order.                                           *)
LEMMA OrderStep ==
    ASSUME TypeOK, SeqOrder, [Next]_vars
    PROVE  SeqOrder'
<1> USE DEF TypeOK, SeqOrder
<1>1. ASSUME NEW k \in Kinds, InsertRecord(k) PROVE SeqOrder'
  BY <1>1, PipelineAssumption DEF InsertRecord, Seqs
<1>2. ASSUME NEW s \in Seqs, NEW o \in {"visible", "gone"}, EndTransaction(s, o) PROVE SeqOrder'
  BY <1>2, PipelineAssumption DEF EndTransaction, Seqs
<1>3. ASSUME NEW r \in Runs, Run(r) \/ RunFails(r) PROVE UNCHANGED <<nextSeq, stored>>
  BY <1>3 DEF Run, RunFails, FindDue, Read, Advance, Propose, Lookup, InsertApproval, recordVars
<1>4. ASSUME NEW x \in Executors, NEW a \in Rows,
             Claim(x, a) \/ CarryOut(x, a) \/ RecordProof(x, a) PROVE UNCHANGED <<nextSeq, stored>>
  BY <1>4 DEF Claim, CarryOut, RecordProof, recordVars
<1> QED
  BY <1>1, <1>2, <1>3, <1>4 DEF Next, vars, Decide, ExecutorFails, recordVars

(* A record keeps its kind and its task.                                   *)
LEMMA RecordStep ==
    ASSUME TypeOK, SeqOrder, [Next]_vars, NEW s \in Seqs, stored[s] # "none"
    PROVE  kind'[s] = kind[s] /\ placed \subseteq placed'
<1> USE DEF TypeOK
<1>1. kind'[s] = kind[s]
  <2>1. ASSUME NEW k \in Kinds, InsertRecord(k) PROVE kind'[s] = kind[s]
    BY <2>1, PipelineAssumption DEF InsertRecord, SeqOrder, Seqs
  <2>2. ASSUME NEW r \in Runs, Run(r) \/ RunFails(r) PROVE kind' = kind
    BY <2>2 DEF Run, RunFails, FindDue, Read, Advance, Propose, Lookup, InsertApproval, recordVars
  <2>3. ASSUME NEW x \in Executors, NEW a \in Rows,
               Claim(x, a) \/ CarryOut(x, a) \/ RecordProof(x, a) PROVE kind' = kind
    BY <2>3 DEF Claim, CarryOut, RecordProof, recordVars
  <2> QED
    BY <2>1, <2>2, <2>3 DEF Next, vars, EndTransaction, Decide, ExecutorFails, recordVars
<1>2. placed \subseteq placed'
  <2>1. ASSUME NEW r \in Runs, Run(r) \/ RunFails(r) PROVE placed \subseteq placed'
    BY <2>1 DEF Run, RunFails, FindDue, Read, Advance, Propose, Lookup, InsertApproval
  <2>2. ASSUME NEW x \in Executors, NEW a \in Rows,
               Claim(x, a) \/ CarryOut(x, a) \/ RecordProof(x, a) PROVE placed' = placed
    BY <2>2 DEF Claim, CarryOut, RecordProof
  <2> QED
    BY <2>1, <2>2 DEF Next, vars, InsertRecord, EndTransaction, Decide, ExecutorFails
<1> QED
  BY <1>1, <1>2

(* A handled record stays handled.                                         *)
LEMMA HandledStep ==
    ASSUME TypeOK, SeqOrder, [Next]_vars, NEW s \in Seqs, stored[s] # "none", Handled(s)
    PROVE  Handled(s)'
<1> USE DEF TypeOK
<1>1. kind'[s] = kind[s] /\ placed \subseteq placed'
  BY RecordStep
<1>3. ASSUME NEW a \in Rows, approval[a] # "free" PROVE approval'[a] # "free"
  <2>1. ASSUME NEW r \in Runs, NEW t \in Seqs, InsertApproval(r, t) PROVE approval'[a] # "free"
    BY <1>3, <2>1 DEF InsertApproval, Rows
  <2>2. ASSUME NEW r \in Runs, Run(r), ~\E t \in Seqs : InsertApproval(r, t)
        PROVE approval' = approval
    BY <2>2 DEF Run, FindDue, Read, Advance, Propose, Lookup, approvalVars
  <2>3. ASSUME NEW r \in Runs, RunFails(r) PROVE approval' = approval
    BY <2>3 DEF RunFails, approvalVars
  <2>4. ASSUME NEW b \in Rows, NEW v \in Verdicts, Decide(b, v) PROVE approval'[a] # "free"
    BY <1>3, <2>4 DEF Decide, Verdicts
  <2>5. ASSUME NEW x \in Executors, NEW b \in Rows,
               Claim(x, b) \/ CarryOut(x, b) \/ RecordProof(x, b) PROVE approval' = approval
    BY <2>5 DEF Claim, CarryOut, RecordProof, approvalVars
  <2> QED
    BY <1>3, <2>1, <2>2, <2>3, <2>4, <2>5
    DEF Next, vars, InsertRecord, EndTransaction, ExecutorFails, approvalVars
<1> QED
  BY <1>1, <1>3 DEF Handled, Routed, Gated, Rows

(* A visible record stays visible; one that becomes visible although the   *)
(* cursor or a run is past it is late; and a late one stays late.          *)
LEMMA VisibleStep ==
    ASSUME TypeOK, SeqOrder, [Next]_vars
    PROVE  /\ late \subseteq late'
           /\ \A s \in Seqs : stored[s] = "visible" => stored'[s] = "visible"
           /\ \A s \in Seqs : stored'[s] = "visible" /\ ReadPast(s) => stored[s] = "visible" \/ s \in late'
<1> USE DEF TypeOK
<1>1. CASE \E k \in Kinds : InsertRecord(k)
  BY <1>1, PipelineAssumption DEF InsertRecord, SeqOrder, Seqs
<1>2. CASE \E s \in Seqs, o \in {"visible", "gone"} : EndTransaction(s, o)
  BY <1>2 DEF EndTransaction
<1>3. ASSUME NEW r \in Runs, Run(r) \/ RunFails(r) PROVE UNCHANGED <<stored, late>>
  BY <1>3 DEF Run, RunFails, FindDue, Read, Advance, Propose, Lookup, InsertApproval, recordVars
<1>4. ASSUME NEW x \in Executors, NEW a \in Rows,
             Claim(x, a) \/ CarryOut(x, a) \/ RecordProof(x, a) PROVE UNCHANGED <<stored, late>>
  BY <1>4 DEF Claim, CarryOut, RecordProof, recordVars
<1>5. CASE UNCHANGED <<stored, late>>
  BY <1>5
<1> QED
  BY <1>1, <1>2, <1>3, <1>4, <1>5 DEF Next, vars, Decide, ExecutorFails, recordVars

(* What the cursor has passed stays passed.                                *)
LEMMA PassedStep ==
    ASSUME TypeOK, SeqOrder, [Next]_vars, NEW c \in 0..MaxSeq, c <= cursor, Passed(c)
    PROVE  \A s \in Seqs \ late' : stored'[s] = "visible" /\ s <= c => Handled(s)'
<1> SUFFICES ASSUME NEW s \in Seqs \ late', stored'[s] = "visible", s <= c PROVE Handled(s)'
  OBVIOUS
<1>1. ReadPast(s)
  BY DEF ReadPast, TypeOK, Seqs
<1>2. stored[s] = "visible" /\ s \notin late
  BY <1>1, VisibleStep
<1>3. Handled(s)
  BY <1>2 DEF Passed
<1> QED
  BY <1>2, <1>3, HandledStep

(* A run that does not move keeps its promises.                            *)
LEMMA IdleRunStep ==
    ASSUME TypeOK, SeqOrder, [Next]_vars, NEW r \in Runs, RunPasses(r),
           pc'[r] = pc[r], from'[r] = from[r], upto'[r] = upto[r], todo'[r] = todo[r]
    PROVE  RunPasses(r)'
<1> USE DEF TypeOK
<1>0. from'[r] <= cursor'
  <2>1. cursor' \in 0..MaxSeq /\ cursor' >= cursor
    BY CursorStep
  <2> QED
    BY <2>1 DEF RunPasses
<1>1. pc[r] = "due" => Passed(from[r])'
  <2> SUFFICES ASSUME pc[r] = "due" PROVE Passed(from[r])'
    OBVIOUS
  <2>1. from[r] \in 0..MaxSeq /\ from[r] <= cursor /\ Passed(from[r])
    BY DEF RunPasses
  <2> QED
    BY <2>1, PassedStep DEF Passed
<1>2. ASSUME pc[r] \in Busy, NEW s \in todo[r] PROVE stored'[s] = "visible"
  BY <1>2, VisibleStep DEF RunPasses
<1>3. ASSUME pc[r] \in Busy, NEW s \in Seqs \ late', stored'[s] = "visible", s <= upto[r]
      PROVE s \in todo[r] \/ Handled(s)'
  <2>1. stored[s] = "visible" /\ s \notin late
    BY <1>3, VisibleStep DEF ReadPast
  <2>2. s \in todo[r] \/ Handled(s)
    BY <1>3, <2>1 DEF RunPasses
  <2> QED
    BY <2>1, <2>2, HandledStep
<1>4. ASSUME pc[r] \in {"gate", "insert"}, NEW s \in Seqs, Current(r, s), Routed(s)'
      PROVE s \in placed'
  <2>1. stored[s] # "none"
    BY <1>4 DEF RunPasses, Current, Busy
  <2>2. Routed(s)
    BY <1>4, <2>1, RecordStep DEF Routed
  <2> QED
    BY <1>4, <2>1, <2>2, RecordStep DEF RunPasses
<1>5. \A s \in Seqs : Current(r, s)' <=> Current(r, s)
  BY DEF Current
<1> QED
  BY <1>0, <1>1, <1>2, <1>3, <1>4, <1>5 DEF RunPasses, Busy

(* A run that moves keeps its promises.                                    *)
LEMMA MovingRunStep ==
    ASSUME TypeOK, PassInv, NEW r \in Runs, Run(r), [Next]_vars
    PROVE  RunPasses(r)' /\ Passed(cursor)'
<1> USE DEF TypeOK
<1>0. RunPasses(r) /\ Passed(cursor) /\ SeqOrder /\ cursor \in 0..MaxSeq
  BY DEF PassInv
<1>00. late' = late /\ from[r] <= cursor
  BY <1>0 DEF Run, FindDue, Read, Advance, Propose, Lookup, InsertApproval, recordVars, RunPasses
<1>1. CASE FindDue(r)
  <2>1. UNCHANGED <<stored, kind, placed, approval, cursor>> /\ from'[r] = cursor /\ pc'[r] = "due"
    BY <1>1 DEF FindDue, recordVars, approvalVars
  <2>2. Passed(cursor)' /\ Passed(from[r])'
    BY <1>0, <1>00, <2>1 DEF Passed, Handled, Routed, Gated
  <2> QED
    BY <2>1, <2>2 DEF RunPasses, Busy
<1>2. CASE Read(r)
  <2>1. UNCHANGED <<stored, kind, placed, approval, cursor, from>> /\ pc'[r] = "work"
    BY <1>2 DEF Read, recordVars, approvalVars
  <2>2. PICK S \in SUBSET After(from[r]) : \E m \in 0..MaxSeq :
            /\ FirstAfter(from[r], S) /\ IsNextCursor(m, from[r], S)
            /\ todo' = [todo EXCEPT ![r] = S]
            /\ upto' = [upto EXCEPT ![r] = m]
    BY <1>2 DEF Read
  <2>3. PICK m \in 0..MaxSeq :
            /\ FirstAfter(from[r], S) /\ IsNextCursor(m, from[r], S)
            /\ todo' = [todo EXCEPT ![r] = S]
            /\ upto' = [upto EXCEPT ![r] = m]
    BY <2>2
  <2>4. Passed(from[r]) /\ from[r] \in 0..MaxSeq
    BY <1>0, <1>2 DEF RunPasses, Read
  <2>5. \A s \in S : s \in Seqs /\ stored[s] = "visible" /\ s <= m
    BY <2>3 DEF After, Visible, IsNextCursor
  <2>7. ASSUME NEW s \in Seqs \ late, stored[s] = "visible", s <= m, s \notin S PROVE Handled(s)
    <3>1. CASE s <= from[r]
      BY <2>4, <2>7, <3>1 DEF Passed
    <3>2. CASE s > from[r]
      <4>1. s \in After(from[r]) \ S
        BY <2>7, <3>2 DEF After, Visible
      <4>2. S # {}
        BY <2>3, <2>7, <3>2, <2>4 DEF IsNextCursor, Seqs
      <4>3. m \in S
        BY <2>3, <4>2 DEF IsNextCursor
      <4> QED
        BY <2>3, <2>7, <4>1, <4>3, <2>5 DEF FirstAfter, Seqs
    <3> QED
      BY <3>1, <3>2, <2>4 DEF Seqs
  <2>8. todo'[r] = S /\ upto'[r] = m
    BY <2>3
  <2>9. \A s \in Seqs : Handled(s)' <=> Handled(s)
    BY <2>1 DEF Handled, Routed, Gated
  <2> QED
    BY <1>0, <1>00, <2>1, <2>5, <2>7, <2>8, <2>9 DEF RunPasses, Passed, Busy
<1>3. CASE Advance(r)
  <2>1. UNCHANGED <<stored, kind, placed, approval>> /\ pc'[r] = "off" /\ from'[r] = 0
    BY <1>3 DEF Advance, Ended, recordVars, approvalVars
  <2>2. Passed(upto[r])
    BY <1>0, <1>3 DEF Advance, RunPasses, Passed, Busy
  <2>3. cursor' \in {cursor, upto[r]}
    BY <1>3 DEF Advance, Advanced
  <2>4. Passed(cursor')
    BY <1>0, <2>2, <2>3
  <2>5. 0 <= cursor'
    BY <1>0, <2>3
  <2> QED
    BY <1>00, <2>1, <2>4, <2>5 DEF RunPasses, Busy, Passed, Handled, Routed, Gated
<1>4. ASSUME NEW s \in Seqs, Propose(r, s) \/ Lookup(r, s) \/ InsertApproval(r, s)
      PROVE RunPasses(r)' /\ Passed(cursor)'
  <2>1. UNCHANGED <<stored, kind, cursor, upto, from>> /\ pc[r] \in Busy /\ Current(r, s)
    BY <1>4 DEF Propose, Lookup, InsertApproval, recordVars, Busy
  <2>2. Passed(cursor)'
    BY <1>0, <2>1, PassedStep DEF Passed
  <2>3. \A t \in Seqs \ late : stored[t] = "visible" /\ t <= upto[r] => t \in todo[r] \/ Handled(t)'
    BY <1>0, <2>1, HandledStep DEF RunPasses
  <2>4. stored[s] # "none"
    BY <1>0, <2>1 DEF RunPasses, Current
  <2>5. pc[r] \in {"gate", "insert"} /\ Routed(s) => s \in placed
    BY <1>0, <2>1 DEF RunPasses
  <2>6. CASE NextRecord(r, s)
    <3>1. Handled(s)'
      <4>1. Routed(s) => s \in placed'
        BY <1>4, <2>5 DEF Propose, Lookup, InsertApproval
      <4>2. Gated(s) => \E n \in 1..MaxCopies : approval'[<<s, n>>] # "free"
        <5>1. CASE Propose(r, s)
          BY <2>6, <5>1 DEF Propose, NextRecord
        <5>2. CASE Lookup(r, s)
          BY <2>6, <5>2 DEF Lookup, NextRecord, approvalVars
        <5>3. CASE InsertApproval(r, s)
          <6>1. CASE \E n \in 1..MaxCopies :
                       IsFirstFree(s, n) /\ approval' = [approval EXCEPT ![<<s, n>>] = "pending"]
            <7>1. PICK n \in 1..MaxCopies : approval' = [approval EXCEPT ![<<s, n>>] = "pending"]
              BY <6>1
            <7>2. approval'[<<s, n>>] = "pending"
              BY <7>1 DEF Rows
            <7> QED
              BY <7>2
          <6>2. CASE (\A n \in 1..MaxCopies : approval[<<s, n>>] # "free") /\ UNCHANGED approval
            <7>1. 1 \in 1..MaxCopies
              BY PipelineAssumption
            <7> QED
              BY <6>2, <7>1
          <6> QED
            BY <5>3, <6>1, <6>2 DEF InsertApproval
        <5> QED
          BY <1>4, <5>1, <5>2, <5>3
      <4> QED
        BY <2>1, <4>1, <4>2 DEF Handled, Routed, Gated
    <3>2. pc'[r] = "work" /\ todo'[r] = todo[r] \ {s}
      BY <2>6 DEF NextRecord
    <3> QED
      BY <1>0, <1>00, <2>1, <2>2, <2>3, <3>1, <3>2 DEF RunPasses, Busy
  <2>7. CASE ~NextRecord(r, s)
    <3>1. todo' = todo /\ pc'[r] \in {"gate", "insert"}
      BY <1>4, <2>7 DEF Propose, Lookup, InsertApproval
    <3>2. Routed(s) => s \in placed'
      BY <1>4, <2>5 DEF Propose, Lookup, InsertApproval
    <3>3. ASSUME NEW t \in Seqs, Current(r, t)', Routed(t)' PROVE t \in placed'
      BY <2>1, <3>1, <3>2, <3>3 DEF Current, Routed, Seqs
    <3> QED
      BY <1>0, <1>00, <2>1, <2>2, <2>3, <3>1, <3>3 DEF RunPasses, Busy
  <2> QED
    BY <2>6, <2>7
<1> QED
  BY <1>1, <1>2, <1>3, <1>4 DEF Run

(* The cursor never passes a record whose task or approval is missing, for *)
(* any number of overlapping runs and whatever order inserts commit in,    *)
(* but for a record that committed when a run was already past it.         *)
THEOREM PipelineNothingPassedOver == Spec => []NothingPassedOver
<1>1. Init => PassInv
  BY PipelineAssumption DEF Init, PassInv, SeqOrder, Passed, RunPasses, Seqs, Busy
<1>2. TypeOK /\ PassInv /\ [Next]_vars => PassInv'
  <2> SUFFICES ASSUME TypeOK, PassInv, [Next]_vars PROVE PassInv'
    OBVIOUS
  <2>1. SeqOrder'
    BY OrderStep DEF PassInv
  <2>2. Passed(cursor)'
    <3>1. CASE \E r \in Runs : Run(r)
      BY <3>1, MovingRunStep
    <3>2. CASE ~\E r \in Runs : Run(r)
      <4>1. ASSUME NEW r \in Runs, RunFails(r) PROVE cursor' = cursor
        BY <4>1 DEF RunFails
      <4>2. ASSUME NEW x \in Executors, NEW a \in Rows,
                   Claim(x, a) \/ CarryOut(x, a) \/ RecordProof(x, a) PROVE cursor' = cursor
        BY <4>2 DEF Claim, CarryOut, RecordProof
      <4>3. cursor' = cursor
        BY <3>2, <4>1, <4>2 DEF Next, vars, InsertRecord, EndTransaction, Decide, ExecutorFails
      <4>4. cursor \in 0..MaxSeq /\ Passed(cursor) /\ SeqOrder
        BY DEF TypeOK, PassInv
      <4> QED
        BY <4>3, <4>4, PassedStep DEF Passed
    <3> QED
      BY <3>1, <3>2
  <2>3. ASSUME NEW r \in Runs PROVE RunPasses(r)'
    <3>0. RunPasses(r) /\ SeqOrder
      BY DEF PassInv
    <3>1. CASE Run(r)
      BY <3>1, MovingRunStep
    <3>2. CASE RunFails(r)
      BY <3>2 DEF RunFails, Ended, RunPasses, Busy, TypeOK
    <3>3. CASE ~Run(r) /\ ~RunFails(r)
      <4>1. ASSUME NEW q \in Runs, q # r, Run(q) \/ RunFails(q)
            PROVE pc'[r] = pc[r] /\ from'[r] = from[r] /\ upto'[r] = upto[r] /\ todo'[r] = todo[r]
        BY <4>1 DEF Run, RunFails, FindDue, Read, Advance, Propose, Lookup, InsertApproval,
                    NextRecord, Ended, TypeOK
      <4>2. ASSUME NEW x \in Executors, NEW a \in Rows,
                   Claim(x, a) \/ CarryOut(x, a) \/ RecordProof(x, a) PROVE UNCHANGED runVars
        BY <4>2 DEF Claim, CarryOut, RecordProof
      <4>3. pc'[r] = pc[r] /\ from'[r] = from[r] /\ upto'[r] = upto[r] /\ todo'[r] = todo[r]
        BY <3>3, <4>1, <4>2
        DEF Next, vars, runVars, InsertRecord, EndTransaction, Decide, ExecutorFails
      <4> QED
        BY <3>0, <4>3, IdleRunStep
    <3> QED
      BY <3>1, <3>2, <3>3
  <2> QED
    BY <2>1, <2>2, <2>3 DEF PassInv
<1>3. PassInv => NothingPassedOver
  BY DEF PassInv, Passed, NothingPassedOver, Visible
<1> QED
  BY <1>1, <1>2, <1>3, PipelineTyped, PTL DEF Spec

-----------------------------------------------------------------------------
(* Approvals are carried out once *)

(* Claimed means approved; what an executor holds is claimed and not done, *)
(* what it has done was done once; no two executors hold the same.         *)
Carried(a) ==
    /\ a \in claimed => approval[a] = "approved"
    /\ a \notin claimed => effects[a] = 0
    /\ effects[a] <= 1
    /\ a \in proven => effects[a] = 1
    /\ \A x \in Executors :
         /\ a \in hand[x] => a \in claimed /\ effects[a] = 0
         /\ a \in done[x] => effects[a] = 1
    /\ \A x, y \in Executors : a \in hand[x] /\ a \in hand[y] => x = y

CarryInv == \A a \in Rows : Carried(a)

(* An approval is carried out at most once, only as the client approved    *)
(* it, and its proof is recorded only after that.                          *)
THEOREM PipelineCarriedOutOnce == Spec => []CarriedOutOnce
<1>1. Init => CarryInv
  BY DEF Init, CarryInv, Carried
<1>2. TypeOK /\ CarryInv /\ [Next]_vars => CarryInv'
  <2> SUFFICES ASSUME TypeOK, CarryInv, [Next]_vars, NEW a \in Rows PROVE Carried(a)'
    BY DEF CarryInv
  <2>0. Carried(a)
    BY DEF CarryInv
  <2> USE DEF TypeOK, Carried
  <2>1. CASE UNCHANGED <<approval, claimed, proven, effects, hand, done>>
    BY <2>0, <2>1
  <2>2. ASSUME NEW r \in Runs, NEW s \in Seqs, InsertApproval(r, s) PROVE Carried(a)'
    <3>1. a \in claimed => approval'[a] = "approved"
      BY <2>0, <2>2 DEF InsertApproval, IsFirstFree, Rows
    <3> QED
      BY <2>0, <2>2, <3>1 DEF InsertApproval, executorVars
  <2>3. ASSUME NEW b \in Rows, NEW v \in Verdicts, Decide(b, v) PROVE Carried(a)'
    BY <2>0, <2>3 DEF Decide, executorVars
  <2>4. ASSUME NEW z \in Executors, NEW b \in Rows, Claim(z, b) PROVE Carried(a)'
    BY <2>0, <2>4 DEF Claim, Claimable
  <2>5. ASSUME NEW z \in Executors, NEW b \in Rows, CarryOut(z, b) PROVE Carried(a)'
    BY <2>0, <2>5 DEF CarryOut, approvalVars, CarryInv
  <2>6. ASSUME NEW z \in Executors, NEW b \in Rows, RecordProof(z, b) PROVE Carried(a)'
    BY <2>0, <2>6 DEF RecordProof, CarryInv
  <2>7. ASSUME NEW z \in Executors, ExecutorFails(z) PROVE Carried(a)'
    BY <2>0, <2>7 DEF ExecutorFails, approvalVars
  <2>8. ASSUME NEW r \in Runs, Run(r) \/ RunFails(r), ~\E s \in Seqs : InsertApproval(r, s)
        PROVE UNCHANGED <<approval, claimed, proven, effects, hand, done>>
    BY <2>8 DEF Run, RunFails, FindDue, Read, Advance, Propose, Lookup, approvalVars, executorVars
  <2>9. ASSUME (\E k \in Kinds : InsertRecord(k))
               \/ (\E s \in Seqs, o \in {"visible", "gone"} : EndTransaction(s, o)) \/ UNCHANGED vars
        PROVE UNCHANGED <<approval, claimed, proven, effects, hand, done>>
    BY <2>9 DEF InsertRecord, EndTransaction, vars, approvalVars, executorVars
  <2> QED
    BY <2>1, <2>2, <2>3, <2>4, <2>5, <2>6, <2>7, <2>8, <2>9 DEF Next
<1>3. CarryInv => CarriedOutOnce
  BY DEF CarryInv, Carried, CarriedOutOnce
<1> QED
  BY <1>1, <1>2, <1>3, PipelineTyped, PTL DEF Spec

-----------------------------------------------------------------------------
(* The drafted reply, as long as no send outlives the lease of its claim   *)

USE ApprovalAssumption DEF ClaimableStatuses, Holding, rowVars

(* Every reachable state is well typed.                                    *)
THEOREM ApprovalTyped == ReplySpec => []ReplyTypeOK
<1>1. ReplyInit => ReplyTypeOK
  <2> SUFFICES ASSUME ReplyInit PROVE ReplyTypeOK
    OBVIOUS
  <2>1. body \in [Requests -> Bodies]
    BY DEF ReplyInit
  <2>2. replyPc \in [Requests -> {"new", "claim", "takeover", "done"} \cup Holding]
    BY DEF ReplyInit
  <2>3. unsure \in BOOLEAN /\ declined \in BOOLEAN
    BY DEF ReplyInit
  <2>4. delivered \subseteq Bodies /\ replyFaults \in 0..MaxReplyFaults
    BY DEF ReplyInit
  <2> QED
    BY <2>1, <2>2, <2>3, <2>4 DEF ReplyInit, ReplyTypeOK
<1>2. ReplyTypeOK /\ [ReplyNext]_replyVars => ReplyTypeOK'
  <2> SUFFICES ASSUME ReplyTypeOK, [ReplyNext]_replyVars PROVE ReplyTypeOK'
    OBVIOUS
  <2>1. CASE Skip
    BY <2>1 DEF Skip, ReplyTypeOK
  <2>2. CASE Edit
    BY <2>2 DEF Edit, ReplyTypeOK
  <2>3. CASE LeaseEnds
    BY <2>3 DEF LeaseEnds, ReplyTypeOK
  <2>4. ASSUME NEW r \in Requests, Fetch(r) PROVE ReplyTypeOK'
    BY <2>4 DEF Fetch, Goes, ReplyTypeOK
  <2>5. ASSUME NEW r \in Requests, ClaimReply(r) \/ TakeOver(r) PROVE ReplyTypeOK'
    <3>1. claim' \in {"live", claim} /\ (Goes(r, "send") \/ Goes(r, "takeover") \/ Goes(r, "done"))
      BY <2>5 DEF ClaimReply, TakeOver, TakesRow
    <3>2. UNCHANGED <<status, body, delivered, unsure, declined, replyFaults>>
      BY <2>5 DEF ClaimReply, TakeOver, TakesRow
    <3> QED
      BY <3>1, <3>2 DEF Goes, ReplyTypeOK
  <2>6. ASSUME NEW r \in Requests, Send(r) PROVE ReplyTypeOK'
    <3>1. body[r] \in Bodies
      BY DEF ReplyTypeOK
    <3>2. delivered' \subseteq Bodies /\ unsure' \in BOOLEAN /\ replyFaults' \in 0..MaxReplyFaults
      <4>1. delivered' \subseteq Bodies
        BY <2>6, <3>1 DEF Send, ReplyTypeOK
      <4>2. unsure' \in BOOLEAN
        BY <2>6, Zenon DEF Send, ReplyTypeOK
      <4>3. replyFaults' \in 0..MaxReplyFaults
        BY <2>6 DEF Send, ReplyTypeOK
      <4> QED
        BY <4>1, <4>2, <4>3
    <3>3. replyPc' \in [Requests -> {"new", "claim", "takeover", "done"} \cup Holding]
      BY <2>6 DEF Send, Goes, ReplyTypeOK
    <3>4. UNCHANGED <<status, claim, body, declined>>
      BY <2>6 DEF Send
    <3> QED
      BY <3>2, <3>3, <3>4 DEF ReplyTypeOK
  <2>7. ASSUME NEW r \in Requests, Mark(r) \/ Release(r) PROVE ReplyTypeOK'
    BY <2>7 DEF Mark, Release, Goes, ReplyTypeOK
  <2>8. ASSUME NEW r \in Requests, Dies(r) PROVE ReplyTypeOK'
    BY <2>8 DEF Dies, Goes, ReplyTypeOK
  <2>9. CASE UNCHANGED replyVars
    BY <2>9 DEF replyVars, ReplyTypeOK
  <2> QED
    BY <2>1, <2>2, <2>3, <2>4, <2>5, <2>6, <2>7, <2>8, <2>9 DEF ReplyNext
<1> QED
  BY <1>1, <1>2, PTL DEF ReplySpec

-----------------------------------------------------------------------------
(* Whoever sends holds the claim, and holds it alone.                      *)
Alone ==
    /\ \A r \in Requests : replyPc[r] \in Holding => claim = "live"
    /\ \A r, s \in Requests : replyPc[r] \in Holding /\ replyPc[s] \in Holding => r = s

(* Unless an outcome was lost, the one reply that may have gone out is     *)
(* recorded or about to be.                                                *)
Accounted ==
    \/ unsure \/ delivered = {}
    \/ \E b \in Bodies : delivered = {b} /\ (claim = "done" \/ \E r \in Requests : replyPc[r] = "mark")

(* A skip that found nobody sending leaves nothing to claim.               *)
Closed == declined => status = "skipped" /\ claim \notin {"live", "done"}

IInv == Alone /\ Accounted /\ Closed

LEMMA ApprovalInvariant ==
    ASSUME ~Overruns
    PROVE  ReplySpec => [](ReplyTypeOK /\ IInv)
<1>1. ReplyInit => IInv
  BY DEF ReplyInit, IInv, Alone, Accounted, Closed
<1>2. ReplyTypeOK /\ IInv /\ [ReplyNext]_replyVars => IInv'
  <2> SUFFICES ASSUME ReplyTypeOK, IInv, [ReplyNext]_replyVars PROVE IInv'
    OBVIOUS
  <2>1. CASE Skip \/ Edit
    BY <2>1 DEF Skip, Edit, IInv, Alone, Accounted, Closed
  <2>2. CASE LeaseEnds
    BY <2>2 DEF LeaseEnds, IInv, Alone, Accounted, Closed
  <2>3. ASSUME NEW r \in Requests, Fetch(r) PROVE IInv'
    BY <2>3 DEF Fetch, Goes, ReplyTypeOK, IInv, Alone, Accounted, Closed
  <2>4. ASSUME NEW r \in Requests, ClaimReply(r) \/ TakeOver(r) PROVE IInv'
    <3>1. UNCHANGED <<status, delivered, unsure, declined>> /\ replyPc[r] \notin Holding
      BY <2>4 DEF ClaimReply, TakeOver, TakesRow
    <3>2. CASE claim' = "live" /\ Goes(r, "send") /\ status \in ClaimableStatuses /\ claim \in {"none", "stale"}
      <4>1. \A s \in Requests : replyPc[s] \notin Holding
        BY <3>2 DEF IInv, Alone
      <4>2. Alone'
        BY <3>2, <4>1 DEF Goes, ReplyTypeOK, Alone
      <4>3. unsure \/ delivered = {}
        BY <3>2, <4>1 DEF IInv, Accounted
      <4> QED
        BY <3>1, <3>2, <4>2, <4>3 DEF IInv, Accounted, Closed
    <3>3. CASE claim' = claim /\ (Goes(r, "takeover") \/ Goes(r, "done"))
      BY <3>1, <3>3 DEF Goes, ReplyTypeOK, IInv, Alone, Accounted, Closed
    <3> QED
      BY <2>4, <3>2, <3>3 DEF ClaimReply, TakeOver, TakesRow
  <2>5. ASSUME NEW r \in Requests, Send(r) PROVE IInv'
    <3>1. replyPc[r] = "send" /\ claim = "live" /\ UNCHANGED <<status, claim, declined>>
      BY <2>5 DEF Send, IInv, Alone
    <3>2. \A s \in Requests : replyPc[s] # "mark"
      BY <3>1 DEF IInv, Alone
    <3>3. unsure \/ delivered = {}
      BY <3>1, <3>2 DEF IInv, Accounted
    <3>4. Alone'
      BY <2>5, <3>1 DEF Send, Goes, ReplyTypeOK, IInv, Alone
    <3>5. Accounted'
      <4>1. CASE delivered' = delivered \cup {body[r]} /\ Goes(r, "mark") /\ UNCHANGED unsure
        BY <3>3, <4>1 DEF Goes, ReplyTypeOK, Accounted
      <4>2. CASE UNCHANGED <<delivered, unsure>>
        BY <3>3, <4>2 DEF Accounted
      <4>3. CASE unsure'
        BY <4>3 DEF Accounted
      <4> QED
        BY <2>5, <4>1, <4>2, <4>3 DEF Send
    <3> QED
      BY <3>1, <3>4, <3>5 DEF IInv, Closed
  <2>6. ASSUME NEW r \in Requests, Mark(r) \/ Release(r) \/ Dies(r) PROVE IInv'
    <3>1. Alone'
      BY <2>6 DEF Mark, Release, Dies, Goes, ReplyTypeOK, IInv, Alone
    <3>2. Closed'
      BY <2>6 DEF Mark, Release, Dies, IInv, Alone, Closed
    <3>3. CASE Mark(r)
      BY <3>1, <3>2, <3>3 DEF Mark, IInv, Accounted
    <3>4. CASE Release(r)
      <4>1. unsure \/ delivered = {}
        BY <3>4 DEF Release, IInv, Alone, Accounted
      <4> QED
        BY <3>1, <3>2, <3>4, <4>1 DEF Release, IInv, Accounted
    <3>5. CASE Dies(r)
      <4>1. CASE replyPc[r] = "mark"
        BY <3>1, <3>2, <3>5, <4>1 DEF Dies, IInv, Accounted
      <4>2. CASE replyPc[r] # "mark"
        BY <3>1, <3>2, <3>5, <4>2 DEF Dies, Goes, ReplyTypeOK, IInv, Accounted
      <4> QED
        BY <4>1, <4>2
    <3> QED
      BY <2>6, <3>3, <3>4, <3>5
  <2>7. CASE UNCHANGED replyVars
    BY <2>7 DEF replyVars, IInv, Alone, Accounted, Closed
  <2> QED
    BY <2>1, <2>2, <2>3, <2>4, <2>5, <2>6, <2>7 DEF ReplyNext
<1> QED
  BY <1>1, <1>2, ApprovalTyped, PTL DEF ReplySpec

(* Two different replies go out only after the outcome of one was lost.    *)
THEOREM ApprovalOneReply == ASSUME ~Overruns PROVE ReplySpec => []OneReply
<1>1. IInv => OneReply
  BY DEF IInv, Accounted, OneReply
<1> QED
  BY <1>1, ApprovalInvariant, PTL

(* A closed approval sends nothing more: to send, a request must hold the  *)
(* claim, and a recorded or skipped row cannot be claimed.                 *)
THEOREM ApprovalClosedStaysClosed == ASSUME ~Overruns PROVE ReplySpec => ClosedStaysClosed
<1> DEFINE Kept == /\ claim = "done" => claim' = "done" /\ delivered' = delivered
                   /\ declined /\ declined' => delivered' = delivered
<1>1. ReplyTypeOK /\ IInv /\ [ReplyNext]_replyVars => Kept
  <2> SUFFICES ASSUME ReplyTypeOK, IInv, [ReplyNext]_replyVars PROVE Kept
    OBVIOUS
  <2>1. ASSUME NEW r \in Requests, ClaimReply(r) \/ TakeOver(r) PROVE Kept
    BY <2>1 DEF ClaimReply, TakeOver, TakesRow
  <2>2. ASSUME NEW r \in Requests, Send(r) \/ Mark(r) \/ Release(r) PROVE Kept
    <3>1. claim = "live"
      BY <2>2 DEF Send, Mark, Release, IInv, Alone
    <3> QED
      BY <3>1 DEF IInv, Closed
  <2>3. CASE Skip \/ Edit \/ LeaseEnds \/ UNCHANGED replyVars
    BY <2>3 DEF Skip, Edit, LeaseEnds, replyVars
  <2>4. ASSUME NEW r \in Requests, Fetch(r) \/ Dies(r) PROVE Kept
    BY <2>4 DEF Fetch, Dies
  <2> QED
    BY <2>1, <2>2, <2>3, <2>4 DEF ReplyNext
<1>2. ReplyTypeOK /\ IInv /\ [ReplyNext]_replyVars => [Kept]_replyVars
  BY <1>1
<1> QED
  BY <1>2, ApprovalInvariant, PTL DEF ReplySpec, ClosedStaysClosed
====
