-------------------------- MODULE SyncRunnerProofs --------------------------
(***************************************************************************)
(* The safety of SyncRunner for every set of records and runs, page size   *)
(* and bound.                                                              *)
(***************************************************************************)
EXTENDS SyncRunner, TLAPS

USE RunnerAssumption DEF Step, RunStatus, vendorVars, storeVars, pageVars, Fault

LEMMA NullCursorTyped == NullCursor \in Cursor /\ NullCursor.hw = 0
  BY DEF NullCursor, Cursor

(* A page the vendor answers, and the cursor behind it, are well typed.    *)
LEMMA PageTyped ==
    ASSUME TypeOK, NEW c \in Cursor, NEW S \in Answers(c), NEW mx \in 0..clock
    PROVE  /\ {<<x, version[x]>> : x \in S} \in SUBSET Pair
           /\ NextCursor(c, S, mx) \in Cursor
<1>1. S \subseteq Refs
  BY DEF Answers, Listed
<1>2. mx \in Nat
  BY DEF TypeOK
<1> QED
  BY <1>1, <1>2 DEF TypeOK, NextCursor, WindowNext, OffsetNext, Pair, Cursor

(* Every reachable state is well typed.                                    *)
THEOREM RunnerTyped == Spec => []TypeOK
<1>1. Init => TypeOK
  BY NullCursorTyped DEF Init, TypeOK
<1>2. TypeOK /\ [Next]_vars => TypeOK'
  <2> SUFFICES ASSUME TypeOK, [Next]_vars PROVE TypeOK'
    OBVIOUS
  <2> USE NullCursorTyped
  <2>1. CASE Tick
    BY <2>1 DEF Tick, TypeOK
  <2>2. ASSUME NEW x \in Refs, NEW v \in 1..MaxVersion, VendorWrite(x, v) PROVE TypeOK'
    BY <2>2 DEF VendorWrite, TypeOK
  <2>3. ASSUME NEW r \in Runners, Run(r) PROVE TypeOK'
    <3>0. CASE ReadCursor(r)
      BY <3>0 DEF ReadCursor, TypeOK
    <3>1. CASE StartRun(r)
      BY <3>1 DEF StartRun, TypeOK
    <3>2. CASE Pull(r)
      <4>1. PICK S \in Answers(at[r]), mx \in 0..clock :
              /\ page' = [page EXCEPT ![r] = {<<x, version[x]>> : x \in S}]
              /\ next' = [next EXCEPT ![r] = NextCursor(at[r], S, mx)]
              /\ more' = [more EXCEPT ![r] = Full(S)]
              /\ crossed' = crossed \cup {x \in S : Crossing(r, x)}
        BY <3>2 DEF Pull
      <4>2. /\ {<<x, version[x]>> : x \in S} \in SUBSET Pair
            /\ NextCursor(at[r], S, mx) \in Cursor
        BY PageTyped DEF TypeOK
      <4>3. Full(S) \in BOOLEAN /\ crossed' \in SUBSET Refs
        BY <4>1 DEF Full, Answers, Listed, TypeOK
      <4> QED
        BY <3>2, <4>1, <4>2, <4>3 DEF Pull, TypeOK
    <3>3. CASE PullFails(r) \/ IngestFails(r) \/ FinishFails(r)
      BY <3>3 DEF PullFails, IngestFails, FinishFails, TypeOK
    <3>4. CASE Ingest(r)
      <4>1. ASSUME NEW x \in Refs PROVE newest'[x] \in Nat
        <5>1. CASE \E p \in page[r] \ rows : p[1] = x
          <6>1. \E p \in page[r] : p[1] = x
            BY <5>1
          <6>2. (CHOOSE p \in page[r] : p[1] = x) \in page[r]
            BY <6>1
          <6>3. (CHOOSE p \in page[r] : p[1] = x)[2] \in Nat
            BY <6>2 DEF TypeOK, Pair
          <6> QED
            BY <3>4, <5>1, <6>3 DEF Ingest, NewestAfter
        <5> QED
          BY <3>4, <5>1 DEF Ingest, NewestAfter, TypeOK
      <4>2. newest' \in [Refs -> Nat]
        BY <3>4, <4>1 DEF Ingest, NewestAfter
      <4>3. rows' \in SUBSET Pair
        BY <3>4 DEF Ingest, TypeOK
      <4> QED
        BY <3>4, <4>2, <4>3 DEF Ingest, TypeOK
    <3>5. CASE Advance(r)
      <4>1. AfterPage(r) \in Step
        BY DEF AfterPage
      <4>2. next[r] \in Cursor /\ cursor' \in Cursor /\ at' \in [Runners -> Cursor]
        BY <3>5 DEF Advance, TypeOK
      <4>3. pc' \in [Runners -> Step] /\ faults' \in Nat
        BY <3>5, <4>1 DEF Advance, TypeOK
      <4>4. page' \in [Runners -> SUBSET Pair] /\ next' \in [Runners -> Cursor]
            /\ more' \in [Runners -> BOOLEAN]
        BY <3>5 DEF Advance, TypeOK
      <4> QED
        BY <3>5, <4>2, <4>3, <4>4 DEF Advance, TypeOK
    <3>6. CASE FinishRun(r)
      <4>1. Outcome(r) \in RunStatus
        BY DEF Outcome
      <4> QED
        BY <3>6, <4>1 DEF FinishRun, TypeOK
    <3> QED
      BY <2>3, <3>0, <3>1, <3>2, <3>3, <3>4, <3>5, <3>6 DEF Run
  <2>4. ASSUME NEW r \in Runners, Crash(r) PROVE TypeOK'
    BY <2>4 DEF Crash, TypeOK
  <2>5. ASSUME NEW x \in Refs, RefreshAccount(x) PROVE TypeOK'
    BY <2>5 DEF RefreshAccount, TypeOK
  <2>6. CASE UNCHANGED vars
    BY <2>6 DEF vars, TypeOK
  <2> QED
    BY <2>1, <2>2, <2>3, <2>4, <2>5, <2>6 DEF Next
<1> QED
  BY <1>1, <1>2, PTL DEF Spec

-----------------------------------------------------------------------------

(* The page a window adapter gets, together with what is stored before the *)
(* mark it was asked for, is everything before the next mark.              *)
LEMMA WindowReaches ==
    ASSUME TypeOK, ~Offset, NEW c \in Cursor, StoredBefore(c, rows),
           NEW S \in Answers(c), NEW mx \in 0..clock, IsHighest(mx, S, c.hw)
    PROVE  StoredBefore(NextCursor(c, S, mx), rows \cup {<<x, version[x]>> : x \in S})
<1> SUFFICES ASSUME NEW x \in Refs, version[x] > 0, modified[x] < mx, x \notin S
             PROVE  <<x, version[x]>> \in rows
  BY DEF StoredBefore, NextCursor, WindowNext
<1>1. /\ S \subseteq Listed(c) /\ Ahead(S, Listed(c) \ S)
      /\ Full(S) \/ S = Listed(c)
  BY DEF Answers, WindowPage
<1>2. c.hw \in Nat /\ mx \in Nat /\ \A y \in Refs : modified[y] \in Nat
  BY DEF TypeOK, Cursor
<1>3. CASE modified[x] < c.hw
  BY <1>3 DEF StoredBefore
<1>4. CASE modified[x] >= c.hw
  <2>1. x \in Listed(c) \ S
    BY <1>4 DEF Listed
  <2>2. \A y \in S : y \in Refs /\ modified[y] <= modified[x]
    BY <1>1, <2>1 DEF Ahead, Listed
  <2>3. mx = c.hw
    BY <1>2, <2>2 DEF IsHighest
  <2> QED
    BY <1>2, <1>4, <2>3
<1> QED
  BY <1>2, <1>3, <1>4

(* With window adapters, and account refreshes kept apart from runs, the   *)
(* cursor never passes a change that is not stored, for any number of      *)
(* overlapping runs, crashes and lost responses.                           *)
THEOREM RunnerNothingSkipped == ASSUME ~Offset, QuietResets PROVE Spec => []NothingSkipped
<1>1. Init => NothingSkipped
  BY NullCursorTyped DEF Init, NothingSkipped, StoredBefore
<1>2. TypeOK /\ TypeOK' /\ NothingSkipped /\ [Next]_vars => NothingSkipped'
  <2> SUFFICES ASSUME TypeOK, TypeOK', NothingSkipped, [Next]_vars PROVE NothingSkipped'
    OBVIOUS
  <2>0. /\ clock \in Nat /\ cursor \in Cursor /\ cursor.hw \in Nat
        /\ \A x \in Refs : modified[x] \in Nat
        /\ \A r \in Runners : /\ at[r] \in Cursor /\ next[r] \in Cursor
                              /\ at[r].hw \in Nat /\ next[r].hw \in Nat
    BY DEF TypeOK, Cursor
  <2>1. CASE Tick
    BY <2>0, <2>1 DEF Tick, NothingSkipped, StoredBefore
  <2>2. ASSUME NEW x \in Refs, NEW v \in 1..MaxVersion, VendorWrite(x, v) PROVE NothingSkipped'
    <3>1. /\ clock' = clock /\ \A y \in Refs : modified'[y] <= clock
          /\ \A y \in Refs : y = x => modified'[y] = clock
          /\ \A y \in Refs : y # x => modified'[y] = modified[y] /\ version'[y] = version[y]
      BY <2>0, <2>2 DEF VendorWrite, TypeOK, NothingSkipped
    <3>2. ASSUME NEW c \in Cursor, c.hw <= clock, NEW P, StoredBefore(c, P)
          PROVE  \A y \in Refs : version'[y] > 0 /\ modified'[y] < c.hw => <<y, version'[y]>> \in P
      BY <2>0, <3>1, <3>2 DEF StoredBefore, Cursor
    <3> QED
      BY <2>0, <2>2, <3>1, <3>2 DEF VendorWrite, NothingSkipped, StoredBefore
  <2>3. ASSUME NEW r \in Runners, Run(r) PROVE NothingSkipped'
    <3>1. CASE ReadCursor(r)
      BY <2>0, <3>1 DEF ReadCursor, NothingSkipped, StoredBefore, TypeOK
    <3>2. CASE StartRun(r)
      BY <2>0, <3>2 DEF StartRun, NothingSkipped, StoredBefore, TypeOK
    <3>3. CASE Pull(r)
      <4>1. PICK S \in Answers(at[r]), mx \in 0..clock :
              /\ IsHighest(mx, S, at[r].hw)
              /\ page' = [page EXCEPT ![r] = {<<x, version[x]>> : x \in S}]
              /\ next' = [next EXCEPT ![r] = NextCursor(at[r], S, mx)]
        BY <3>3 DEF Pull
      <4>2. StoredBefore(NextCursor(at[r], S, mx), rows \cup {<<x, version[x]>> : x \in S})
        BY <2>0, <4>1, WindowReaches DEF NothingSkipped
      <4>3. NextCursor(at[r], S, mx).hw <= clock
        BY <2>0 DEF NextCursor, WindowNext
      <4> QED
        BY <2>0, <3>3, <4>1, <4>2, <4>3 DEF Pull, NothingSkipped, StoredBefore, TypeOK
    <3>4. CASE PullFails(r) \/ IngestFails(r) \/ FinishFails(r)
      BY <2>0, <3>4 DEF PullFails, IngestFails, FinishFails, NothingSkipped, StoredBefore, TypeOK
    <3>5. CASE Ingest(r)
      BY <2>0, <3>5 DEF Ingest, NothingSkipped, StoredBefore, TypeOK
    <3>6. CASE Advance(r)
      BY <2>0, <3>6, NullCursorTyped DEF Advance, AfterPage, NothingSkipped, StoredBefore, TypeOK
    <3>7. CASE FinishRun(r)
      BY <2>0, <3>7, NullCursorTyped DEF FinishRun, NothingSkipped, StoredBefore, TypeOK
    <3> QED
      BY <2>3, <3>1, <3>2, <3>3, <3>4, <3>5, <3>6, <3>7 DEF Run
  <2>4. ASSUME NEW r \in Runners, Crash(r) PROVE NothingSkipped'
    BY <2>0, <2>4, NullCursorTyped DEF Crash, NothingSkipped, StoredBefore, TypeOK
  <2>5. ASSUME NEW x \in Refs, RefreshAccount(x) PROVE NothingSkipped'
    BY <2>0, <2>5, NullCursorTyped DEF RefreshAccount, NothingSkipped, StoredBefore
  <2>6. CASE UNCHANGED vars
    BY <2>6 DEF vars, NothingSkipped, StoredBefore
  <2> QED
    BY <2>1, <2>2, <2>3, <2>4, <2>5, <2>6 DEF Next
<1> QED
  BY <1>1, <1>2, RunnerTyped, PTL DEF Spec

(* No change is lost: the invariant the runs check, for every instance.    *)
THEOREM RunnerNothingLost == ASSUME ~Offset, QuietResets PROVE Spec => []NothingLost
<1>1. NothingSkipped => NothingLost
  BY DEF NothingSkipped, NothingLost
<1> QED
  BY <1>1, RunnerNothingSkipped, PTL

-----------------------------------------------------------------------------
(* The feed ends with the current payload of every record that has it      *)
(* stored and whose payloads the store can order: a page names a record    *)
(* once, with a payload at least as new as any stored one, and overlapping *)
(* runs that are about to store the record hold the same payload of it.    *)
PagesAgree(r, s) ==
    \A p \in page[r], q \in page[s] : p[1] = q[1] /\ p[1] \in Ordered => p = q

FeedInv ==
    /\ \A p \in rows : p[1] \in Ordered => p[2] <= version[p[1]]
    /\ \A x \in Ordered : version[x] > 0 /\ <<x, version[x]>> \in rows => newest[x] = version[x]
    /\ \A r \in Runners : pc[r] = "ingest" =>
         /\ \A p \in page[r] : p[1] \in Ordered => p[2] <= version[p[1]]
         /\ \A p, q \in page[r] : p[1] = q[1] => p = q
         /\ \A p \in page[r], q \in rows : p[1] = q[1] /\ p[1] \in Ordered => q[2] <= p[2]
         /\ \A s \in Runners : pc[s] = "ingest" => PagesAgree(r, s)

(* Which payload a page makes the newest.                                  *)
LEMMA NewestOfPage ==
    ASSUME TypeOK, NEW P \in SUBSET Pair, NEW x \in Refs, \A p, q \in P : p[1] = q[1] => p = q
    PROVE  /\ \A p \in P \ rows : p[1] = x => NewestAfter(P)[x] = p[2]
           /\ (\A p \in P \ rows : p[1] # x) => NewestAfter(P)[x] = newest[x]
<1>1. ASSUME NEW p \in P \ rows, p[1] = x PROVE NewestAfter(P)[x] = p[2]
  <2> DEFINE chosen == CHOOSE q \in P : q[1] = x
  <2>1. chosen \in P /\ chosen[1] = x
    BY <1>1
  <2>2. chosen = p
    BY <1>1, <2>1
  <2>3. NewestAfter(P)[x] = chosen[2]
    BY <1>1 DEF NewestAfter
  <2> QED
    BY <2>2, <2>3
<1>2. ASSUME \A p \in P \ rows : p[1] # x PROVE NewestAfter(P)[x] = newest[x]
  BY <1>2 DEF NewestAfter
<1> QED
  BY <1>1, <1>2

LEMMA FeedKept ==
    ASSUME TypeOK, FeedInv, UNCHANGED <<version, newest, returned, crossed>>, rows' \in SUBSET rows,
           \A r \in Runners : pc'[r] = "ingest" => pc[r] = "ingest" /\ page'[r] = page[r]
    PROVE  FeedInv'
BY DEF FeedInv, PagesAgree, Ordered

LEMMA FeedIngest ==
    ASSUME TypeOK, FeedInv, NEW r \in Runners, Ingest(r)
    PROVE  FeedInv'
<1>1. /\ pc[r] = "ingest" /\ rows' = rows \cup page[r] /\ newest' = NewestAfter(page[r])
      /\ UNCHANGED <<version, page>> /\ Ordered' = Ordered
  BY DEF Ingest, Ordered
<1>2. \A s \in Runners : pc'[s] = "ingest" => pc[s] = "ingest"
  BY DEF Ingest, TypeOK
<1>3. page[r] \in SUBSET Pair /\ rows \in SUBSET Pair /\ version \in [Refs -> Nat]
  BY DEF TypeOK
<1>4. /\ \A p \in page[r] : p[1] \in Ordered => p[2] <= version[p[1]]
      /\ \A p, q \in page[r] : p[1] = q[1] => p = q
      /\ \A p \in page[r], q \in rows : p[1] = q[1] /\ p[1] \in Ordered => q[2] <= p[2]
  BY <1>1 DEF FeedInv
<1>5. ASSUME NEW x \in Ordered, version[x] > 0, <<x, version[x]>> \in rows'
      PROVE  newest'[x] = version[x]
  <2> DEFINE now == <<x, version[x]>>
  <2>0. x \in Refs
    BY DEF Ordered
  <2>1. CASE now \notin rows
    <3>1. now \in page[r] \ rows /\ now[1] = x /\ now[2] = version[x]
      BY <1>1, <1>5, <2>1
    <3> QED
      BY <1>1, <1>3, <1>4, <2>0, <3>1, NewestOfPage
  <2>2. CASE now \in rows
    <3>1. ASSUME NEW p \in page[r] \ rows, p[1] = x PROVE FALSE
      <4>1. now[1] = x /\ now[2] = version[x]
        OBVIOUS
      <4>2. version[x] <= p[2] /\ p[2] <= version[x]
        BY <1>4, <2>2, <3>1, <4>1
      <4>3. p = <<p[1], p[2]>> /\ p[2] \in Nat /\ version[x] \in Nat
        BY <1>3, <2>0 DEF Pair
      <4> QED
        BY <2>2, <3>1, <4>2, <4>3
    <3>2. newest'[x] = newest[x]
      BY <1>1, <1>3, <1>4, <2>0, <3>1, NewestOfPage
    <3> QED
      BY <1>5, <2>2, <3>2 DEF FeedInv
  <2> QED
    BY <2>1, <2>2
<1>6. \A p \in rows' : p[1] \in Ordered => p[2] <= version[p[1]]
  BY <1>1, <1>4 DEF FeedInv
<1>7. ASSUME NEW s \in Runners, pc[s] = "ingest", NEW p \in page[s], NEW q \in rows',
             p[1] = q[1], p[1] \in Ordered
      PROVE  q[2] <= p[2]
  <2>1. CASE q \in rows
    BY <1>7, <2>1 DEF FeedInv
  <2>2. CASE q \in page[r]
    <3>1. p = q
      BY <1>1, <1>7, <2>2 DEF FeedInv, PagesAgree
    <3>2. q[2] \in Nat
      BY <1>3, <2>2 DEF Pair
    <3> QED
      BY <3>1, <3>2
  <2> QED
    BY <1>1, <1>7, <2>1, <2>2
<1>8. ASSUME NEW s \in Runners, pc'[s] = "ingest"
      PROVE  /\ \A p \in page[s] : p[1] \in Ordered => p[2] <= version[p[1]]
             /\ \A p, q \in page[s] : p[1] = q[1] => p = q
             /\ \A t \in Runners : pc'[t] = "ingest" => PagesAgree(s, t)
  BY <1>2, <1>8 DEF FeedInv
<1>9. \A s, t \in Runners : PagesAgree(s, t)' <=> PagesAgree(s, t)
  BY <1>1 DEF PagesAgree
<1> QED
  BY <1>1, <1>2, <1>5, <1>6, <1>7, <1>8, <1>9 DEF FeedInv

LEMMA FeedStep ==
    ASSUME TypeOK, FeedInv, [Next]_vars
    PROVE  FeedInv'
<1>1. ASSUME NEW x \in Refs, NEW v \in 1..MaxVersion, VendorWrite(x, v) PROVE FeedInv'
  <2>1. /\ version \in [Refs -> Nat] /\ rows \in SUBSET Pair
        /\ \A r \in Runners : page[r] \in SUBSET Pair
    BY DEF TypeOK
  <2>2. version' = [version EXCEPT ![x] = v] /\ UNCHANGED <<rows, newest, pc, page>>
    BY <1>1 DEF VendorWrite
  <2>3. \A y \in Refs : version'[y] = (IF y = x THEN v ELSE version[y])
    BY <2>1, <2>2
  <2>4. Ordered' \subseteq Ordered /\ (x \in Ordered' => v > version[x])
    BY <1>1, <2>1 DEF VendorWrite, Ordered
  <2>5. ASSUME NEW p \in Pair, p[1] \in Ordered', p[2] <= version[p[1]]
        PROVE  p[2] <= version'[p[1]]
    BY <2>1, <2>3, <2>4, <2>5 DEF Pair
  <2>6. ASSUME x \in Ordered' PROVE <<x, v>> \notin rows
    <3> SUFFICES ASSUME <<x, v>> \in rows PROVE FALSE
      OBVIOUS
    <3>1. <<x, v>>[2] <= version[<<x, v>>[1]]
      BY <2>4, <2>6 DEF FeedInv
    <3> QED
      BY <2>1, <2>4, <2>6, <3>1
  <2>7. ASSUME NEW y \in Ordered', version'[y] > 0, <<y, version'[y]>> \in rows
        PROVE  newest[y] = version'[y]
    <3>1. y \in Refs /\ y \in Ordered
      BY <2>4 DEF Ordered
    <3>2. y # x
      BY <2>3, <2>6, <2>7, <3>1
    <3> QED
      BY <2>3, <2>7, <3>1, <3>2 DEF FeedInv
  <2>8. \A p \in rows : p[1] \in Ordered' => p[2] <= version'[p[1]]
    BY <2>1, <2>4, <2>5 DEF FeedInv
  <2>9. ASSUME NEW r \in Runners, pc[r] = "ingest"
        PROVE  /\ \A p \in page[r] : p[1] \in Ordered' => p[2] <= version'[p[1]]
               /\ \A p, q \in page[r] : p[1] = q[1] => p = q
               /\ \A p \in page[r], q \in rows : p[1] = q[1] /\ p[1] \in Ordered' => q[2] <= p[2]
               /\ \A s \in Runners : pc[s] = "ingest" => PagesAgree(r, s)
    BY <2>1, <2>4, <2>5, <2>9 DEF FeedInv
  <2>10. \A r, s \in Runners : PagesAgree(r, s) => PagesAgree(r, s)'
    BY <2>2, <2>4 DEF PagesAgree
  <2> QED
    BY <2>2, <2>7, <2>8, <2>9, <2>10 DEF FeedInv
<1>2. ASSUME NEW r \in Runners, Pull(r) PROVE FeedInv'
  <2>1. PICK S \in Answers(at[r]) :
          /\ page' = [page EXCEPT ![r] = {<<x, version[x]>> : x \in S}]
          /\ crossed' = crossed \cup {x \in S : Crossing(r, x)}
    BY <1>2 DEF Pull
  <2>2. S \subseteq Refs
    BY DEF Answers, Listed
  <2>3. /\ UNCHANGED <<version, rows, newest, returned>> /\ version \in [Refs -> Nat]
        /\ rows \in SUBSET Pair
        /\ \A s \in Runners : page[s] \in SUBSET Pair
        /\ \A s \in Runners \ {r} : pc'[s] = pc[s] /\ page'[s] = page[s]
        /\ page'[r] = {<<x, version[x]>> : x \in S}
    BY <1>2, <2>1 DEF Pull, TypeOK
  <2>4. Ordered' \subseteq Ordered /\ \A x \in S : x \in Ordered' => ~Crossing(r, x)
    BY <2>1, <2>3 DEF Ordered
  <2>5. \A p \in page'[r] : /\ p[1] \in S /\ p[1] \in Refs
                            /\ p = <<p[1], p[2]>> /\ p[2] = version[p[1]] /\ p[2] \in Nat
    BY <2>2, <2>3
  <2>6. /\ \A p \in page'[r] : p[2] <= version[p[1]]
        /\ \A p, q \in page'[r] : p[1] = q[1] => p = q
    BY <2>5
  <2>7. \A p \in page'[r], q \in rows : p[1] = q[1] /\ p[1] \in Ordered' => q[2] <= p[2]
    BY <2>4, <2>5 DEF FeedInv
  <2>8. ASSUME NEW s \in Runners \ {r}, pc[s] = "ingest", NEW p \in page'[r], NEW q \in page[s],
               p[1] = q[1], p[1] \in Ordered'
        PROVE  p = q
    <3>1. ~Crossing(r, p[1]) /\ p[2] = version[p[1]]
      BY <2>4, <2>5, <2>8
    <3>2. q[2] = version[p[1]] /\ q = <<q[1], q[2]>>
      BY <2>3, <2>8, <3>1 DEF Crossing, Pair
    <3> QED
      BY <2>5, <2>8, <3>1, <3>2
  <2>9. ASSUME NEW s \in Runners, NEW t \in Runners, pc'[s] = "ingest", pc'[t] = "ingest"
        PROVE  PagesAgree(s, t)'
    <3>1. CASE s = r /\ t = r
      BY <2>6, <3>1 DEF PagesAgree
    <3>2. CASE s = r /\ t # r
      BY <2>3, <2>8, <2>9, <3>2 DEF PagesAgree
    <3>3. CASE s # r /\ t = r
      BY <2>3, <2>8, <2>9, <3>3 DEF PagesAgree
    <3>4. CASE s # r /\ t # r
      <4>1. PagesAgree(s, t)
        BY <2>3, <2>9, <3>4 DEF FeedInv
      <4> QED
        BY <2>3, <2>4, <3>4, <4>1 DEF PagesAgree
    <3> QED
      BY <3>1, <3>2, <3>3, <3>4
  <2>10. ASSUME NEW s \in Runners, pc'[s] = "ingest"
         PROVE  /\ \A p \in page'[s] : p[1] \in Ordered' => p[2] <= version'[p[1]]
                /\ \A p, q \in page'[s] : p[1] = q[1] => p = q
                /\ \A p \in page'[s], q \in rows' : p[1] = q[1] /\ p[1] \in Ordered' => q[2] <= p[2]
    <3>1. CASE s = r
      BY <2>3, <2>6, <2>7, <3>1
    <3>2. CASE s # r
      BY <2>3, <2>4, <2>10, <3>2 DEF FeedInv
    <3> QED
      BY <3>1, <3>2
  <2>11. /\ \A p \in rows' : p[1] \in Ordered' => p[2] <= version'[p[1]]
         /\ \A x \in Ordered' : version'[x] > 0 /\ <<x, version'[x]>> \in rows' => newest'[x] = version'[x]
    BY <2>3, <2>4 DEF FeedInv
  <2> QED
    BY <2>9, <2>10, <2>11 DEF FeedInv
<1>3. ASSUME NEW r \in Runners, Ingest(r) PROVE FeedInv'
  BY <1>3, FeedIngest
<1>4. ASSUME NEW r \in Runners, ReadCursor(r) \/ StartRun(r) \/ PullFails(r) \/ IngestFails(r) \/ FinishFails(r)
      PROVE  FeedInv'
  BY <1>4, FeedKept DEF ReadCursor, StartRun, PullFails, IngestFails, FinishFails, TypeOK
<1>5. ASSUME NEW r \in Runners, Advance(r) PROVE FeedInv'
  <2>1. pc'[r] # "ingest" /\ \A s \in Runners \ {r} : pc'[s] = pc[s] /\ page'[s] = page[s]
    BY <1>5 DEF Advance, AfterPage, TypeOK
  <2> QED
    BY <1>5, <2>1, FeedKept DEF Advance
<1>6. ASSUME NEW r \in Runners, FinishRun(r) \/ Crash(r) PROVE FeedInv'
  <2>1. pc'[r] # "ingest" /\ \A s \in Runners \ {r} : pc'[s] = pc[s] /\ page'[s] = page[s]
    BY <1>6 DEF FinishRun, Crash, TypeOK
  <2> QED
    BY <1>6, <2>1, FeedKept DEF FinishRun, Crash
<1>7. ASSUME NEW x \in Refs, RefreshAccount(x) PROVE FeedInv'
  <2>1. /\ rows' = {p \in rows : p[1] # x} /\ newest' = [newest EXCEPT ![x] = 0]
        /\ UNCHANGED <<version, pc, page, returned, crossed>>
    BY <1>7 DEF RefreshAccount
  <2>2. ASSUME NEW y \in Ordered, version[y] > 0, <<y, version[y]>> \in rows' PROVE newest'[y] = version[y]
    <3>1. y # x /\ <<y, version[y]>> \in rows /\ y \in Refs
      BY <2>1, <2>2 DEF Ordered
    <3> QED
      BY <2>1, <2>2, <3>1 DEF FeedInv, TypeOK
  <2> QED
    BY <2>1, <2>2 DEF FeedInv, PagesAgree, Ordered
<1>8. CASE Tick \/ UNCHANGED vars
  BY <1>8, FeedKept DEF Tick, vars
<1> QED
  BY <1>1, <1>2, <1>3, <1>4, <1>5, <1>6, <1>7, <1>8 DEF Next, Run

(* The feed ends with the payload the vendor has, for every record older   *)
(* than the mark that did not go back to an earlier payload and that no    *)
(* overlapping runs held with two payloads, whatever crashes or loses a    *)
(* response and for any number of runs.                                    *)
THEOREM RunnerNewestIsCurrent == ASSUME ~Offset, QuietResets PROVE Spec => []NewestIsCurrent
<1>1. Init => FeedInv
  BY DEF Init, FeedInv
<1>2. TypeOK /\ FeedInv /\ [Next]_vars => FeedInv'
  BY FeedStep
<1>3. FeedInv /\ NothingLost => NewestIsCurrent
  BY DEF FeedInv, NothingLost, StoredBefore, NewestIsCurrent, Ordered
<1> QED
  BY <1>1, <1>2, <1>3, RunnerTyped, RunnerNothingLost, PTL DEF Spec
=============================================================================
