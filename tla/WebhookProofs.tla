---------------------------- MODULE WebhookProofs ----------------------------
(***************************************************************************)
(* The safety of WebhookDelivery for every set of deliveries, endpoints    *)
(* and workers, every claim limit and length of the backoff ladder.        *)
(***************************************************************************)
EXTENDS WebhookDelivery, TLAPS

USE WebhookAssumption DEF Status, Leased, rowVars, workerVars, endpointVars

LEMMA VerdictStatus == ASSUME NEW w \in Workers PROVE Verdict(w) \in {"delivered", "retry", "failed"}
  BY DEF Verdict

(* What a record call does to a row it matches.                            *)
LEMMA UpdateEffect ==
    ASSUME TypeOK, NEW w \in Workers, pc[w] = "record", UpdateRow(w)
    PROVE  LET d == current[w][1] IN
           /\ d \in Deliveries /\ Open(d) /\ current[w][2] = attempt[d]
           /\ status' = [status EXCEPT ![d] = Verdict(w)]
           /\ due' \in [Deliveries -> BOOLEAN]
           /\ \/ /\ Verdict(w) = "retry" /\ attempt[d] < MaxAttempts
                 /\ attempt' = [attempt EXCEPT ![d] = @ + 1]
              \/ Verdict(w) # "retry" /\ attempt' = attempt
<1>1. current[w] \in Leased
  BY DEF TypeOK
<1>2. current[w][1] \in Deliveries /\ current[w][2] = attempt[current[w][1]]
  BY <1>1 DEF UpdateRow, Recordable
<1>3. Verdict(w) = "retry" => attempt[current[w][1]] < MaxAttempts
  BY <1>2 DEF Verdict
<1> QED
  BY <1>2, <1>3 DEF UpdateRow, Recordable, TypeOK

(* Every reachable state is well typed.                                    *)
THEOREM WebhookTyped == Spec => []TypeOK
<1>1. Init => TypeOK
  BY DEF Init, TypeOK
<1>2. TypeOK /\ [Next]_vars => TypeOK'
  <2> SUFFICES ASSUME TypeOK, [Next]_vars PROVE TypeOK'
    OBVIOUS
  <2>1. ASSUME NEW d \in Deliveries, Enqueue(d) PROVE TypeOK'
    BY <2>1 DEF Enqueue, TypeOK
  <2>2. ASSUME NEW d \in Deliveries, BecomesDue(d) PROVE TypeOK'
    BY <2>2 DEF BecomesDue, TypeOK
  <2>3. ASSUME NEW e \in Endpoints, SwitchEndpoint(e) \/ ShredKey(e) PROVE TypeOK'
    BY <2>3 DEF SwitchEndpoint, ShredKey, TypeOK
  <2>4. ASSUME NEW e \in Endpoints, DeleteEndpoint(e) PROVE TypeOK'
    BY <2>4 DEF DeleteEndpoint, TypeOK
  <2>5. ASSUME NEW w \in Workers, Claim(w) PROVE TypeOK'
    <3>1. PICK S \in SUBSET Deliveries :
            /\ status' = [d \in Deliveries |-> IF d \in {x \in S : EndpointOf[x] \in shredded}
                                               THEN "failed" ELSE status[d]]
            /\ due' = [d \in Deliveries |-> due[d] /\ d \notin S]
            /\ batch' = [batch EXCEPT ![w] = {<<d, attempt[d]>> :
                                                d \in S \ {x \in S : EndpointOf[x] \in shredded}}]
      BY <2>5 DEF Claim
    <3>2. {<<d, attempt[d]>> : d \in S \ {x \in S : EndpointOf[x] \in shredded}} \in SUBSET Leased
      BY DEF TypeOK
    <3>3. due' \in [Deliveries -> BOOLEAN] /\ status' \in [Deliveries -> Status]
      BY <3>1 DEF TypeOK
    <3> QED
      BY <2>5, <3>1, <3>2, <3>3 DEF Claim, TypeOK
  <2>6. ASSUME NEW w \in Workers, Post(w) PROVE TypeOK'
    <3>1. PICK p \in batch[w], taken \in BOOLEAN, answered \in BOOLEAN :
            /\ batch' = [batch EXCEPT ![w] = @ \ {p}]
            /\ current' = [current EXCEPT ![w] = p]
            /\ posts' = [posts EXCEPT ![p[1]] = IF @ < MaxAttempts THEN @ + 1 ELSE @]
            /\ accepted' = [accepted EXCEPT ![p[1]] = @ \/ taken]
            /\ ok' = [ok EXCEPT ![w] = answered]
      BY <2>6 DEF Post
    <3>2. p \in Leased /\ p[1] \in Deliveries
      BY DEF TypeOK
    <3>3. accepted' \in [Deliveries -> BOOLEAN] /\ posts' \in [Deliveries -> 0..MaxAttempts]
      BY <3>1, <3>2 DEF TypeOK
    <3> QED
      BY <2>6, <3>1, <3>2, <3>3 DEF Post, TypeOK
  <2>7. ASSUME NEW w \in Workers, Record(w) PROVE TypeOK'
    <3>1. status' \in [Deliveries -> Status] /\ attempt' \in [Deliveries -> 1..MaxAttempts]
          /\ due' \in [Deliveries -> BOOLEAN]
      <4>1. CASE UpdateRow(w)
        <5> DEFINE d == current[w][1]
        <5>1. /\ d \in Deliveries
              /\ status' = [status EXCEPT ![d] = Verdict(w)]
              /\ due' \in [Deliveries -> BOOLEAN]
              /\ \/ attempt[d] < MaxAttempts /\ attempt' = [attempt EXCEPT ![d] = @ + 1]
                 \/ attempt' = attempt
          BY <2>7, <4>1, UpdateEffect DEF Record
        <5>2. Verdict(w) \in Status
          BY VerdictStatus
        <5>3. status' \in [Deliveries -> Status]
          BY <5>1, <5>2 DEF TypeOK
        <5>4. attempt' \in [Deliveries -> 1..MaxAttempts]
          <6>1. attempt \in [Deliveries -> 1..MaxAttempts]
            BY DEF TypeOK
          <6>2. attempt[d] < MaxAttempts => attempt[d] + 1 \in 1..MaxAttempts
            BY <5>1, <6>1
          <6> QED
            BY <5>1, <6>1, <6>2
        <5> QED
          BY <5>1, <5>3, <5>4
      <4>2. CASE UNCHANGED rowVars
        BY <4>2 DEF TypeOK
      <4> QED
        BY <2>7, <4>1, <4>2 DEF Record
    <3>2. /\ current' = [current EXCEPT ![w] = <<>>] /\ ok' = [ok EXCEPT ![w] = FALSE]
          /\ \/ pc' = [pc EXCEPT ![w] = "batch"] /\ batch' = batch
             \/ pc' = [pc EXCEPT ![w] = "off"] /\ batch' = [batch EXCEPT ![w] = {}]
          /\ faults' \in 0..MaxFaults
      BY <2>7 DEF Record, Abort, Forget, Fault, TypeOK
    <3>3. \A v \in Workers : pc'[v] = "record" => current'[v] \in Leased
      BY <3>2 DEF TypeOK
    <3> QED
      BY <2>7, <3>1, <3>2, <3>3 DEF Record, TypeOK
  <2>8. ASSUME NEW w \in Workers, Done(w) PROVE TypeOK'
    BY <2>8 DEF Done, TypeOK
  <2>9. ASSUME NEW w \in Workers, Crash(w) PROVE TypeOK'
    BY <2>9 DEF Crash, Abort, Forget, Fault, TypeOK
  <2>10. CASE UNCHANGED vars
    BY <2>10 DEF vars, TypeOK
  <2> QED
    BY <2>1, <2>2, <2>3, <2>4, <2>5, <2>6, <2>7, <2>8, <2>9, <2>10 DEF Next, Worker
<1> QED
  BY <1>1, <1>2, PTL DEF Spec

-----------------------------------------------------------------------------

(* Attempts never run ahead of posts, so a delivery is given up only after *)
(* the whole ladder, and shown as delivered only if it was accepted.       *)
THEOREM WebhookAttemptsBacked == Spec => []AttemptsBacked
<1>1. Init => AttemptsBacked
  BY DEF Init, AttemptsBacked, DeliveredWasAccepted, GivesUpAfterLadder
<1>2. TypeOK /\ TypeOK' /\ AttemptsBacked /\ [Next]_vars => AttemptsBacked'
  <2> SUFFICES ASSUME TypeOK, TypeOK', AttemptsBacked, [Next]_vars PROVE AttemptsBacked'
    OBVIOUS
  <2> USE DEF AttemptsBacked, DeliveredWasAccepted, GivesUpAfterLadder
  <2>0. /\ \A d \in Deliveries : attempt[d] \in Nat /\ posts[d] \in Nat /\ attempt[d] <= MaxAttempts
                                 /\ posts[d] <= MaxAttempts
        /\ \A w \in Workers : \A p \in batch[w] : p[1] \in Deliveries /\ p[2] \in Nat
        /\ \A w \in Workers : pc[w] = "record" => current[w][1] \in Deliveries /\ current[w][2] \in Nat
    BY DEF TypeOK
  <2>1. ASSUME NEW d \in Deliveries, Enqueue(d) \/ BecomesDue(d) PROVE AttemptsBacked'
    BY <2>0, <2>1 DEF Enqueue, BecomesDue, TypeOK
  <2>2. ASSUME NEW e \in Endpoints, SwitchEndpoint(e) \/ ShredKey(e) PROVE AttemptsBacked'
    BY <2>2 DEF SwitchEndpoint, ShredKey
  <2>3. ASSUME NEW e \in Endpoints, DeleteEndpoint(e) PROVE AttemptsBacked'
    BY <2>3 DEF DeleteEndpoint
  <2>4. ASSUME NEW w \in Workers, Claim(w) PROVE AttemptsBacked'
    <3>1. PICK S \in SUBSET Deliveries :
            /\ status' = [d \in Deliveries |-> IF d \in {x \in S : EndpointOf[x] \in shredded}
                                               THEN "failed" ELSE status[d]]
            /\ batch' = [batch EXCEPT ![w] = {<<d, attempt[d]>> :
                                                d \in S \ {x \in S : EndpointOf[x] \in shredded}}]
      BY <2>4 DEF Claim
    <3>2. UNCHANGED <<attempt, posts, accepted, shredded, current, ok>> /\ pc' = [pc EXCEPT ![w] = "batch"]
      BY <2>4 DEF Claim
    <3>3. \A v \in Workers : \A p \in batch'[v] : p[2] <= attempt[p[1]]
      BY <2>0, <3>1 DEF TypeOK
    <3>4. \A v \in Workers : pc'[v] = "record" => pc[v] = "record"
      BY <3>2 DEF TypeOK
    <3>5. \A d \in Deliveries : /\ status'[d] = "delivered" => status[d] = "delivered"
                                /\ status'[d] = "failed" => status[d] = "failed" \/ EndpointOf[d] \in shredded
      BY <3>1
    <3> QED
      BY <3>2, <3>3, <3>4, <3>5
  <2>5. ASSUME NEW w \in Workers, Post(w) PROVE AttemptsBacked'
    <3>1. PICK p \in batch[w], taken \in BOOLEAN, answered \in BOOLEAN :
            /\ answered => taken
            /\ batch' = [batch EXCEPT ![w] = @ \ {p}]
            /\ current' = [current EXCEPT ![w] = p]
            /\ posts' = [posts EXCEPT ![p[1]] = IF @ < MaxAttempts THEN @ + 1 ELSE @]
            /\ accepted' = [accepted EXCEPT ![p[1]] = @ \/ taken]
            /\ ok' = [ok EXCEPT ![w] = answered]
      BY <2>5 DEF Post
    <3>2. /\ p \in Leased /\ p[1] \in Deliveries /\ p[2] \in Nat /\ p[2] <= attempt[p[1]]
          /\ pc' = [pc EXCEPT ![w] = "record"] /\ UNCHANGED <<status, attempt, shredded>>
      BY <2>5, <3>1 DEF Post, TypeOK
    <3>3. \A d \in Deliveries : posts'[d] >= posts[d] /\ (accepted[d] => accepted'[d])
      BY <2>0, <3>1, <3>2 DEF TypeOK
    <3>4. posts'[p[1]] >= p[2]
      BY <2>0, <3>1, <3>2 DEF TypeOK
    <3>5. \A v \in Workers : pc'[v] = "record" => /\ posts'[current'[v][1]] >= current'[v][2]
                                                  /\ ok'[v] => accepted'[current'[v][1]]
      <4>1. accepted'[p[1]] = (accepted[p[1]] \/ taken)
        BY <3>1, <3>2 DEF TypeOK
      <4>2. ok'[w] => accepted'[p[1]]
        BY <3>1, <4>1 DEF TypeOK
      <4>3. current'[w] = p
        BY <3>1 DEF TypeOK
      <4>4. \A v \in Workers \ {w} : pc'[v] = pc[v] /\ current'[v] = current[v] /\ ok'[v] = ok[v]
        BY <3>1, <3>2 DEF TypeOK
      <4>5. posts' \in [Deliveries -> 0..MaxAttempts]
        BY DEF TypeOK
      <4>6. \A v \in Workers \ {w} : pc[v] = "record" =>
               posts'[current[v][1]] >= posts[current[v][1]] /\ posts'[current[v][1]] \in Nat
        BY <2>0, <3>3, <4>5
      <4> QED
        BY <2>0, <3>3, <3>4, <4>2, <4>3, <4>4, <4>6
    <3>6. \A d \in Deliveries : posts'[d] \in Nat /\ posts'[d] <= MaxAttempts
      BY DEF TypeOK
    <3>7. \A d \in Deliveries : posts[d] = MaxAttempts => posts'[d] = MaxAttempts
      BY <2>0, <3>3, <3>6
    <3>8. \A v \in Workers : \A q \in batch'[v] : q \in batch[v]
      BY <3>1 DEF TypeOK
    <3> QED
      BY <2>0, <3>2, <3>3, <3>5, <3>6, <3>7, <3>8
  <2>6. ASSUME NEW w \in Workers, Record(w) PROVE AttemptsBacked'
    <3>1. /\ UNCHANGED <<posts, accepted, shredded>>
          /\ \A v \in Workers : pc'[v] = "record" =>
               v # w /\ pc[v] = "record" /\ current'[v] = current[v] /\ ok'[v] = ok[v]
          /\ \A v \in Workers : batch'[v] \subseteq batch[v]
      <4>1. /\ UNCHANGED <<posts, accepted, shredded>>
            /\ Forget(w)
            /\ pc' = [pc EXCEPT ![w] = "off"] \/ pc' = [pc EXCEPT ![w] = "batch"]
            /\ batch' = batch \/ batch' = [batch EXCEPT ![w] = {}]
        BY <2>6 DEF Record, Abort, endpointVars
      <4>2. \A v \in Workers \ {w} : current'[v] = current[v] /\ ok'[v] = ok[v]
        BY <4>1 DEF Forget, TypeOK
      <4>3. \A v \in Workers : pc'[v] = "record" => v # w /\ pc[v] = "record"
        BY <4>1 DEF TypeOK
      <4>4. \A v \in Workers : batch'[v] \subseteq batch[v]
        <5>1. CASE batch' = [batch EXCEPT ![w] = {}]
          <6>1. batch \in [Workers -> SUBSET Leased]
            BY DEF TypeOK
          <6>2. \A v \in Workers : batch'[v] = {} \/ batch'[v] = batch[v]
            BY <5>1, <6>1
          <6> QED
            BY <6>2
        <5> QED
          BY <4>1, <5>1
      <4> QED
        BY <4>1, <4>2, <4>3, <4>4
    <3>2. CASE UNCHANGED rowVars
      BY <3>1, <3>2
    <3>3. CASE UpdateRow(w)
      <4> DEFINE d == current[w][1]
      <4>1. /\ pc[w] = "record" /\ d \in Deliveries /\ current[w][2] = attempt[d]
            /\ status' = [status EXCEPT ![d] = Verdict(w)]
            /\ \/ /\ Verdict(w) = "retry" /\ attempt[d] < MaxAttempts
                  /\ attempt' = [attempt EXCEPT ![d] = @ + 1]
               \/ Verdict(w) # "retry" /\ attempt' = attempt
        BY <2>6, <3>3, UpdateEffect DEF Record
      <4>2. posts[d] >= attempt[d] /\ (ok[w] => accepted[d])
        BY <4>1
      <4>3. Verdict(w) = "delivered" => accepted[d]
        BY <4>2 DEF Verdict
      <4>4. Verdict(w) = "failed" => posts[d] = MaxAttempts
        BY <2>0, <4>1, <4>2 DEF Verdict
      <4>5. \A x \in Deliveries : attempt'[x] >= attempt[x] /\ posts[x] + 1 >= attempt'[x]
        <5>1. attempt \in [Deliveries -> 1..MaxAttempts]
          BY DEF TypeOK
        <5>2. \A x \in Deliveries : x # d => attempt'[x] = attempt[x]
          BY <4>1, <5>1
        <5>3. attempt'[d] \in {attempt[d], attempt[d] + 1}
          BY <4>1, <5>1
        <5> QED
          BY <2>0, <4>1, <4>2, <5>2, <5>3
      <4>6. \A v \in Workers : \A p \in batch'[v] : p[2] <= attempt'[p[1]]
        <5>1. \A v \in Workers : \A p \in batch'[v] :
                /\ p[1] \in Deliveries /\ p[2] \in Nat /\ p[2] <= attempt[p[1]]
          BY <2>0, <3>1
        <5>2. \A x \in Deliveries : attempt'[x] \in Nat /\ attempt[x] \in Nat
          BY DEF TypeOK
        <5> QED
          BY <4>5, <5>1, <5>2
      <4>7. \A x \in Deliveries : status'[x] = IF x = d THEN Verdict(w) ELSE status[x]
        BY <4>1 DEF TypeOK
      <4> QED
        BY <3>1, <4>3, <4>4, <4>5, <4>6, <4>7
    <3> QED
      BY <2>6, <3>2, <3>3 DEF Record
  <2>7. ASSUME NEW w \in Workers, Done(w) PROVE AttemptsBacked'
    BY <2>7 DEF Done, TypeOK
  <2>8. ASSUME NEW w \in Workers, Crash(w) PROVE AttemptsBacked'
    <3>1. /\ UNCHANGED <<posts, accepted, shredded, rowVars>>
          /\ \A v \in Workers : pc'[v] = "record" =>
               pc[v] = "record" /\ current'[v] = current[v] /\ ok'[v] = ok[v]
          /\ \A v \in Workers : batch'[v] \subseteq batch[v]
      BY <2>8 DEF Crash, Abort, Forget, TypeOK
    <3> QED
      BY <3>1
  <2>9. CASE UNCHANGED vars
    BY <2>9 DEF vars
  <2> QED
    BY <2>1, <2>2, <2>3, <2>4, <2>5, <2>6, <2>7, <2>8, <2>9 DEF Next, Worker
<1> QED
  BY <1>1, <1>2, WebhookTyped, PTL DEF Spec

(* A delivery is given up only after the whole backoff ladder, for every   *)
(* number of overlapping workers and lost record calls.                    *)
THEOREM WebhookGivesUpAfterLadder == Spec => []GivesUpAfterLadder
<1>1. AttemptsBacked => GivesUpAfterLadder
  BY DEF AttemptsBacked
<1> QED
  BY <1>1, WebhookAttemptsBacked, PTL

-----------------------------------------------------------------------------
(* A held row is not due, unless its lease was outlived or it is settled,  *)
(* so no second worker can claim it.                                       *)
HeldInv ==
    \A w \in Workers, d \in Deliveries : Holds(w, d) =>
        status[d] # "free" /\ (Open(d) /\ ~outlived[d] => ~due[d])

(* Only a claim of a due row makes a worker hold it.                       *)
LEMMA HolderStep ==
    ASSUME TypeOK, [Next]_vars, NEW w \in Workers, NEW d \in Deliveries, Holds(w, d)'
    PROVE  Holds(w, d) \/ (Claim(w) /\ Open(d) /\ due[d] /\ ~due'[d])
<1> USE DEF TypeOK, Holds
<1>1. CASE Claim(w)
  <2>1. PICK S \in SUBSET {x \in Deliveries : Claimable(x)} :
          /\ due' = [x \in Deliveries |-> due[x] /\ x \notin S]
          /\ batch' = [batch EXCEPT ![w] = {<<x, attempt[x]>> :
                                              x \in S \ {y \in S : EndpointOf[y] \in shredded}}]
    BY <1>1 DEF Claim
  <2>2. pc'[w] = "batch" /\ \E a \in 1..MaxAttempts : <<d, a>> \in batch'[w]
    BY <1>1 DEF Claim
  <2>3. d \in S
    BY <2>1, <2>2
  <2> QED
    BY <1>1, <2>1, <2>3 DEF Claimable
<1>2. ASSUME NEW v \in Workers \ {w}, Claim(v) PROVE Holds(w, d)
  <2>1. pc'[w] = pc[w] /\ current' = current
    BY <1>2 DEF Claim
  <2>2. batch'[w] = batch[w]
    BY <1>2 DEF Claim
  <2> QED
    BY <2>1, <2>2
<1>3. ASSUME NEW v \in Workers, Post(v) PROVE Holds(w, d)
  <2>1. PICK p \in batch[v] : /\ batch' = [batch EXCEPT ![v] = @ \ {p}]
                              /\ current' = [current EXCEPT ![v] = p]
    BY <1>3 DEF Post
  <2>2. pc[v] = "batch" /\ pc' = [pc EXCEPT ![v] = "record"]
    BY <1>3 DEF Post
  <2>3. p \in Leased /\ p = <<p[1], p[2]>> /\ p[2] \in 1..MaxAttempts
    BY <2>1
  <2>4. CASE w # v
    BY <2>1, <2>2, <2>4
  <2>5. CASE w = v
    <3>1. current'[w] = p /\ batch'[w] \subseteq batch[w] /\ pc[w] # "off"
      BY <2>1, <2>2, <2>5
    <3>2. d = p[1] => <<d, p[2]>> \in batch[w]
      BY <2>1, <2>3, <2>5
    <3> QED
      BY <2>3, <3>1, <3>2
  <2> QED
    BY <2>4, <2>5
<1>4. ASSUME NEW v \in Workers, Record(v) \/ Done(v) \/ Crash(v) PROVE Holds(w, d)
  <2>1. /\ current' = current \/ current' = [current EXCEPT ![v] = <<>>]
        /\ batch' = batch \/ batch' = [batch EXCEPT ![v] = {}]
        /\ pc' = [pc EXCEPT ![v] = "off"] \/ (pc[v] = "record" /\ pc' = [pc EXCEPT ![v] = "batch"])
    BY <1>4 DEF Record, Done, Crash, Abort, Forget
  <2>2. batch'[w] \subseteq batch[w]
    BY <2>1
  <2>3. pc'[w] # "off" => pc[w] # "off"
    BY <2>1
  <2>4. pc'[w] = "record" => pc[w] = "record" /\ current'[w] = current[w]
    BY <2>1
  <2> QED
    BY <2>2, <2>3, <2>4
<1>5. CASE UNCHANGED workerVars
  BY <1>5
<1> QED
  BY <1>1, <1>2, <1>3, <1>4, <1>5
     DEF Next, Worker, Enqueue, BecomesDue, SwitchEndpoint, ShredKey, DeleteEndpoint, vars

LEMMA HeldStep ==
    ASSUME TypeOK, HeldInv, [Next]_vars, NEW w \in Workers, NEW d \in Deliveries, Holds(w, d)'
    PROVE  status'[d] # "free" /\ (Open(d)' /\ ~outlived'[d] => ~due'[d])
<1> USE DEF TypeOK, Open
<1>1. CASE Holds(w, d)
  <2>1. status[d] # "free" /\ (Open(d) /\ ~outlived[d] => ~due[d])
    BY <1>1 DEF HeldInv
  <2>2. ASSUME NEW e \in Deliveries, Enqueue(e) \/ BecomesDue(e)
        PROVE  status'[d] # "free" /\ (Open(d)' /\ ~outlived'[d] => ~due'[d])
    <3>1. CASE Enqueue(e)
      BY <2>1, <3>1 DEF Enqueue
    <3>2. CASE BecomesDue(e)
      <4>1. status' = status /\ (d = e => outlived'[d])
        BY <1>1, <3>2 DEF BecomesDue
      <4>2. d # e => due'[d] = due[d] /\ outlived'[d] = outlived[d]
        BY <3>2 DEF BecomesDue
      <4> QED
        BY <2>1, <4>1, <4>2
    <3> QED
      BY <2>2, <3>1, <3>2
  <2>3. ASSUME NEW e \in Endpoints, SwitchEndpoint(e) \/ ShredKey(e) \/ DeleteEndpoint(e)
        PROVE  status'[d] # "free" /\ (Open(d)' /\ ~outlived'[d] => ~due'[d])
    BY <2>1, <2>3 DEF SwitchEndpoint, ShredKey, DeleteEndpoint
  <2>4. ASSUME NEW v \in Workers, Claim(v)
        PROVE  status'[d] # "free" /\ (Open(d)' /\ ~outlived'[d] => ~due'[d])
    <3>1. status'[d] \in {status[d], "failed"} /\ (due'[d] => due[d]) /\ outlived' = outlived
      BY <2>4 DEF Claim
    <3> QED
      BY <2>1, <3>1
  <2>5. ASSUME NEW v \in Workers, Record(v), UpdateRow(v)
        PROVE  status'[d] # "free" /\ (Open(d)' /\ ~outlived'[d] => ~due'[d])
    <3> DEFINE x == current[v][1]
    <3>1. x \in Deliveries /\ Open(x) /\ status' = [status EXCEPT ![x] = Verdict(v)]
      BY <2>5, UpdateEffect DEF Record
    <3>2. due' = [due EXCEPT ![x] = IF Verdict(v) = "retry" THEN FALSE ELSE @] /\ outlived' = outlived
      BY <2>5 DEF UpdateRow, Record
    <3> QED
      BY <2>1, <3>1, <3>2, VerdictStatus
  <2>6. CASE UNCHANGED <<rowVars, outlived>>
    BY <2>1, <2>6
  <2> QED
    BY <2>2, <2>3, <2>4, <2>5, <2>6 DEF Next, Worker, Post, Record, Done, Crash, vars
<1>2. CASE Claim(w) /\ Open(d) /\ due[d] /\ ~due'[d]
  BY <1>2 DEF Claim
<1> QED
  BY <1>1, <1>2, HolderStep

(* A settled or deleted row is never open again.                           *)
LEMMA ClosedStep ==
    ASSUME TypeOK, [Next]_vars, NEW d \in Deliveries, status[d] # "free", Open(d)'
    PROVE  Open(d)
<1> USE DEF TypeOK, Open
<1>1. ASSUME NEW e \in Deliveries, Enqueue(e) \/ BecomesDue(e) PROVE Open(d)
  BY <1>1 DEF Enqueue, BecomesDue
<1>2. ASSUME NEW e \in Endpoints, SwitchEndpoint(e) \/ ShredKey(e) \/ DeleteEndpoint(e)
      PROVE  Open(d)
  BY <1>2 DEF SwitchEndpoint, ShredKey, DeleteEndpoint
<1>3. ASSUME NEW w \in Workers, Claim(w) PROVE Open(d)
  BY <1>3 DEF Claim
<1>4. ASSUME NEW w \in Workers, Record(w), UpdateRow(w) PROVE Open(d)
  BY <1>4, UpdateEffect DEF Record
<1>5. CASE UNCHANGED status
  BY <1>5
<1> QED
  BY <1>1, <1>2, <1>3, <1>4, <1>5 DEF Next, Worker, Post, Record, Done, Crash, vars

(* Unless a lease was outlived, an open delivery is in one worker's hands. *)
THEOREM WebhookLeaseExcludes == Spec => []LeaseExcludes
<1>1. Init => HeldInv /\ LeaseExcludes
  BY DEF Init, HeldInv, LeaseExcludes, Holds
<1>2. TypeOK /\ HeldInv /\ LeaseExcludes /\ [Next]_vars => (HeldInv /\ LeaseExcludes)'
  <2> SUFFICES ASSUME TypeOK, HeldInv, LeaseExcludes, [Next]_vars
               PROVE  HeldInv' /\ LeaseExcludes'
    OBVIOUS
  <2>1. HeldInv'
    BY HeldStep DEF HeldInv
  <2>2. LeaseExcludes'
    <3> SUFFICES ASSUME NEW d \in Deliveries, NEW v \in Workers, NEW w \in Workers, v # w,
                        ~outlived'[d], Open(d)', Holds(v, d)', Holds(w, d)'
                 PROVE  FALSE
      BY DEF LeaseExcludes
    <3>1. ASSUME NEW x \in Workers, NEW y \in Workers, x # y, Claim(x), Open(d), due[d],
                 Holds(y, d)'
          PROVE  FALSE
      <4>1. outlived' = outlived /\ pc[x] = "off" /\ pc'[y] = pc[y]
        BY <3>1 DEF Claim, TypeOK
      <4>2. ~Holds(y, d)
        BY <3>1, <4>1 DEF HeldInv
      <4>3. Claim(y)
        BY <3>1, <4>2, HolderStep
      <4>4. pc[y] = "off" /\ pc'[y] = "batch"
        BY <4>3 DEF Claim, TypeOK
      <4> QED
        BY <4>1, <4>4
    <3>2. Holds(v, d) /\ Holds(w, d)
      BY <3>1, HolderStep
    <3>3. status[d] # "free"
      BY <3>2 DEF HeldInv
    <3>4. Open(d) /\ ~outlived[d]
      <4>1. outlived'[d] = FALSE /\ Open(d)'
        OBVIOUS
      <4>2. ~outlived[d]
        BY <4>1 DEF Next, Worker, Enqueue, BecomesDue, SwitchEndpoint, ShredKey, DeleteEndpoint, Claim,
                    Post, Record, Done, Crash, vars, TypeOK
      <4>3. Open(d)
        BY <3>3, <4>1, ClosedStep
      <4> QED
        BY <4>2, <4>3
    <3> QED
      BY <3>2, <3>4 DEF LeaseExcludes
  <2> QED
    BY <2>1, <2>2
<1> QED
  BY <1>1, <1>2, WebhookTyped, PTL DEF Spec

-----------------------------------------------------------------------------
(* The promise of Notification                                             *)

outcome == [d \in Deliveries |-> Shown(status[d])]
promised == <<outcome, attempt, posts, accepted, shredded>>

(* What a record call does to its row is a rung climbed or an outcome.     *)
LEMMA UpdateKeepsPromise ==
    ASSUME TypeOK, AttemptsBacked, NEW w \in Workers, pc[w] = "record", UpdateRow(w),
           UNCHANGED <<posts, accepted, shredded>>
    PROVE  Promise!Next
<1> DEFINE d == current[w][1]
<1>1. /\ d \in Deliveries /\ Open(d) /\ current[w][2] = attempt[d]
      /\ status' = [status EXCEPT ![d] = Verdict(w)]
      /\ \/ /\ Verdict(w) = "retry" /\ attempt[d] < MaxAttempts
            /\ attempt' = [attempt EXCEPT ![d] = @ + 1]
         \/ Verdict(w) # "retry" /\ attempt' = attempt
  BY UpdateEffect
<1>2. posts[d] >= attempt[d] /\ (ok[w] => accepted[d])
  BY <1>1 DEF AttemptsBacked
<1>3. outcome[d] = "open"
  BY <1>1 DEF outcome, Shown, Open
<1>4. outcome' = [outcome EXCEPT ![d] = Shown(Verdict(w))]
  BY <1>1 DEF outcome, TypeOK
<1>5. CASE Verdict(w) = "retry"
  <2>1. outcome' = outcome
    BY <1>1, <1>3, <1>4, <1>5 DEF outcome, Shown, TypeOK
  <2>2. Promise!Climb(d)
    BY <1>1, <1>2, <1>3, <1>5, <2>1 DEF Promise!Climb, outcome, TypeOK
  <2> QED
    BY <1>1, <2>2 DEF Promise!Next
<1>6. CASE Verdict(w) = "delivered"
  <2>1. Promise!Deliver(d)
    BY <1>1, <1>2, <1>3, <1>4, <1>6 DEF Verdict, Promise!Deliver, Promise!Shows, outcome, Shown
  <2> QED
    BY <1>1, <2>1 DEF Promise!Next
<1>7. CASE Verdict(w) = "failed"
  <2>1. attempt[d] = MaxAttempts /\ posts[d] = MaxAttempts
    BY <1>1, <1>2, <1>7 DEF Verdict, TypeOK
  <2>2. Promise!GiveUp(d)
    BY <1>1, <1>3, <1>4, <1>7, <2>1 DEF Promise!GiveUp, Promise!Shows, outcome, Shown
  <2> QED
    BY <1>1, <2>2 DEF Promise!Next
<1> QED
  BY <1>5, <1>6, <1>7, VerdictStatus

(* A held delivery exists, so what is posted was reported by an event.     *)
LEMMA WebhookHeld == Spec => []HeldInv
<1>1. Init => HeldInv
  BY DEF Init, HeldInv, Holds
<1>2. TypeOK /\ HeldInv /\ [Next]_vars => HeldInv'
  <2> SUFFICES ASSUME TypeOK, HeldInv, [Next]_vars PROVE HeldInv'
    OBVIOUS
  <2> QED
    BY HeldStep DEF HeldInv
<1> QED
  BY <1>1, <1>2, WebhookTyped, PTL DEF Spec

LEMMA PostKeepsPromise ==
    ASSUME TypeOK, HeldInv, NEW w \in Workers, Post(w) PROVE Promise!Next
<1>1. PICK p \in batch[w], taken \in BOOLEAN :
        /\ posts' = [posts EXCEPT ![p[1]] = IF @ < MaxAttempts THEN @ + 1 ELSE @]
        /\ accepted' = [accepted EXCEPT ![p[1]] = @ \/ taken]
  BY DEF Post
<1>2. p \in Leased /\ p = <<p[1], p[2]>> /\ p[1] \in Deliveries /\ p[2] \in 1..MaxAttempts
  BY DEF TypeOK
<1>3. Holds(w, p[1])
  BY <1>1, <1>2 DEF Holds, Post
<1>4. status[p[1]] # "free"
  BY <1>2, <1>3 DEF HeldInv
<1>5. outcome[p[1]] # "none"
  BY <1>2, <1>4 DEF outcome, Shown, TypeOK
<1>6. UNCHANGED <<outcome, attempt, shredded>>
  BY DEF Post, outcome
<1>7. Promise!Post(p[1], taken)
  BY <1>1, <1>5, <1>6 DEF Promise!Post, outcome
<1> QED
  BY <1>2, <1>7 DEF Promise!Next

(* A claim shows only as the rows it fails for their unreadable secret.    *)
LEMMA ClaimKeepsPromise ==
    ASSUME TypeOK, NEW w \in Workers, Claim(w) PROVE Promise!Next
<1>1. PICK S \in SUBSET {d \in Deliveries : Claimable(d)} :
        status' = [d \in Deliveries |-> IF d \in {x \in S : EndpointOf[x] \in shredded}
                                        THEN "failed" ELSE status[d]]
  BY DEF Claim
<1> DEFINE bad == {x \in S : EndpointOf[x] \in shredded}
<1>2. bad \in SUBSET Deliveries
  OBVIOUS
<1>3. \A d \in bad : outcome[d] = "open" /\ EndpointOf[d] \in shredded
  BY DEF outcome, Shown, Claimable, Open
<1>4. outcome' = [d \in Deliveries |-> IF d \in bad THEN "failed" ELSE outcome[d]]
  BY <1>1 DEF outcome, Shown
<1>5. UNCHANGED <<attempt, posts, accepted, shredded>>
  BY DEF Claim
<1>6. Promise!GiveUpUnreadable(bad)
  BY <1>3, <1>4, <1>5 DEF Promise!GiveUpUnreadable, outcome
<1> QED
  BY <1>2, <1>6 DEF Promise!Next

LEMMA DeletionKeepsPromise ==
    ASSUME TypeOK, NEW e \in Endpoints, DeleteEndpoint(e) PROVE Promise!Next
<1>1. /\ status' = [d \in Deliveries |-> IF EndpointOf[d] = e /\ status[d] # "free"
                                         THEN "deleted" ELSE status[d]]
      /\ UNCHANGED <<attempt, posts, accepted, shredded>>
  BY DEF DeleteEndpoint
<1>2. \A d \in Deliveries : status[d] # "free" <=> outcome[d] # "none"
  BY DEF outcome, Shown, TypeOK
<1>3. outcome' = [d \in Deliveries |-> IF EndpointOf[d] = e /\ outcome[d] # "none"
                                       THEN "deleted" ELSE outcome[d]]
  <2>1. outcome' = [d \in Deliveries |-> Shown(status'[d])]
    BY DEF outcome, Shown
  <2>2. \A d \in Deliveries : Shown(status'[d]) = IF EndpointOf[d] = e /\ outcome[d] # "none"
                                                  THEN "deleted" ELSE outcome[d]
    BY <1>1, <1>2 DEF outcome, Shown
  <2> QED
    BY <2>1, <2>2
<1>4. Promise!Withdraw(e)
  BY <1>1, <1>3 DEF Promise!Withdraw, outcome
<1> QED
  BY <1>4 DEF Promise!Next

(* WebhookDelivery implements Notification: whatever the workers do, crash *)
(* in, repeat or record late, the client sees one outcome of each event,   *)
(* reached by climbing the ladder, and that outcome stays.                 *)
THEOREM WebhookPromiseKept == Spec => PromiseKept
<1>1. Init => Promise!Init
  BY DEF Init, Promise!Init, Shown
<1>2. TypeOK /\ AttemptsBacked /\ HeldInv /\ [Next]_vars => [Promise!Next]_(Promise!vars)
  <2> SUFFICES ASSUME TypeOK, AttemptsBacked, HeldInv, [Next]_vars
               PROVE  Promise!Next \/ UNCHANGED promised
    BY DEF promised, outcome, Promise!vars
  <2>1. ASSUME NEW d \in Deliveries, Enqueue(d) PROVE Promise!Next
    <3>1. outcome[d] = "none" /\ outcome' = [outcome EXCEPT ![d] = "open"]
      BY <2>1 DEF Enqueue, outcome, Shown, TypeOK
    <3>2. Promise!Occurs(d)
      BY <2>1, <3>1 DEF Enqueue, Promise!Occurs, Promise!Shows, outcome
    <3> QED
      BY <3>2 DEF Promise!Next
  <2>2. ASSUME NEW d \in Deliveries, BecomesDue(d) PROVE UNCHANGED promised
    BY <2>2 DEF BecomesDue, promised, outcome
  <2>3. ASSUME NEW e \in Endpoints, SwitchEndpoint(e) PROVE UNCHANGED promised
    BY <2>3 DEF SwitchEndpoint, promised, outcome
  <2>4. ASSUME NEW e \in Endpoints, ShredKey(e) PROVE Promise!Next
    <3>1. Promise!LoseKey(e)
      BY <2>4 DEF ShredKey, Promise!LoseKey
    <3> QED
      BY <3>1 DEF Promise!Next
  <2>5. ASSUME NEW w \in Workers, Record(w) PROVE Promise!Next \/ UNCHANGED promised
    <3>1. CASE UpdateRow(w)
      BY <2>5, <3>1, UpdateKeepsPromise DEF Record
    <3>2. CASE UNCHANGED rowVars
      BY <2>5, <3>2 DEF Record, promised, outcome
    <3> QED
      BY <2>5, <3>1, <3>2 DEF Record
  <2>6. ASSUME NEW w \in Workers, Done(w) \/ Crash(w) PROVE UNCHANGED promised
    BY <2>6 DEF Done, Crash, promised, outcome
  <2>7. CASE UNCHANGED vars
    BY <2>7 DEF vars, promised, outcome
  <2> QED
    BY <2>1, <2>2, <2>3, <2>4, <2>5, <2>6, <2>7, PostKeepsPromise, ClaimKeepsPromise,
       DeletionKeepsPromise DEF Next, Worker
<1> QED
  BY <1>1, <1>2, WebhookTyped, WebhookAttemptsBacked, WebhookHeld, PTL DEF Spec, PromiseKept, Promise!Spec
====
