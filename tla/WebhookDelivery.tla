--------------------------- MODULE WebhookDelivery ---------------------------
(***************************************************************************)
(* Outbound webhooks: the queue webhook_deliveries, filled by triggers in  *)
(* the transaction of the change they report, and the cron worker that     *)
(* leases due rows for five minutes, posts each payload and records the    *)
(* result.                                                                 *)
(*                                                                         *)
(* webhook_deliveries_due tests status and next_at on the very row it      *)
(* locks, so PostgreSQL re-checks them after a concurrent claim commits:   *)
(* a claim is one step.  due[d] says next_at <= now(): a lease and a       *)
(* backoff are both a next_at in the future.                               *)
(***************************************************************************)
EXTENDS Naturals, FiniteSets

CONSTANTS
    Deliveries,   \* ids of webhook_deliveries rows
    Endpoints,    \* webhook_endpoints rows
    EndpointOf,   \* the endpoint a delivery is queued for
    Workers,      \* runs of the webhook cron that may overlap
    Limit,        \* rows of one claim (20)
    MaxAttempts,  \* one more than the entries of BACKOFF_SECONDS (6)
    MaxFaults     \* bound: crashes and failed or lost record calls

ASSUME WebhookAssumption ==
    /\ EndpointOf \in [Deliveries -> Endpoints]
    /\ Limit \in Nat \ {0}
    /\ MaxAttempts \in Nat \ {0}
    /\ MaxFaults \in Nat

VARIABLES
    active,    \* endpoints switched on
    shredded,  \* endpoints whose signing secret can no longer be decrypted
    deleted,   \* endpoints deleted
    status,    \* webhook_deliveries.status; "free" before the event
    attempt,   \* webhook_deliveries.attempt
    due,       \* next_at has passed
    posts,     \* how often the endpoint was posted this delivery, up to MaxAttempts
    accepted,  \* the endpoint has answered 2xx to it
    outlived,  \* a lease on it ran out under a worker still holding it
    pc,        \* "off", "batch" or "record"
    batch,     \* the <<delivery, attempt>> pairs a worker has not posted yet
    current,   \* the pair it has posted
    ok,        \* the answer to it was 2xx
    faults

rowVars    == <<status, attempt, due>>
workerVars == <<pc, batch, current, ok>>
endpointVars == <<active, shredded, deleted>>
vars == <<active, shredded, deleted, status, attempt, due, posts, accepted, outlived,
          pc, batch, current, ok, faults>>

Status == {"free", "pending", "retry", "delivered", "failed", "deleted"}
Leased == Deliveries \X (1..MaxAttempts)

TypeOK ==
    /\ {active, shredded, deleted} \subseteq SUBSET Endpoints
    /\ status \in [Deliveries -> Status]
    /\ attempt \in [Deliveries -> 1..MaxAttempts]
    /\ due \in [Deliveries -> BOOLEAN]
    /\ posts \in [Deliveries -> 0..MaxAttempts]
    /\ accepted \in [Deliveries -> BOOLEAN]
    /\ outlived \in [Deliveries -> BOOLEAN]
    /\ pc \in [Workers -> {"off", "batch", "record"}]
    /\ batch \in [Workers -> SUBSET Leased]
    /\ current \in [Workers -> Leased \cup {<<>>}]
    /\ \A w \in Workers : pc[w] = "record" => current[w] \in Leased
    /\ ok \in [Workers -> BOOLEAN]
    /\ faults \in 0..MaxFaults

Init ==
    /\ active \in SUBSET Endpoints /\ shredded = {} /\ deleted = {}
    /\ status = [d \in Deliveries |-> "free"]
    /\ attempt = [d \in Deliveries |-> 1]
    /\ due = [d \in Deliveries |-> FALSE]
    /\ posts = [d \in Deliveries |-> 0]
    /\ accepted = [d \in Deliveries |-> FALSE]
    /\ outlived = [d \in Deliveries |-> FALSE]
    /\ pc = [w \in Workers |-> "off"]
    /\ batch = [w \in Workers |-> {}]
    /\ current = [w \in Workers |-> <<>>]
    /\ ok = [w \in Workers |-> FALSE]
    /\ faults = 0

Open(d) == status[d] \in {"pending", "retry"}
Listening(d) == EndpointOf[d] \in active \ deleted
Holds(w, d) ==
    \/ pc[w] # "off" /\ \E a \in 1..MaxAttempts : <<d, a>> \in batch[w]
    \/ pc[w] = "record" /\ current[w][1] = d
Fault == faults < MaxFaults /\ faults' = faults + 1

-----------------------------------------------------------------------------
(* webhook_enqueue, called by the triggers                                 *)
Enqueue(d) ==
    /\ status[d] = "free" /\ Listening(d)
    /\ status' = [status EXCEPT ![d] = "pending"]
    /\ due' = [due EXCEPT ![d] = TRUE]
    /\ UNCHANGED <<endpointVars, attempt, posts, accepted, outlived, workerVars, faults>>

(* webhook_upsert switches an endpoint on or off.                          *)
SwitchEndpoint(e) ==
    /\ e \notin deleted
    /\ active' = IF e \in active THEN active \ {e} ELSE active \cup {e}
    /\ UNCHANGED <<shredded, deleted, rowVars, posts, accepted, outlived, workerVars, faults>>

(* The tenant's key is destroyed: the signing secret cannot be decrypted.  *)
ShredKey(e) ==
    /\ e \notin deleted \cup shredded
    /\ shredded' = shredded \cup {e}
    /\ UNCHANGED <<active, deleted, rowVars, posts, accepted, outlived, workerVars, faults>>

(* webhook_delete; its deliveries go with it.                              *)
DeleteEndpoint(e) ==
    /\ e \notin deleted
    /\ deleted' = deleted \cup {e}
    /\ status' = [d \in Deliveries |-> IF EndpointOf[d] = e /\ status[d] # "free"
                                       THEN "deleted" ELSE status[d]]
    /\ UNCHANGED <<active, shredded, attempt, due, posts, accepted, outlived, workerVars, faults>>

-----------------------------------------------------------------------------
(* The worker *)

Claimable_PendingOnly(d) == status[d] = "pending" /\ due[d] /\ Listening(d)
Claimable_Leased(d) == Open(d) /\ Listening(d)
Claimable(d) == Open(d) /\ due[d] /\ Listening(d)

(* webhook_deliveries_due.  Rows a concurrent claim has locked are skipped *)
(* (any subset); a row whose secret cannot be decrypted fails at once.     *)
Claim(w) ==
    /\ pc[w] = "off"
    /\ \E S \in SUBSET {d \in Deliveries : Claimable(d)} :
         LET bad == {d \in S : EndpointOf[d] \in shredded} IN
         /\ S # {} /\ Cardinality(S) <= Limit
         /\ status' = [d \in Deliveries |-> IF d \in bad THEN "failed" ELSE status[d]]
         /\ due' = [d \in Deliveries |-> due[d] /\ d \notin S]
         /\ batch' = [batch EXCEPT ![w] = {<<d, attempt[d]>> : d \in S \ bad}]
    /\ pc' = [pc EXCEPT ![w] = "batch"]
    /\ UNCHANGED <<endpointVars, attempt, posts, accepted, outlived, current, ok, faults>>

(* deliverWebhook: the signed POST.  A refused address, a timeout after 10 *)
(* seconds and an answer outside 2xx are all failures.  A post that was    *)
(* accepted may still look like a failure (the answer was lost).           *)
Post(w) ==
    /\ pc[w] = "batch"
    /\ \E p \in batch[w], taken, answered \in BOOLEAN :
         /\ answered => taken
         /\ batch' = [batch EXCEPT ![w] = @ \ {p}]
         /\ current' = [current EXCEPT ![w] = p]
         /\ posts' = [posts EXCEPT ![p[1]] = IF @ < MaxAttempts THEN @ + 1 ELSE @]
         /\ accepted' = [accepted EXCEPT ![p[1]] = @ \/ taken]
         /\ ok' = [ok EXCEPT ![w] = answered]
    /\ pc' = [pc EXCEPT ![w] = "record"]
    /\ UNCHANGED <<endpointVars, rowVars, outlived, faults>>

(* BACKOFF_SECONDS[attempt - 1] is undefined on the last attempt.          *)
Verdict_EarlyGiveUp(w) ==
    IF ok[w] THEN "delivered" ELSE IF current[w][2] + 1 < MaxAttempts THEN "retry" ELSE "failed"
Verdict_NoLimit(w) == IF ok[w] THEN "delivered" ELSE "retry"
Verdict(w) ==
    IF ok[w] THEN "delivered" ELSE IF current[w][2] < MaxAttempts THEN "retry" ELSE "failed"

(* WHERE id = p_id AND status IN ('pending', 'retry') AND attempt = p_attempt *)
Recordable_AnyStatus(w) == LET d == current[w][1] IN status[d] # "deleted" /\ attempt[d] = current[w][2]
Recordable_AnyAttempt(w) == LET d == current[w][1] IN Open(d)
Recordable(w) == LET d == current[w][1] IN Open(d) /\ attempt[d] = current[w][2]

(* webhook_delivery_record                                                 *)
UpdateRow(w) ==
    LET d == current[w][1] IN
    /\ Recordable(w)
    /\ status' = [status EXCEPT ![d] = Verdict(w)]
    /\ attempt' = [attempt EXCEPT ![d] = IF Verdict(w) = "retry" THEN current[w][2] + 1
                                         ELSE current[w][2]]
    /\ due' = [due EXCEPT ![d] = IF Verdict(w) = "retry" THEN FALSE ELSE @]

Forget(w) ==
    /\ current' = [current EXCEPT ![w] = <<>>]
    /\ ok' = [ok EXCEPT ![w] = FALSE]

(* A row is no longer recordable, or the call fails or its answer is lost: *)
(* the handler throws and the rest of its batch waits for the lease to end. *)
Abort(w) ==
    /\ pc' = [pc EXCEPT ![w] = "off"]
    /\ batch' = [batch EXCEPT ![w] = {}]
    /\ Forget(w)

Record(w) ==
    /\ pc[w] = "record"
    /\ \/ /\ UpdateRow(w) /\ Forget(w)
          /\ pc' = [pc EXCEPT ![w] = "batch"]
          /\ UNCHANGED <<batch, faults>>
       \/ ~Recordable(w) /\ Abort(w) /\ UNCHANGED <<rowVars, faults>>
       \/ Fault /\ Abort(w) /\ (UpdateRow(w) \/ UNCHANGED rowVars)
    /\ UNCHANGED <<endpointVars, posts, accepted, outlived>>

Done(w) ==
    /\ pc[w] = "batch" /\ batch[w] = {}
    /\ pc' = [pc EXCEPT ![w] = "off"]
    /\ UNCHANGED <<endpointVars, rowVars, posts, accepted, outlived, batch, current, ok, faults>>

Crash(w) ==
    /\ pc[w] # "off" /\ Fault /\ Abort(w)
    /\ UNCHANGED <<endpointVars, rowVars, posts, accepted, outlived>>

(* next_at passes.  Twenty posts of at most 10 seconds fit the lease, but  *)
(* nothing bounds the record calls between them.                           *)
BecomesDue(d) ==
    /\ Open(d) /\ ~due[d]
    /\ due' = [due EXCEPT ![d] = TRUE]
    /\ outlived' = [outlived EXCEPT ![d] = @ \/ \E w \in Workers : Holds(w, d)]
    /\ UNCHANGED <<endpointVars, status, attempt, posts, accepted, workerVars, faults>>

Worker(w) == Claim(w) \/ Post(w) \/ Record(w) \/ Done(w)

Next ==
    \/ \E d \in Deliveries : Enqueue(d) \/ BecomesDue(d)
    \/ \E e \in Endpoints : SwitchEndpoint(e) \/ ShredKey(e) \/ DeleteEndpoint(e)
    \/ \E w \in Workers : Worker(w) \/ Crash(w)

Spec == Init /\ [][Next]_vars

-----------------------------------------------------------------------------
(* Properties *)

(* A delivery shown as delivered was accepted by the endpoint.             *)
DeliveredWasAccepted == \A d \in Deliveries : status[d] = "delivered" => accepted[d]

(* A delivery is given up only after the whole backoff ladder was climbed, *)
(* however many workers posted, crashed or were overtaken on the way,      *)
(* unless its signing secret is unreadable.                                *)
GivesUpAfterLadder ==
    \A d \in Deliveries : status[d] = "failed" =>
        posts[d] = MaxAttempts \/ EndpointOf[d] \in shredded

(* The facts behind both: the row's attempt never runs ahead of the posts, *)
(* nor a worker's attempt ahead of the row's.                              *)
AttemptsBacked ==
    /\ \A d \in Deliveries : posts[d] + 1 >= attempt[d]
    /\ \A w \in Workers : \A p \in batch[w] : p[2] <= attempt[p[1]]
    /\ \A w \in Workers : pc[w] = "record" =>
         /\ posts[current[w][1]] >= current[w][2]
         /\ ok[w] => accepted[current[w][1]]
    /\ DeliveredWasAccepted /\ GivesUpAfterLadder

(* "Leases due rows for 5 minutes so a second worker run skips them":      *)
(* unless a lease was outlived, one worker at a time holds a delivery.     *)
LeaseExcludes ==
    \A d \in Deliveries, v, w \in Workers :
        ~outlived[d] /\ Open(d) /\ Holds(v, d) /\ Holds(w, d) => v = w

(* What a client is promised of its events (Notification): workers that    *)
(* crash, are overtaken or record late show as its steps or not at all.    *)
Shown(s) == CASE s = "free" -> "none" [] s \in {"pending", "retry"} -> "open" [] OTHER -> s
Promise  == INSTANCE Notification
                WITH outcome <- [d \in Deliveries |-> Shown(status[d])],
                     rung <- attempt, unreadable <- shredded
PromiseKept == Promise!Spec

(* The cron keeps starting workers, a worker keeps going, time passes.     *)
FairSpec ==
    /\ Spec
    /\ \A w \in Workers : WF_vars(Worker(w))
    /\ \A d \in Deliveries : WF_vars(BecomesDue(d))

(* While its endpoint stays active, every event is delivered or given up.  *)
EventSettles ==
    \A d \in Deliveries :
        Open(d) ~> (status[d] \in {"delivered", "failed", "deleted"}
                      \/ EndpointOf[d] \notin active)
=============================================================================
