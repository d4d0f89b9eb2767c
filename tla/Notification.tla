----------------------------- MODULE Notification -----------------------------
(***************************************************************************)
(* What the webhook queue promises the client of every event, with nothing *)
(* said of workers, leases and batches: the event climbs a ladder of       *)
(* attempts, each rung left only after a post for it; it is shown as       *)
(* delivered only if the endpoint took it, and as failed only from the     *)
(* last rung or when its signing secret is unreadable; and what is shown   *)
(* of it then stays, until its endpoint is deleted.  A post may come late  *)
(* or twice.                                                               *)
(***************************************************************************)
EXTENDS Naturals

CONSTANTS Deliveries, Endpoints, EndpointOf, MaxAttempts

VARIABLES
    outcome,     \* "none" before the event, "open", "delivered", "failed" or "deleted"
    rung,        \* the attempt it is at
    posts,       \* how often it was posted, up to MaxAttempts
    accepted,    \* the endpoint has taken it
    unreadable   \* endpoints whose signing secret cannot be decrypted

vars == <<outcome, rung, posts, accepted, unreadable>>

Init ==
    /\ outcome = [d \in Deliveries |-> "none"]
    /\ rung = [d \in Deliveries |-> 1]
    /\ posts = [d \in Deliveries |-> 0]
    /\ accepted = [d \in Deliveries |-> FALSE]
    /\ unreadable = {}

Shows(d, o) == outcome' = [outcome EXCEPT ![d] = o]

Occurs(d) ==
    /\ outcome[d] = "none" /\ Shows(d, "open")
    /\ UNCHANGED <<rung, posts, accepted, unreadable>>

Post(d, taken) ==
    /\ outcome[d] # "none"
    /\ posts' = [posts EXCEPT ![d] = IF @ < MaxAttempts THEN @ + 1 ELSE @]
    /\ accepted' = [accepted EXCEPT ![d] = @ \/ taken]
    /\ UNCHANGED <<outcome, rung, unreadable>>

Climb(d) ==
    /\ outcome[d] = "open" /\ rung[d] <= posts[d] /\ rung[d] < MaxAttempts
    /\ rung' = [rung EXCEPT ![d] = @ + 1]
    /\ UNCHANGED <<outcome, posts, accepted, unreadable>>

Deliver(d) ==
    /\ outcome[d] = "open" /\ accepted[d] /\ Shows(d, "delivered")
    /\ UNCHANGED <<rung, posts, accepted, unreadable>>

GiveUp(d) ==
    /\ outcome[d] = "open" /\ rung[d] = MaxAttempts /\ posts[d] = MaxAttempts
    /\ Shows(d, "failed")
    /\ UNCHANGED <<rung, posts, accepted, unreadable>>

LoseKey(e) ==
    /\ unreadable' = unreadable \cup {e}
    /\ UNCHANGED <<outcome, rung, posts, accepted>>

GiveUpUnreadable(D) ==
    /\ \A d \in D : outcome[d] = "open" /\ EndpointOf[d] \in unreadable
    /\ outcome' = [d \in Deliveries |-> IF d \in D THEN "failed" ELSE outcome[d]]
    /\ UNCHANGED <<rung, posts, accepted, unreadable>>

Withdraw(e) ==
    /\ outcome' = [d \in Deliveries |-> IF EndpointOf[d] = e /\ outcome[d] # "none"
                                        THEN "deleted" ELSE outcome[d]]
    /\ UNCHANGED <<rung, posts, accepted, unreadable>>

Next ==
    \/ \E d \in Deliveries :
        Occurs(d) \/ Climb(d) \/ Deliver(d) \/ GiveUp(d) \/ \E taken \in BOOLEAN : Post(d, taken)
    \/ \E D \in SUBSET Deliveries : GiveUpUnreadable(D)
    \/ \E e \in Endpoints : LoseKey(e) \/ Withdraw(e)

Spec == Init /\ [][Next]_vars
====
