------------------------------ MODULE JobClaims ------------------------------
(***************************************************************************)
(* What the sync queue promises of every job, with nothing said of         *)
(* transactions, locks and leases: a connection never has two open jobs;   *)
(* the claims of a job are numbered, and the latest one has the job with   *)
(* its handler; only that handler gives the job back, completes it or      *)
(* fails it, by that claim, or by one it has made before and still held    *)
(* when it claimed the job again; a job fails only after MaxAttempts       *)
(* claims; and a settled job is open again only by a claim.  A claim may   *)
(* be forgotten at any time, and a late one changes nothing.               *)
(***************************************************************************)
EXTENDS Naturals

CONSTANTS Jobs, Conns, Handlers, MaxAttempts, NoOne

VARIABLES
    state,    \* "free", "open", "completed" or "failed"
    connOf,   \* the connection a job is for
    tries,    \* claims made of it
    holder,   \* the handler of its latest claim, until that one gives it back
    claims    \* the claims somebody still holds: a job, a handler, a number, and
              \* whether that handler has claimed the job again since

vars == <<state, connOf, tries, holder, claims>>

Init ==
    /\ state = [j \in Jobs |-> "free"]
    /\ connOf = [j \in Jobs |-> NoOne]
    /\ tries = [j \in Jobs |-> 0]
    /\ holder = [j \in Jobs |-> NoOne]
    /\ claims = {}

HasOpen(c) == \E j \in Jobs : state[j] = "open" /\ connOf[j] = c

Create(new, conn) ==
    /\ \A j \in new : state[j] = "free" /\ ~HasOpen(conn[j])
    /\ \A j, k \in new : conn[j] = conn[k] => j = k
    /\ state' = [j \in Jobs |-> IF j \in new THEN "open" ELSE state[j]]
    /\ connOf' = [j \in Jobs |-> IF j \in new THEN conn[j] ELSE connOf[j]]
    /\ UNCHANGED <<tries, holder, claims>>

Repeated(j, w) ==
    {IF c.job = j /\ c.by = w THEN [c EXCEPT !.again = TRUE] ELSE c : c \in claims}

Claim(j, w) ==
    /\ state[j] = "open" \/ (state[j] # "free" /\ ~HasOpen(connOf[j]))
    /\ state' = [state EXCEPT ![j] = "open"]
    /\ tries' = [tries EXCEPT ![j] = @ + 1]
    /\ holder' = [holder EXCEPT ![j] = w]
    /\ \/ claims' = Repeated(j, w)
       \/ claims' = Repeated(j, w)
                      \cup {[job |-> j, by |-> w, number |-> tries[j] + 1, again |-> FALSE]}
    /\ UNCHANGED connOf

Settle(c, outcome) ==
    /\ state[c.job] = "open" /\ holder[c.job] = c.by
    /\ c.number = tries[c.job] \/ c.again
    /\ outcome = "failed" => tries[c.job] >= MaxAttempts
    /\ state' = [state EXCEPT ![c.job] = outcome]
    /\ holder' = [holder EXCEPT ![c.job] = NoOne]
    /\ claims' \in {claims, claims \ {c}}
    /\ UNCHANGED <<connOf, tries>>

Forget(some) ==
    /\ claims' = claims \ some
    /\ UNCHANGED <<state, connOf, tries, holder>>

Next ==
    \/ \E some \in SUBSET claims : Forget(some)
    \/ \E new \in SUBSET Jobs : \E conn \in [new -> Conns] : Create(new, conn)
    \/ \E j \in Jobs, w \in Handlers : Claim(j, w)
    \/ \E c \in claims : \E outcome \in {"open", "completed", "failed"} : Settle(c, outcome)

Spec == Init /\ [][Next]_vars
==============================================================================
