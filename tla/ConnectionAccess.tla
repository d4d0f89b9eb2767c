--------------------------- MODULE ConnectionAccess ---------------------------
(***************************************************************************)
(* Who may read a client's system: the status of one connection of a       *)
(* one-click platform, and its stored token set.  Four parties write them: *)
(*   - the client, who begins a sign-in or disconnects;                    *)
(*   - the OAuth callback, which trades a code for tokens and stores them; *)
(*   - a run, which renews the tokens (refreshTokens) and stores them by   *)
(*     compare-and-set on rotated_at;                                      *)
(*   - the health refresh at the end of a run, which reads the status and  *)
(*     writes one computed from it.                                        *)
(*                                                                         *)
(* Storing a sign-in and disconnecting are transactions that write the     *)
(* token row first and the status after: another transaction may come      *)
(* between, and waits only for a row that exists.  A token row that is not *)
(* committed is seen by nobody.                                            *)
(*                                                                         *)
(* The vendor is external.  It keeps one live refresh token per sign-in    *)
(* (grant): a renewal with any other is refused (invalid_grant).  Habits   *)
(* says whether a renewal keeps the token or rotates it.                   *)
(***************************************************************************)
EXTENDS Naturals

CONSTANTS
    SignIns,    \* sign-ins of the client, each with a state of its own
    Workers,    \* runs in flight at once
    Habits,     \* what the vendor may do with a refresh token on renewal
    MaxTime,    \* bound on the clock (milliseconds that matter)
    MaxTokens,  \* bound on the tokens of one grant
    MaxFaults,  \* bound on crashes and calls that failed
    None        \* no row

ASSUME AccessAssumption ==
    /\ Habits \subseteq {"keep", "rotate"}
    /\ {MaxTime, MaxTokens, MaxFaults} \subseteq Nat
    /\ None \notin [grant : SignIns, token : Nat, rotated : Nat]
    /\ {"free", "client"} \cap SignIns = {}

VARIABLES
    clock,
    status,   \* tenant_connections.status
    secret,   \* the committed row of connection_secrets
    holder,   \* whose transaction has the token row locked
    drop,     \* a disconnect under way: "off", "found" a token row, found "none"
    signIn,   \* where a sign-in stands
    grantAt,  \* rotated_at of its token set: the time the callback read
    live,     \* vendor: the refresh token it accepts, 0 before the grant
    lost,     \* grants whose newest token was answered but never stored
    pc,       \* where a run stands
    at,       \* now of its refreshTokens call
    held,     \* the token set it renews
    fresh,    \* the token set it was answered
    seen,     \* the status its health refresh read
    faults

tokenVars  == <<secret, holder>>
signInVars == <<signIn, grantAt>>
vendorVars == <<live, lost>>
runVars    == <<pc, at, held, fresh, seen>>
vars == <<clock, status, secret, holder, drop, signIn, grantAt, live, lost,
          pc, at, held, fresh, seen, faults>>

TokenSet == [grant : SignIns, token : Nat, rotated : Nat]
Active == {"connected", "live", "error"}
Status == {"not_connected", "requested", "disconnected"} \cup Active

TypeOK ==
    /\ clock \in Nat /\ faults \in Nat
    /\ status \in Status
    /\ secret \in TokenSet \cup {None}
    /\ holder \in SignIns \cup {"free", "client"}
    /\ drop \in {"off", "found", "none"}
    /\ signIn \in [SignIns -> {"off", "begun", "exchange", "store", "stored", "done"}]
    /\ grantAt \in [SignIns -> Nat]
    /\ live \in [SignIns -> Nat] /\ lost \in SUBSET SignIns
    /\ pc \in [Workers -> {"off", "run", "get", "ask", "save", "health"}]
    /\ at \in [Workers -> Nat]
    /\ held \in [Workers -> TokenSet \cup {None}] /\ fresh \in [Workers -> TokenSet \cup {None}]
    /\ seen \in [Workers -> Status]
    /\ \A w \in Workers : /\ pc[w] \in {"ask", "save"} => held[w] \in TokenSet
                          /\ pc[w] = "save" => fresh[w] \in TokenSet

Init ==
    /\ clock = 0 /\ faults = 0
    /\ status = "not_connected" /\ secret = None /\ holder = "free" /\ drop = "off"
    /\ signIn = [s \in SignIns |-> "off"] /\ grantAt = [s \in SignIns |-> 0]
    /\ live = [s \in SignIns |-> 0] /\ lost = {}
    /\ pc = [w \in Workers |-> "off"] /\ at = [w \in Workers |-> 0]
    /\ held = [w \in Workers |-> None] /\ fresh = [w \in Workers |-> None]
    /\ seen = [w \in Workers |-> "not_connected"]

Fault == faults < MaxFaults /\ faults' = faults + 1

Tick ==
    /\ clock < MaxTime /\ clock' = clock + 1
    /\ UNCHANGED <<status, tokenVars, drop, signInVars, vendorVars, runVars, faults>>

-----------------------------------------------------------------------------
(* Signing in *)

(* connector_oauth_begin                                                   *)
Begin(s) ==
    /\ signIn[s] = "off"
    /\ signIn' = [signIn EXCEPT ![s] = "begun"]
    /\ status' = IF status \in {"not_connected", "disconnected"} THEN "requested" ELSE status
    /\ UNCHANGED <<clock, tokenVars, drop, grantAt, vendorVars, runVars, faults>>

(* The callback: oauth_state_consume, then tokenRequest reads the time.    *)
Consume(s) ==
    /\ signIn[s] = "begun"
    /\ signIn' = [signIn EXCEPT ![s] = "exchange"]
    /\ grantAt' = [grantAt EXCEPT ![s] = clock]
    /\ UNCHANGED <<clock, status, tokenVars, drop, vendorVars, runVars, faults>>

(* The vendor trades the code for the first tokens of a grant.             *)
Exchange(s) ==
    /\ signIn[s] = "exchange"
    /\ signIn' = [signIn EXCEPT ![s] = "store"]
    /\ live' = [live EXCEPT ![s] = 1]
    /\ UNCHANGED <<clock, status, tokenVars, drop, grantAt, lost, runVars, faults>>

(* connection_store_tokens, first statement: upsert unless the stored set  *)
(* is as new.  The callback does not look at a false answer.               *)
Storable_Any(s) == TRUE
Storable(s) == secret # None => secret.rotated < grantAt[s]

Upsert(s) ==
    /\ signIn[s] = "store" /\ holder = "free"
    /\ IF Storable(s)
       THEN /\ signIn' = [signIn EXCEPT ![s] = "stored"]
            /\ holder' = s
       ELSE /\ signIn' = [signIn EXCEPT ![s] = "done"]
            /\ UNCHANGED holder
    /\ UNCHANGED <<clock, status, secret, drop, grantAt, vendorVars, runVars, faults>>

(* Its second statement, and the commit.                                   *)
CommitSignIn(s) ==
    /\ signIn[s] = "stored"
    /\ signIn' = [signIn EXCEPT ![s] = "done"]
    /\ secret' = [grant |-> s, token |-> 1, rotated |-> grantAt[s]]
    /\ holder' = "free"
    /\ status' = IF status \in Active THEN status ELSE "connected"
    /\ UNCHANGED <<clock, drop, grantAt, vendorVars, runVars, faults>>

(* The exchange or the store fails, or the handler dies.                   *)
SignInFails(s) ==
    /\ signIn[s] \in {"exchange", "store", "stored"} /\ Fault
    /\ signIn' = [signIn EXCEPT ![s] = "done"]
    /\ holder' = IF holder = s THEN "free" ELSE holder
    /\ UNCHANGED <<clock, status, secret, drop, grantAt, vendorVars, runVars>>

-----------------------------------------------------------------------------
(* connection_disconnect (from any status; conn_for makes a missing row):  *)
(* delete the token row, then set the status.                              *)

Disconnect ==
    /\ drop = "off"
    /\ IF secret = None
       THEN drop' = "none" /\ UNCHANGED holder
       ELSE holder = "free" /\ drop' = "found" /\ holder' = "client"
    /\ UNCHANGED <<clock, status, secret, signInVars, vendorVars, runVars, faults>>

CommitDisconnect ==
    /\ drop # "off" /\ drop' = "off"
    /\ status' = "disconnected"
    /\ secret' = IF drop = "found" THEN None ELSE secret
    /\ holder' = IF drop = "found" THEN "free" ELSE holder
    /\ UNCHANGED <<clock, signInVars, vendorVars, runVars, faults>>

-----------------------------------------------------------------------------
(* A run *)

Go(w, step) == pc' = [pc EXCEPT ![w] = step]

(* A call is over: what it had read is forgotten.                          *)
Leave(w, step) ==
    /\ Go(w, step)
    /\ at' = [at EXCEPT ![w] = 0]
    /\ held' = [held EXCEPT ![w] = None] /\ fresh' = [fresh EXCEPT ![w] = None]
    /\ seen' = [seen EXCEPT ![w] = "not_connected"]

(* The credential is read and sync_run_start lets the run begin.           *)
Start(w) ==
    /\ pc[w] = "off" /\ secret # None
    /\ status \notin {"not_connected", "disconnected"}
    /\ Go(w, "run")
    /\ UNCHANGED <<clock, status, tokenVars, drop, signInVars, vendorVars, at, held, fresh,
                   seen, faults>>

(* The tokens are about to expire, or the vendor answered 401.  The runner *)
(* passes its clock's reading to refreshTokens, which then reads the set.  *)
Refresh(w) ==
    /\ pc[w] = "run" /\ Go(w, "get")
    /\ at' = [at EXCEPT ![w] = clock]
    /\ UNCHANGED <<clock, status, tokenVars, drop, signInVars, vendorVars, held, fresh, seen, faults>>

(* refreshTokens reads the stored set; with none it throws.                *)
Get(w) ==
    /\ pc[w] = "get"
    /\ IF secret = None
       THEN Leave(w, "run")
       ELSE /\ held' = [held EXCEPT ![w] = secret] /\ Go(w, "ask")
            /\ UNCHANGED <<at, fresh, seen>>
    /\ UNCHANGED <<clock, status, tokenVars, drop, signInVars, vendorVars, faults>>

(* max(now, rotated_at + 1), so that the new set is always the newer one.  *)
RotatedAt_Now(w) == at[w]
RotatedAt(w) == IF at[w] > held[w].rotated THEN at[w] ELSE held[w].rotated + 1

Answer(w, n) == [grant |-> held[w].grant, token |-> n, rotated |-> RotatedAt(w)]
Accepted(w) == held[w].token = live[held[w].grant]

(* The vendor renews; the answer reaches the run, or it is lost.  Bounds:  *)
(* MaxTokens tokens per grant, sets at most MaxTokens ahead of the clock.  *)
Ask(w) ==
    LET g == held[w].grant IN
    /\ pc[w] = "ask" /\ Accepted(w)
    /\ RotatedAt(w) <= MaxTime + MaxTokens
    /\ \E habit \in Habits :
         /\ habit = "rotate" => live[g] < MaxTokens
         /\ live' = IF habit = "rotate" THEN [live EXCEPT ![g] = @ + 1] ELSE live
         /\ \/ /\ fresh' = [fresh EXCEPT ![w] = Answer(w, live'[g])]
               /\ at' = [at EXCEPT ![w] = 0]
               /\ Go(w, "save")
               /\ UNCHANGED <<held, seen, lost, faults>>
            \/ /\ Fault /\ Leave(w, "run")
               /\ lost' = lost \cup {g}
    /\ UNCHANGED <<clock, status, tokenVars, drop, signInVars>>

(* invalid_grant: the run records the error and goes on to its end.        *)
Refused(w) ==
    /\ pc[w] = "ask" /\ ~Accepted(w)
    /\ Leave(w, "run")
    /\ UNCHANGED <<clock, status, tokenVars, drop, signInVars, vendorVars, faults>>

(* connection_rotate_tokens: the row locked, v_cur compared with what the  *)
(* renewal started from, and older than the new set.                       *)
Rotatable_IfAny(w) ==
    secret # None => secret.rotated = held[w].rotated /\ secret.rotated < fresh[w].rotated
Rotatable(w) ==
    secret # None /\ secret.rotated = held[w].rotated /\ secret.rotated < fresh[w].rotated

Save(w) ==
    /\ pc[w] = "save" /\ (secret # None => holder = "free")
    /\ secret' = IF Rotatable(w) THEN fresh[w] ELSE secret
    /\ Leave(w, "run")
    /\ UNCHANGED <<clock, status, holder, drop, signInVars, vendorVars, faults>>

(* The call failed before it took effect: the renewed set is gone.         *)
SaveFails(w) ==
    /\ pc[w] = "save" /\ Fault /\ Leave(w, "run")
    /\ lost' = lost \cup {fresh[w].grant}
    /\ UNCHANGED <<clock, status, tokenVars, drop, signInVars, live>>

(* refresh_connection_health reads the connection ...                      *)
HealthRead(w) ==
    /\ pc[w] = "run" /\ Go(w, "health")
    /\ seen' = [seen EXCEPT ![w] = status]
    /\ UNCHANGED <<clock, status, tokenVars, drop, signInVars, vendorVars, at, held, fresh, faults>>

(* ... computes its health from the runs and records, and writes a status. *)
NewStatus_Health(old, health) == IF old \in Active THEN health ELSE old
NewStatus(old, health) ==
    CASE health = "healthy" /\ old \in Active -> "live"
      [] health = "failing" /\ old \in {"connected", "live"} -> "error"
      [] health = "stale" /\ old = "live" -> "connected"
      [] OTHER -> old

HealthWrite(w) ==
    /\ pc[w] = "health" /\ Leave(w, "off")
    /\ \E health \in {"healthy", "failing", "stale"} : status' = NewStatus(seen[w], health)
    /\ UNCHANGED <<clock, tokenVars, drop, signInVars, vendorVars, faults>>

Crash(w) ==
    /\ pc[w] # "off" /\ Fault /\ Leave(w, "off")
    /\ lost' = IF pc[w] = "save" THEN lost \cup {fresh[w].grant} ELSE lost
    /\ UNCHANGED <<clock, status, tokenVars, drop, signInVars, live>>

Run(w) ==
    \/ Start(w) \/ Refresh(w) \/ Get(w) \/ Ask(w) \/ Refused(w) \/ Save(w) \/ SaveFails(w)
    \/ HealthRead(w) \/ HealthWrite(w) \/ Crash(w)

Callback(s) ==
    Begin(s) \/ Consume(s) \/ Exchange(s) \/ Upsert(s) \/ CommitSignIn(s) \/ SignInFails(s)

Next ==
    \/ Tick \/ Disconnect \/ CommitDisconnect
    \/ \E s \in SignIns : Callback(s)
    \/ \E w \in Workers : Run(w)

Spec == Init /\ [][Next]_vars

-----------------------------------------------------------------------------
(* Properties *)

Saving(w, g) == pc[w] = "save" /\ fresh[w].grant = g

(* The newest refresh token is the stored one ("The newest refresh token   *)
(* is always persisted", refreshTokens): whatever renewals, sign-ins and   *)
(* disconnects overlap, the vendor accepts the stored token, unless a      *)
(* newer one is on its way to the store or died with the run that had it.  *)
StoredLive ==
    secret # None =>
        \/ secret.token = live[secret.grant]
        \/ secret.grant \in lost
        \/ \E w \in Workers : Saving(w, secret.grant)

(* Access the client removed comes back only by signing in again: a        *)
(* renewal that was under way does not store its tokens any more.          *)
OnlySignInRestores ==
    [][secret = None /\ secret' # None =>
          \E s \in SignIns : signIn[s] = "stored" /\ signIn'[s] = "done" /\ secret'.grant = s]_vars

(* A stored set is only ever replaced by a newer one, by callbacks and     *)
(* renewals in any order (connection_store_tokens: "A writer holding an    *)
(* older (or equal) token set matches no row and changes nothing").        *)
NewerReplaces ==
    [][secret # None /\ secret' # None /\ secret' # secret
          => secret'.rotated > secret.rotated]_vars

(* A connection shown as connected, live or failing has a credential:      *)
(* disconnecting takes both away ("Access was removed and any stored       *)
(* credential deleted", connState).                                        *)
ActiveHasCredential == status \in Active => secret # None
=============================================================================
