---------------------------- MODULE EmailApproval ----------------------------
(***************************************************************************)
(* One drafted reply that waits for the owner's word: skip, edit or        *)
(* approve, each a request of its own.  An approval claims the row with    *)
(* one conditional update, sends, and records the outcome; a claim left by *)
(* a request that died is taken over after fifteen minutes.                *)
(*                                                                         *)
(* The mail provider is external: it accepts or refuses a mail, and drops  *)
(* one whose idempotency key it has seen.  The key is the approval and a   *)
(* hash of the content, so of one approval a body goes out at most once,   *)
(* and `delivered' is a set.                                               *)
(***************************************************************************)
EXTENDS Naturals

CONSTANTS
    Requests,       \* approve requests
    Bodies,         \* contents of the reply
    Overruns,       \* a send may take longer than the lease of its claim
    MaxReplyFaults  \* bound: requests that die, answers of the provider that are lost

ASSUME ApprovalAssumption == Overruns \in BOOLEAN /\ MaxReplyFaults \in Nat

VARIABLES
    status,     \* "pending", "edited", "failed", "skipped" or "sent"
    claim,      \* approved_at and approved_by: "none", "live" or "stale" (claiming), "done"
    replyPc,    \* "new", "claim", "takeover", "send", "mark", "release" or "done"
    body,       \* content a request will send
    delivered,  \* contents the recipient has got
    unsure,     \* history: a mail was accepted and its request never learned or recorded it
    declined,   \* history: skipped while nobody held the claim, and not reopened since
    replyFaults

rowVars == <<status, claim>>
replyVars == <<status, claim, replyPc, body, delivered, unsure, declined, replyFaults>>

ClaimableStatuses == {"pending", "edited", "failed"}
Holding   == {"send", "mark", "release"}

ReplyTypeOK ==
    /\ status \in ClaimableStatuses \cup {"skipped", "sent"}
    /\ claim \in {"none", "live", "stale", "done"}
    /\ body \in [Requests -> Bodies]
    /\ replyPc \in [Requests -> {"new", "claim", "takeover", "done"} \cup Holding]
    /\ delivered \subseteq Bodies
    /\ unsure \in BOOLEAN /\ declined \in BOOLEAN
    /\ replyFaults \in 0..MaxReplyFaults

(* The inbox run has stored the draft.                                     *)
ReplyInit ==
    /\ status = "pending" /\ claim = "none"
    /\ \E b \in Bodies : body = [r \in Requests |-> b]
    /\ replyPc = [r \in Requests |-> "new"]
    /\ delivered = {} /\ unsure = FALSE /\ declined = FALSE
    /\ replyFaults = 0

Goes(r, place) == replyPc' = [replyPc EXCEPT ![r] = place]

-----------------------------------------------------------------------------
(* Skip and edit look at nothing but the id.  The body an edit stores is   *)
(* left to the requests that read it.                                      *)
Skip ==
    /\ status' = "skipped"
    /\ declined' = (claim \notin {"live", "done"})
    /\ UNCHANGED <<claim, replyPc, body, delivered, unsure, replyFaults>>
Edit ==
    /\ status' = "edited" /\ declined' = FALSE
    /\ UNCHANGED <<claim, replyPc, body, delivered, unsure, replyFaults>>

(* An approve request reads the row.  It will send the body it carries, or *)
(* the one stored by then; the two need not be the same.                   *)
Fetch(r) ==
    /\ replyPc[r] = "new"
    /\ IF status = "sent" THEN Goes(r, "done") /\ UNCHANGED body
       ELSE Goes(r, "claim") /\ \E b \in Bodies : body' = [body EXCEPT ![r] = b]
    /\ UNCHANGED <<rowVars, delivered, unsure, declined, replyFaults>>

(* claimApproval: an update of an unclaimed row, then one of a row whose   *)
(* claim has expired.                                                      *)
TakesRow(r, free, place) ==
    /\ IF status \in ClaimableStatuses /\ free THEN claim' = "live" /\ Goes(r, "send")
       ELSE UNCHANGED claim /\ Goes(r, place)
    /\ UNCHANGED <<status, body, delivered, unsure, declined, replyFaults>>
ClaimReply_NoStatus(r) ==
    /\ replyPc[r] = "claim"
    /\ IF claim = "none" THEN claim' = "live" /\ Goes(r, "send")
       ELSE UNCHANGED claim /\ Goes(r, "takeover")
    /\ UNCHANGED <<status, body, delivered, unsure, declined, replyFaults>>
ClaimReply(r) == replyPc[r] = "claim" /\ TakesRow(r, claim = "none", "takeover")
TakeOver_AnyClaim(r) == replyPc[r] = "takeover" /\ TakesRow(r, claim # "none", "done")
TakeOver(r) == replyPc[r] = "takeover" /\ TakesRow(r, claim = "stale", "done")

(* The provider accepts or refuses; an answer that is lost reads as a      *)
(* refusal.                                                                *)
Send(r) ==
    /\ replyPc[r] = "send"
    /\ \/ delivered' = delivered \cup {body[r]} /\ Goes(r, "mark") /\ UNCHANGED <<unsure, replyFaults>>
       \/ UNCHANGED <<delivered, unsure, replyFaults>> /\ Goes(r, "release")
       \/ /\ replyFaults < MaxReplyFaults /\ replyFaults' = replyFaults + 1
          /\ delivered' = delivered \cup {body[r]} /\ unsure' = TRUE
          /\ Goes(r, "release")
    /\ UNCHANGED <<rowVars, body, declined>>

(* The outcome is written by the id alone.                                 *)
Mark_Approved(r) ==
    /\ replyPc[r] = "mark"
    /\ status' = "approved" /\ claim' = "done"
    /\ Goes(r, "done")
    /\ UNCHANGED <<body, delivered, unsure, declined, replyFaults>>
Mark(r) ==
    /\ replyPc[r] = "mark"
    /\ status' = "sent" /\ claim' = "done"
    /\ Goes(r, "done")
    /\ UNCHANGED <<body, delivered, unsure, declined, replyFaults>>
Release(r) ==
    /\ replyPc[r] = "release"
    /\ status' = "failed" /\ claim' = "none"
    /\ Goes(r, "done")
    /\ UNCHANGED <<body, delivered, unsure, declined, replyFaults>>

(* The process restarts, or the update that ends a request fails, whose    *)
(* error nobody looks at.                                                  *)
Dies(r) ==
    /\ replyPc[r] \notin {"new", "done"} /\ replyFaults < MaxReplyFaults
    /\ replyFaults' = replyFaults + 1
    /\ unsure' = (unsure \/ replyPc[r] = "mark")
    /\ Goes(r, "done")
    /\ UNCHANGED <<rowVars, body, delivered, declined>>

LeaseEnds ==
    /\ claim = "live"
    /\ Overruns \/ \A r \in Requests : replyPc[r] \notin Holding
    /\ claim' = "stale"
    /\ UNCHANGED <<status, replyPc, body, delivered, unsure, declined, replyFaults>>

ReplyNext ==
    \/ Skip \/ Edit \/ LeaseEnds
    \/ \E r \in Requests :
        Fetch(r) \/ ClaimReply(r) \/ TakeOver(r) \/ Send(r) \/ Mark(r) \/ Release(r) \/ Dies(r)

ReplySpec == ReplyInit /\ [][ReplyNext]_replyVars

-----------------------------------------------------------------------------
(* Properties *)

(* approval-claim.ts: "of any number of concurrent approvals exactly one   *)
(* gets a row back and may send": whatever is edited meanwhile, two        *)
(* different replies reach the recipient only after the outcome of one was *)
(* lost.                                                                   *)
OneReply == unsure \/ \A b, c \in delivered : b = c

(* A recorded reply closes the approval for good, and a skip that found no *)
(* send under way closes it until the owner edits: nothing more is sent,   *)
(* although other requests may have read the row before.                   *)
ClosedStaysClosed ==
    [][/\ claim = "done" => claim' = "done" /\ delivered' = delivered
       /\ declined /\ declined' => delivered' = delivered]_replyVars
====
