------------------------------ MODULE SyncRunner ------------------------------
(***************************************************************************)
(* runConnection for one object of one connection: pull a page from the    *)
(* vendor, ingest it, only then move the stored cursor, and record how the *)
(* run ended.  Runs of the same connection may overlap (a job reclaimed    *)
(* while its first holder still works), crash at any point or lose the     *)
(* response of a call that took effect.                                    *)
(*                                                                         *)
(* The vendor is external: a table of records with a last-modified time,   *)
(* listed in that order.  Two kinds of adapter read it:                    *)
(*   - window: rows at or after the high-water mark, one full window after *)
(*     another, each re-anchored on the highest time of the last           *)
(*     (windowPage);                                                       *)
(*   - offset: one pass over the rows at or after the high-water mark,     *)
(*     paged by position; the mark moves when the pass ends (advance).     *)
(* Payloads are version numbers; equal payloads have equal hashes.         *)
(***************************************************************************)
EXTENDS Naturals, FiniteSets

CONSTANTS
    Refs,         \* source_ref of the vendor's records
    Runners,      \* runs that may be in flight at once
    Offset,       \* TRUE: an offset adapter; FALSE: a window adapter
    PageSize,     \* SQL_PAGE, or the page of an offset adapter
    MaxPages,     \* maxPagesPerObject
    MaxTime,      \* bound on the vendor's clock
    MaxVersion,   \* bound on payload versions
    MaxReturns,   \* bound on the records that go back to an earlier payload
    QuietResets,  \* TRUE: an account refresh never overlaps a run
    MaxResets,    \* bound on account refreshes
    MaxFaults     \* bound on crashes, failed calls and lost responses

ASSUME RunnerAssumption ==
    /\ {Offset, QuietResets} \subseteq BOOLEAN
    /\ {PageSize, MaxPages} \subseteq Nat \ {0}
    /\ {MaxTime, MaxVersion, MaxReturns, MaxResets, MaxFaults} \subseteq Nat

VARIABLES
    clock,    \* the vendor's clock
    version,  \* vendor: payload of each record, 0 if it does not exist
    modified, \* vendor: last-modified time of each record
    rows,     \* ingested_records: the <<source_ref, payload>> pairs stored
    newest,   \* payload of the row with the highest seq of each source_ref
    cursor,   \* sync_cursors
    pc,       \* where a run stands
    at,       \* its local cursor, which is also what it last persisted
    page,     \* the <<source_ref, payload>> pairs of the page it holds
    next,     \* nextCursor of that page
    more,     \* hasMore of that page
    pages,    \* pages it has ingested
    run,      \* status of its sync_runs row
    returned, \* history: records that went back to an earlier payload
    crossed,  \* history: records that overlapping runs held with two payloads
    resets, faults

vendorVars == <<clock, version, modified, returned>>
storeVars  == <<rows, newest, cursor>>
pageVars   == <<page, next, more>>
vars == <<clock, version, modified, rows, newest, cursor, pc, at, page, next,
          more, pages, run, returned, crossed, resets, faults>>

(* hw, pg and mx of CursorState; 0 stands for a field that is not set.     *)
Cursor == [hw : Nat, pg : Nat, mx : Nat]
NullCursor == [hw |-> 0, pg |-> 0, mx |-> 0]
Pair == Refs \X Nat
Step == {"off", "read", "pull", "ingest", "advance", "done", "error"}
RunStatus == {"none", "running", "succeeded", "partial", "failed"}

TypeOK ==
    /\ clock \in Nat /\ resets \in Nat /\ faults \in Nat
    /\ version \in [Refs -> Nat] /\ modified \in [Refs -> Nat]
    /\ rows \in SUBSET Pair /\ newest \in [Refs -> Nat]
    /\ cursor \in Cursor
    /\ pc \in [Runners -> Step]
    /\ at \in [Runners -> Cursor]
    /\ page \in [Runners -> SUBSET Pair]
    /\ next \in [Runners -> Cursor]
    /\ more \in [Runners -> BOOLEAN]
    /\ pages \in [Runners -> Nat]
    /\ run \in [Runners -> RunStatus]
    /\ returned \in SUBSET Refs /\ crossed \in SUBSET Refs

Init ==
    /\ clock = 1 /\ resets = 0 /\ faults = 0 /\ returned = {} /\ crossed = {}
    /\ version = [x \in Refs |-> 0] /\ modified = [x \in Refs |-> 0]
    /\ rows = {} /\ newest = [x \in Refs |-> 0]
    /\ cursor = NullCursor
    /\ pc = [r \in Runners |-> "off"]
    /\ at = [r \in Runners |-> NullCursor]
    /\ page = [r \in Runners |-> {}]
    /\ next = [r \in Runners |-> NullCursor]
    /\ more = [r \in Runners |-> FALSE]
    /\ pages = [r \in Runners |-> 0]
    /\ run = [r \in Runners |-> "none"]

-----------------------------------------------------------------------------
(* The vendor *)

Tick ==
    /\ clock < MaxTime
    /\ clock' = clock + 1
    /\ UNCHANGED <<version, modified, returned, storeVars, pc, at, pageVars, pages, run, crossed,
                   resets, faults>>

(* Bound: MaxReturns records go back, each as its last write.              *)
VendorWrite(x, v) ==
    /\ v # version[x] /\ x \notin returned
    /\ v < version[x] => Cardinality(returned) < MaxReturns
    /\ version' = [version EXCEPT ![x] = v]
    /\ modified' = [modified EXCEPT ![x] = clock]
    /\ returned' = IF v < version[x] THEN returned \cup {x} ELSE returned
    /\ UNCHANGED <<clock, storeVars, pc, at, pageVars, pages, run, crossed, resets, faults>>

(* WHERE modified >= hw, or everything when no mark is set.                *)
Listed_After(c) == {x \in Refs : version[x] > 0 /\ modified[x] > c.hw}
Listed(c) == {x \in Refs : version[x] > 0 /\ modified[x] >= c.hw}

(* ORDER BY modified; rows of one time come in any order.                  *)
Ahead(S, T) == \A x \in S, y \in T : modified[x] <= modified[y]

(* mx is the greatest modified time of S, and at least from.               *)
IsHighest(mx, S, from) ==
    /\ mx = from \/ \E x \in S : modified[x] = mx
    /\ mx >= from /\ \A x \in S : modified[x] <= mx

-----------------------------------------------------------------------------
(* Adapters: the pages S the vendor may answer to cursor c.  A full page   *)
(* promises more.                                                          *)

Full(S) == Cardinality(S) = PageSize

(* The first PageSize rows of the listing.                                 *)
WindowPage(c, S) ==
    /\ Ahead(S, Listed(c) \ S)
    /\ Full(S) \/ (Cardinality(S) < PageSize /\ S = Listed(c))

WindowNext(mx) == [hw |-> mx, pg |-> 0, mx |-> 0]

(* startposition pg + 1, maxresults PageSize.                              *)
OffsetPage(c, S) ==
    \E before \in SUBSET (Listed(c) \ S) :
      LET rest == Listed(c) \ (before \cup S) IN
      /\ Ahead(before, S \cup rest) /\ Ahead(S, rest)
      /\ Cardinality(before) = c.pg \/ (Cardinality(before) < c.pg /\ S = {} /\ rest = {})
      /\ Full(S) \/ (Cardinality(S) < PageSize /\ rest = {})

(* advance: carry position and highest time, or end the pass.              *)
OffsetNext(c, S, mx) ==
    IF Full(S) THEN [hw |-> c.hw, pg |-> c.pg + PageSize, mx |-> mx]
    ELSE [hw |-> IF mx > 0 THEN mx ELSE c.hw, pg |-> 0, mx |-> 0]

Answers(c) == {S \in SUBSET Listed(c) : IF Offset THEN OffsetPage(c, S) ELSE WindowPage(c, S)}

NextCursor(c, S, mx) == IF Offset THEN OffsetNext(c, S, mx) ELSE WindowNext(mx)

(* A full window whose rows share the mark it started from cannot advance. *)
Stuck_Any(c, S, mx) == ~Offset /\ mx = c.hw
Stuck(c, S, mx) == ~Offset /\ Full(S) /\ mx = c.hw

-----------------------------------------------------------------------------
(* runConnection *)

Fault == faults < MaxFaults /\ faults' = faults + 1

(* startRun, first call: sync_cursor_get.                                  *)
ReadCursor(r) ==
    /\ pc[r] = "off"
    /\ pc' = [pc EXCEPT ![r] = "read"]
    /\ at' = [at EXCEPT ![r] = cursor]
    /\ run' = [run EXCEPT ![r] = "none"]
    /\ UNCHANGED <<vendorVars, storeVars, pageVars, pages, crossed, resets, faults>>

(* startRun, second call: sync_run_start.                                  *)
StartRun(r) ==
    /\ pc[r] = "read"
    /\ pc' = [pc EXCEPT ![r] = "pull"]
    /\ run' = [run EXCEPT ![r] = "running"]
    /\ UNCHANGED <<vendorVars, storeVars, at, pageVars, pages, crossed, resets, faults>>

(* Another run is about to store a page with an earlier payload of x.      *)
Crossing(r, x) ==
    \E s \in Runners \ {r} : pc[s] = "ingest" /\ \E p \in page[s] : p[1] = x /\ p[2] # version[x]

Pull(r) ==
    /\ pc[r] = "pull"
    /\ \E S \in Answers(at[r]), mx \in 0..clock :
         /\ IsHighest(mx, S, IF Offset THEN at[r].mx ELSE at[r].hw)
         /\ ~Stuck(at[r], S, mx)
         /\ page' = [page EXCEPT ![r] = {<<x, version[x]>> : x \in S}]
         /\ next' = [next EXCEPT ![r] = NextCursor(at[r], S, mx)]
         /\ more' = [more EXCEPT ![r] = Full(S)]
         /\ crossed' = crossed \cup {x \in S : Crossing(r, x)}
    /\ pc' = [pc EXCEPT ![r] = "ingest"]
    /\ UNCHANGED <<vendorVars, storeVars, at, pages, run, resets, faults>>

(* Every attempt failed, or the window cannot advance.                     *)
PullFails(r) ==
    /\ pc[r] = "pull"
    /\ \/ Fault
       \/ (\E S \in Answers(at[r]) : Stuck(at[r], S, at[r].hw) /\ IsHighest(at[r].hw, S, at[r].hw))
          /\ UNCHANGED faults
    /\ pc' = [pc EXCEPT ![r] = "error"]
    /\ UNCHANGED <<vendorVars, storeVars, at, pageVars, pages, run, crossed, resets>>

(* ON CONFLICT DO NOTHING: only a pair not stored yet becomes a row.       *)
NewestAfter_ByRef(P) ==
    [x \in Refs |-> IF newest[x] = 0 /\ \E p \in P : p[1] = x
                    THEN (CHOOSE p \in P : p[1] = x)[2] ELSE newest[x]]
NewestAfter(P) ==
    [x \in Refs |-> IF \E p \in P \ rows : p[1] = x
                    THEN (CHOOSE p \in P : p[1] = x)[2] ELSE newest[x]]

(* ingest_records; no call is made for an empty page.  A page counts once  *)
(* its response is in.                                                     *)
Ingest(r) ==
    /\ pc[r] = "ingest" /\ run[r] = "running"
    /\ rows' = rows \cup page[r]
    /\ newest' = NewestAfter(page[r])
    /\ \/ /\ pc' = [pc EXCEPT ![r] = "advance"]
          /\ pages' = [pages EXCEPT ![r] = @ + 1]
          /\ UNCHANGED faults
       \/ /\ page[r] # {} /\ Fault
          /\ pc' = [pc EXCEPT ![r] = "error"]
          /\ UNCHANGED pages
    /\ UNCHANGED <<vendorVars, cursor, at, pageVars, run, crossed, resets>>

IngestFails(r) ==
    /\ pc[r] = "ingest" /\ page[r] # {} /\ Fault
    /\ pc' = [pc EXCEPT ![r] = "error"]
    /\ UNCHANGED <<vendorVars, storeVars, at, pageVars, pages, run, crossed, resets>>

AfterPage(r) ==
    IF ~more[r] THEN "done" ELSE IF pages[r] >= MaxPages THEN "error" ELSE "pull"

(* setCursor, skipped when nextCursor is null, then on to the next page.   *)
Advance(r) ==
    /\ pc[r] = "advance"
    /\ \/ /\ cursor' = IF next[r] = NullCursor THEN cursor ELSE next[r]
          /\ at' = [at EXCEPT ![r] = IF next[r] = NullCursor THEN @ ELSE next[r]]
          /\ pc' = [pc EXCEPT ![r] = AfterPage(r)]
          /\ UNCHANGED faults
       \/ /\ next[r] # NullCursor /\ Fault
          /\ cursor' \in {cursor, next[r]}
          /\ pc' = [pc EXCEPT ![r] = "error"]
          /\ UNCHANGED at
    /\ page' = [page EXCEPT ![r] = {}]
    /\ next' = [next EXCEPT ![r] = NullCursor]
    /\ more' = [more EXCEPT ![r] = FALSE]
    /\ UNCHANGED <<vendorVars, rows, newest, pages, run, crossed, resets>>

(* sync_run_finish: a run that did not fail writes its cursor once more.   *)
Outcome_Unknown(r) == IF pc[r] = "done" THEN "succeeded" ELSE IF pages[r] > 0 THEN "partial" ELSE "error"
Outcome(r) == IF pc[r] = "done" THEN "succeeded" ELSE IF pages[r] > 0 THEN "partial" ELSE "failed"

FinishRun(r) ==
    /\ pc[r] \in {"done", "error"} /\ run[r] = "running"
    /\ run' = [run EXCEPT ![r] = Outcome(r)]
    /\ cursor' = IF Outcome(r) = "failed" \/ at[r] = NullCursor THEN cursor ELSE at[r]
    /\ pc' = [pc EXCEPT ![r] = "off"]
    /\ at' = [at EXCEPT ![r] = NullCursor]
    /\ page' = [page EXCEPT ![r] = {}]
    /\ next' = [next EXCEPT ![r] = NullCursor]
    /\ more' = [more EXCEPT ![r] = FALSE]
    /\ pages' = [pages EXCEPT ![r] = 0]
    /\ UNCHANGED <<vendorVars, rows, newest, crossed, resets, faults>>

(* A failed call that was to record success ends in the catch block.       *)
FinishFails(r) ==
    /\ pc[r] = "done" /\ Fault
    /\ pc' = [pc EXCEPT ![r] = "error"]
    /\ UNCHANGED <<vendorVars, storeVars, at, pageVars, pages, run, crossed, resets>>

(* The process dies, or a call outside the try block fails.  The run row   *)
(* stays "running" if it was.                                              *)
Crash(r) ==
    /\ pc[r] # "off" /\ Fault
    /\ pc' = [pc EXCEPT ![r] = "off"]
    /\ at' = [at EXCEPT ![r] = NullCursor]
    /\ page' = [page EXCEPT ![r] = {}]
    /\ next' = [next EXCEPT ![r] = NullCursor]
    /\ more' = [more EXCEPT ![r] = FALSE]
    /\ pages' = [pages EXCEPT ![r] = 0]
    /\ UNCHANGED <<vendorVars, storeVars, run, crossed, resets>>

-----------------------------------------------------------------------------
(* atlassian_account_apply(account, 'updated'): drop the stored rows of an *)
(* account and the cursor, so that the next sync fetches it again.         *)
RefreshAccount(x) ==
    /\ resets < MaxResets /\ resets' = resets + 1
    /\ QuietResets => \A r \in Runners : pc[r] = "off"
    /\ \E p \in rows : p[1] = x
    /\ rows' = {p \in rows : p[1] # x}
    /\ newest' = [newest EXCEPT ![x] = 0]
    /\ cursor' = NullCursor
    /\ UNCHANGED <<vendorVars, pc, at, pageVars, pages, run, crossed, faults>>

Run(r) ==
    \/ ReadCursor(r) \/ StartRun(r) \/ Pull(r) \/ PullFails(r)
    \/ Ingest(r) \/ IngestFails(r) \/ Advance(r) \/ FinishRun(r) \/ FinishFails(r)

Next ==
    \/ Tick
    \/ \E x \in Refs, v \in 1..MaxVersion : VendorWrite(x, v)
    \/ \E r \in Runners : Run(r) \/ Crash(r)
    \/ \E x \in Refs : RefreshAccount(x)

Spec == Init /\ [][Next]_vars

-----------------------------------------------------------------------------
(* Properties *)

(* What is older than a cursor's mark is stored as the vendor has it.      *)
StoredBefore(c, P) ==
    \A x \in Refs : version[x] > 0 /\ modified[x] < c.hw => <<x, version[x]>> \in P

(* No change is lost: the stored cursor never passes a change that is not  *)
(* ingested, whatever crashes, overlaps or loses a response ("A crash      *)
(* anywhere leaves the cursor at the last fully ingested page", runner).   *)
NothingLost == StoredBefore(cursor, rows)

(* Its inductive form: nor do the local cursors and the pages in flight.   *)
NothingSkipped ==
    /\ StoredBefore(cursor, rows) /\ cursor.hw <= clock
    /\ \A x \in Refs : modified[x] <= clock
    /\ \A r \in Runners :
         /\ StoredBefore(at[r], rows) /\ at[r].hw <= clock /\ next[r].hw <= clock
         /\ pc[r] = "off" => at[r] = NullCursor
         /\ pc[r] = "ingest" => StoredBefore(next[r], rows \cup page[r])
         /\ pc[r] = "advance" => StoredBefore(next[r], rows)

(* The records of which the store can tell the order of payloads.          *)
Ordered == Refs \ (returned \cup crossed)

(* The feed the engine reads by seq ends, for every record older than the  *)
(* mark, with the payload the vendor has ("changed content is a new row",  *)
(* ingest_records).  Exempt are the records of which the store cannot tell *)
(* the order of payloads: one that went back to an earlier payload, whose  *)
(* hash is stored already, and one that overlapping runs held with two     *)
(* payloads, since rows are numbered in the order of the inserts.          *)
NewestIsCurrent ==
    \A x \in Ordered : version[x] > 0 /\ modified[x] < cursor.hw => newest[x] = version[x]

(* The scheduler keeps starting runs and some run keeps going, perhaps     *)
(* past one that hangs; the vendor is under no obligation.                 *)
FairSpec == Spec /\ WF_vars(\E r \in Runners : Run(r))

SharedTime(t) == {x \in Refs : version[x] > 0 /\ modified[x] = t}

(* Once the vendor is quiet, everything it has gets stored, unless a whole *)
(* window of rows shares one time.                                         *)
CatchesUp ==
    <>[](\A t \in 1..MaxTime : Cardinality(SharedTime(t)) < PageSize)
      => <>[](\A x \in Refs : version[x] > 0 => <<x, version[x]>> \in rows)
=============================================================================
