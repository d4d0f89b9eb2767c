# Verification of the Loveleeday client platform

This directory is a TLA+ development of the client platform in `src/`: how a client's connections are synced, what happens to
the records, how proposals reach the client and are carried out, how the client's own systems are told, what Stripe's events do,
how purchased audits are produced, who belongs to a company, and how a drafted reply is approved. It holds specifications, the TLC configurations that check them on small instances, and proofs that TLAPS checks for every
value of the constants. `PROJECT.json` is the index: components, runs, the source lines of every definition, mutants, hazards,
findings and theorems.

## 1. The system

One Next.js machine (`fly.toml`: one machine, always on) serves the portal and runs an in-process scheduler that posts to its own
cron routes. All shared state is in PostgreSQL and is changed by `security definer` functions called over HTTP, each call one READ
COMMITTED transaction. So the concurrent processes are the handlers (and the loops inside them), the clients' browsers, the
vendors, the executor that carries out approvals, and the restarts of the machine. A handler can die between any two calls, and
any call can take effect without its answer arriving.

| Component | State | Operations | Interacts with | Hard part | What makes it correct |
|---|---|---|---|---|---|
| Sync queue (`20261005_25_sync_queue.sql`, `app/api/cron/sync/route.ts`) | `sync_jobs` | enqueue, claim, finish; handler, drain loops | runner, scheduler | claims race, leases lapse, finish is repeated | one outstanding job per connection, settled by its latest claim, always settled |
| Sync runner (`lib/connectors/runner`, `lib/connectors/adapters`) | `sync_runs`, `sync_cursors`, a local cursor | pull, ingest, set cursor, finish | vendor, record store | crash between ingest and cursor, overlap, paging over moving data | the cursor never passes what is not stored; catches up |
| Record store (`20261005_10_connector_platform.sql`) | `ingested_records`, `approvals` | ingest, since, propose, decide, claim, record proof | runner, pipeline, executor | deduplication, commit order | newest row is the current payload |
| Tenant pipeline (`lib/engine`, `20261005_24_engine_links_watches_pipeline.sql`) | `engine_pipeline_cursors`, `workstream_tasks`, `approvals` | due, read, propose task and approval, advance | record store, client, executor | failed and overlapping runs | nothing passed over, cursor forward, carried out once |
| Webhooks (`20261005_14_public_api_and_webhooks.sql`, `lib/client-portal/webhooks.ts`) | `webhook_deliveries`, `webhook_endpoints` | enqueue by trigger, claim, post, record | every table with a trigger; the client's endpoint | leases, late records, lost answers | outcomes true and final, whole ladder climbed, every event settles |
| Connection status and credentials (`20261005_10…`, `20261005_14…`, `lib/connectors/auth`, OAuth callback) | `tenant_connections`, `connection_secrets` | sign in, store tokens, disconnect, refresh health, rotate tokens | runner, queue, vendor | status written from an earlier read; token rotated by the vendor first | the stored token is the live one; removed access returns only with a sign-in |
| Atlassian privacy (`20261005_24_connector_compliance.sql`) | the record store | refresh or delete an account | runner | races a run | refreshed rows are fetched again |
| Scheduler (`lib/connectors/scheduler.ts`) | a set of running paths | tick | every cron route | its timeout ends the wait, not the handler | handlers keep being started |
| Billing (`lib/billing`, `20261005_23_billing.sql`) | `subscriptions`, `stripe_events`, `invoices`, `tenants.plan` | webhook handler: retrieve, upsert, record invoice, finish | Stripe | events late, repeated, out of order, answered half way | once Stripe is quiet the tables hold what Stripe has; an answered event is recorded |
| Audits (`lib/audit`, `20261005_26_audits.sql`) | `audits`, the tenant's documents | record purchase, claim, list, read, save, sweep | Stripe handler, uploads | uploads that commit late, lapsed claims, saves of an overtaken attempt | published once, and in the end, when there is something to read |
| Membership (`20261005_29…`, `20261005_29b…`, invite routes) | `memberships`, `invites` | invite, accept, set role, remove, transfer | sign-in, staff provisioning | row locks taken in steps, roles read without one | one owner, handed over and never lost; admins safe from each other |
| Email approvals (`lib/email/approval-claim.ts`, `app/api/email/approve`) | `arthur_email_approvals` | skip, edit, approve | the owner, mail provider | lost outcomes, expired claims, a row read before a skip | one reply; a closed approval stays closed |
| Outreach (`lib/outreach`) | contacts, messages, suppression | plan, send, stop | a person at a terminal | stops that arrive during a batch | see section 8 |
| Snapshot, market data, engine graph, portal pages, Arthur assistant | mostly data or text | | | | not modelled, see section 8 |

## 2. Modules

A component has one module; `MC…` modules give names to its model values; `…Proofs` modules hold its theorems.

### SyncQueue and JobClaims
Rows of `sync_jobs` (`status`, `connOf`, `attempts`, `lockedBy`, and `ripe` for the time columns: `run_after` has passed, or the
lease of `locked_at` has run out), handlers (`phase`, `batch`) and drain loops (`pc`, `cand`, `task`, `claimNo`). The drains of a
handler share its worker id, as the four do that `SYNC_CONCURRENCY`'s default starts (`route.ts:17`, `:31`, `:95`). The SQL is taken
apart where READ COMMITTED lets another transaction in: `StartHandler` takes the enqueue's snapshot and `EnqueueInsert` inserts
under the unique index; `ClaimScan` ranks, `LockRow` takes a row no other transaction holds, `ClaimUpdate` updates it.
`RunConnection`, `Finish` and `Refinish` (the catch block) are `work()`; a call of finish may take effect with its answer lost, or
fail without effect, and the catch block does not look at the result of its own. `Crash` is a restart of the machine. Which
connections are switched on at the time of an enqueue is left open. `retaken` is a history variable: the drains whose job a sibling,
a drain of the same handler, has claimed since. It decides nothing; the properties need it because `locked_by` cannot tell siblings
apart. Abstracted: the order of the ranking, delays, the texts of errors.

`JobClaims` is the abstract specification, what the queue promises of every job: a connection has at most one open job, claims are
numbered, only the handler of the latest claim settles a job, by that claim or by an earlier one it still held when it claimed the
job `again`, a failure takes `MaxAttempts` claims, and a settled job opens again only by a claim. `SyncQueue` implements it
(`JobsKept`): a job is open while pending or running, and the claims held are those of the drains past their claim (`HeldClaims`).

### SyncRunner
One object of one connection. The vendor is external: records with a payload version and a modification time (`version`,
`modified`, `clock`). The store has `rows`, `newest` (payload of the row with the highest `seq`) and `cursor`. A run reads the
cursor, starts, and then pulls, ingests and advances page after page until it finishes; `at` is its local cursor. `Answers` says
which pages an adapter may return: `WindowPage` (the SQL sources, `windowPage`) or `OffsetPage` (NetSuite, Clover). A full page
promises more; `AfterPage` is the page limit. `RefreshAccount` is the privacy job's refetch. Runs overlap freely: a job may be
reclaimed while its first holder still works. `returned` and `crossed` are history variables: the records that went back to an
earlier payload, whose hash is stored already, and those that two overlapping runs held with two payloads.

### WebhookDelivery and Notification
Rows with `status`, `attempt`, `due`; endpoints that may be switched off, deleted or have their key destroyed; workers with a
leased `batch`, the delivery just posted (`current`) and the answer (`ok`). `posts`, `accepted` and `outlived` are history
variables: how often an endpoint was posted a delivery, whether it ever took it, and whether a lease on it ended under a
worker. The claim's conditions are on the very row it locks, which PostgreSQL re-checks, so it is one step. `Notification` is the
abstract specification, what the client is promised of each event: one outcome, reached along a ladder of attempts each rung of which
is left only after a post for it, delivered only if the endpoint took it, and final until the endpoint is deleted. It has no workers,
leases or batches; `WebhookDelivery` implements it under the mapping `Shown` (`PromiseKept`).

### EnginePipeline
Records appear in two steps, insert (which takes the `seq`) and commit. A run finds the tenant due, reads the first `Limit`
records after the cursor it saw, and per record proposes a task and an approval (`Propose`, `Lookup`, `InsertApproval`: a select
and then an insert, without an index between them); `Advance` is the compare-and-set. Inserts commit in any order; the history
variable `late` holds the records that committed when the cursor, or a run about to move it, was past their `seq`. `RunFails` is
any failed call, boundedly often: a record the sink rejects every time (a blank title, `10_connector_platform.sql:801`, `:850`)
stops every run at the same place (`pipeline.ts:10`), which this bound leaves out. `Decide` is the client; `Claim`, `CarryOut`
and `RecordProof` the executor, which is external and modelled from the functions it is given. What the record loop computes
(entity, lineage, verification) is abstracted to the four kinds of outcome it can have.

### ConnectionAccess
One connection of a one-click platform: `status` of `tenant_connections`, `secret` (the committed row of `connection_secrets`: a
grant, which of its refresh tokens, and `rotated_at`). A sign-in goes through `Begin`, `Consume`, `Exchange`, `Upsert` and
`CommitSignIn`; a disconnect through `Disconnect` and `CommitDisconnect`. Both are transactions of two statements, so `holder`
says whose transaction has the token row locked: another writer of the row waits, and a row not yet committed is seen by nobody. A
run renews tokens (`Refresh`, `Get`, `Ask` or `Refused`, `Save`), each a call of its own, and ends with the health refresh, which
reads a status (`HealthRead`) and writes one computed from it (`HealthWrite`); what health is found is left open. The vendor is
external: `live` is the refresh token it accepts per grant, and `Habits` says whether a renewal keeps or rotates it. `lost` names
grants whose newest token was answered but died on the way.

### Audits
Documents are numbered by `created_at`, which PostgreSQL sets to the start of the upload's transaction: `BeginUpload` takes the
number, `EndUpload` makes it visible or rolls back, and deletion is possible at any time. `attempted_at` is kept as the number of
documents stamped by then, which is all that `audit_claim` compares it with. A worker (the Stripe handler, the sweep, an upload)
claims, lists the newest `DocLimit` documents, reads them and saves a verdict, or goes through the catch block; a claim can be
repeated after ten minutes (`stale`), also while the first attempt goes on. Two history variables: `uncommitted` holds the documents
stamped and not committed when an audit was last claimed, `outlived` the audits on which an attempt took longer than its ten minutes.
The figures of a report are abstracted to whether a document has what a report needs; a report that fails its own checks
(`service.ts:64`) is one of the boundedly many faults, though the same documents would fail it again every ten minutes.

### Billing
One tenant. Stripe is external: subscriptions with a version and a time of change, events with a creation time, resent until they
are answered with 200. A handler checks the ledger, retrieves the subscription as it is now, and writes: `subscription_upsert` is
split into its comparison and its write where two transactions may interleave, the checkout and invoice events use the same
path, and `tenants.plan` follows the upsert. Upserts of one subscription overlap and events share seconds, as in the code. The
history variable `overtaken` holds the subscriptions of which the comparison of times could not keep an old state out: it was made
before another upsert wrote a newer state (`Overtakes`), or the two carry the same second (`SameSecond`). Every subscription names
its tenant in its metadata, so the early return for one that does not (`webhook.ts:52`) is left out.

### Membership and Tenancy
`Membership` takes the three procedures apart at their row locks under READ COMMITTED: a transfer finds the owner's row in its
snapshot, waits, and locks it only if it still is the owner's; the target is locked and read; `require_role` reads the caller's
role without a lock; the transfer's updates wait for the caller's row and are stopped by the unique index on owners. `Fails` is a
lost connection or the victim of a deadlock. Viewers may do here what members may and are members in the model; a membership's
id is the number of times its user has joined. `Tenancy` is the abstract specification: an owner and a set of members, with
founding, joining, leaving and handing over. `Membership` implements it under the mapping `TheOwner`, `People`.

### EmailApproval
One row: its status, its claim (`approved_at` and `approved_by`: none, live, expired, recorded) and the approve requests. A
request reads the row, then claims it by the first or the second conditional update, sends, and records or releases by the id
alone. The provider drops a mail whose idempotency key it has seen, and the key is a hash of the content, so `delivered` is a set
of bodies. `unsure` and `declined` are history variables. Its specification is `ReplySpec` and its type invariant `ReplyTypeOK`, so
that one module of proofs can extend it together with `EnginePipeline`.

## 3. Runs

| Run | Instance | Checks |
|---|---|---|
| `SyncQueue` | 2 handlers, one with 2 drains under its worker id and one with 1, 1 connection, 2 jobs, 2 attempts, 1 fault | `TypeOK`, `OneOutstanding`, `SettledByLatestClaim` |
| `SyncSettles` | the same handlers and drains, 1 job | `JobsKept`, `EveryJobSettles` |
| `SyncRunner` | 2 overlapping runs, 2 records, windows of 2, 2 pages a run, 2 times, 2 versions, 1 refresh, 1 fault | `TypeOK`, `NothingLost`, `NewestIsCurrent`, `CatchesUp` |
| `WebhookQueue` | 2 workers, 1 delivery, 3 attempts, 2 faults | `TypeOK`, `AttemptsBacked`, `LeaseExcludes`, `PromiseKept`, `EventSettles` |
| `Pipeline` | 2 runs, 2 executors, 2 records read one at a time, 1 fault | `TypeOK`, `NothingPassedOver`, `CarriedOutOnce`, `CursorForward`, `RecordsReached` |
| `PipelineTwice` | 1 run, 1 executor, 1 record, 1 fault | refutes `OneProposal` |
| `Connection` | 2 sign-ins, 2 runs, 3 tokens a grant, a clock of 3 values, 1 fault, rotation on every renewal | `TypeOK`, `StoredLive`, `OnlySignInRestores`, `NewerReplaces` |
| `Audits` | 1 audit, 2 workers, 3 uploads of which 2 are looked at, deletions, 1 fault; uploads commit at any time, attempts may outlive their claim | `TypeOK`, `NothingOverlooked`, `OneGenerator`, `ReadyFinal`, `ReadyOnceUsable` |
| `AuditMissed` | 1 worker, 1 upload that commits late, no fault | refutes `RerunsByItself` |
| `Billing` | 1 subscription with 2 states, 1 checkout, 1 invoice, 2 handlers, 2 seconds, 1 fault | `TypeOK`, `CurrentOnceQuiet`, `AnsweredIsRecorded`, `PlanIsPaid`, `EveryEventAnswered` |
| `Membership` | 3 people, 3 calls of which 2 overlap, 2 invitations | `TypeOK`, `OneOwner`, `AdminsSafe`, `OwnershipHandedOver` |
| `EmailApproval` | 3 approve requests, 2 bodies, skips and edits at any time, 2 faults | `ReplyTypeOK`, `OneReply`, `ClosedStaysClosed` |

Why these bounds are enough to be interesting. Every race here is between two processes over one row or one cursor, so two of
each process and one connection, tenant or endpoint suffice. Two jobs of one connection let a settled row and its successor meet
under the index; one job with three drains, two of them siblings, is enough for what is said of a single job. Two records that fill
a window of two give a full page, a re-read boundary and a last page, and two times let them share one or not. Three attempts give a
first, a middle and a last rung of the ladder. One fault at any place (a crash, or a call that failed or whose answer was lost)
reaches every recovery path; `WebhookQueue` allows two. One delivery is enough for it, since no statement about a delivery
reads another one's row, and the theorems cover any number. A clock of three values lets sign-ins and renewals fall into one
millisecond or not, and three tokens let a chain be renewed twice. Three uploads with a limit of two
make an old document drop out of the listing. In `Membership` the third call is one that comes after two that overlapped
(`MaxOverlap`), and the second invitation lets one be accepted while another waits or was withdrawn. Every bound is a constant
(`MaxFaults`, `MaxReplyFaults`, `MaxTime`, `MaxVersion`, `MaxReturns`, `MaxResets`, `MaxSeq`, `MaxCopies`, `MaxTokens`, `MaxDocs`, `MaxInvoices`, `MaxInvites`,
`MaxOverlap`) or the size of a set; when `Jobs` has no unused id or a record has `MaxCopies` approvals,
nothing more is inserted. Symmetry is used only where no liveness property is checked. `Membership` also
has a VIEW, which leaves out what a call has read once the call has ended; no later step reads it.

`CHECK_DEADLOCK FALSE` stands where the system may really come to rest: every delivery deleted with its endpoint, every record
handled and every approval decided, every audit published, every event answered, every call and request made.

## 4. Fairness

Fairness is assumed of code that the scheduler or the runtime keeps executing, never of clients, vendors or faults.
- Queue: requests keep arriving (hourly timer), each step of a handler and a drain is eventually executed, backoffs and leases
  elapse. Strong fairness is used twice: `ClaimScan`, since a drain's first claim goes out at once, 285 seconds before the
  deadline can stop it; and taking each row, since the ranking orders by waiting time and so serves every ripe row in turn.
- Runner: runs are started again and some run goes on, perhaps past one that hangs (weak fairness of the runs together).
- Webhooks: workers are started every five minutes and go on; `next_at` passes.
- Pipeline: runs are started every five minutes and go on; transactions end. The client is free never to decide, and the executor
  never to run.
- Audits: the five-minute sweep starts workers and a worker's calls go on (weak fairness of `Work`); an upload that was begun ends
  (`EndUpload`); a lease runs out. A client need not upload anything and may delete what it uploaded.
- Billing: a handler that has begun goes on (weak fairness of `Handle`), and while anything waits for its 200, Stripe sends one of the
  events that wait (weak fairness of receiving any). Stripe itself need not change anything.
- Connections, membership and email approvals have no fairness: what is checked of them is safety only.
Liveness is stated up to finitely many faults, which is what `MaxFaults` bounds.

## 5. What the runs found

Two statements of the code's own comments do not hold; each is the one property of a `violation` run and an entry under
`findings`.
1. `PipelineTwice`, `OneProposal`: `approval_propose` sees only pending rows, so a record that is read again after its approval was
   decided gets another approval.
2. `AuditMissed`, `RerunsByItself`: an upload that is stamped before an audit's attempt and commits after the attempt has listed
   the documents is neither listed nor newer than the attempt; the audit waits for ever.

Two kinds of boundary remain. Where the code promises less than one might expect, a property exempts exactly the rows, records or
audits that a history variable marks, and, but for `returned`, the run visits the marked cases too: without the exemption TLC
refutes it on the run's own instance. Where a whole configuration is out, a constant says so.

| Run, property | Exempt | What happens to them |
|---|---|---|
| `SyncSettles`, `SyncQueue`: `SettledByLatestClaim`, `JobsKept` | `retaken`, drains of the handler that holds the job | the claim's conditions are in the ranking sub-select and the row is locked by its id, so a job claimed a moment ago is claimed again (`ReclaimOnlyStale` is violated on this instance); `locked_by` names the handler, so the first drain settles the second's claim. This is the shipped configuration; a worker id per drain would be the better fence |
| `SyncRunner`: `NewestIsCurrent` | `crossed` | overlapping runs insert their pages in either order, and the last row is the newest |
| | `returned` | a payload that comes back is not a new row. The run has `MaxReturns = 0`, to stay small; with one run and `MaxReturns = 1` TLC refutes the statement without the exemption, and the theorem covers every value |
| `Pipeline`: `NothingPassedOver` | `late` | an earlier `seq` commits after a run has read past it, and no later run reads it |
| `Audits`: `NothingOverlooked`, `ReadyOnceUsable` | `uncommitted` | an upload commits between the listing and the save: neither listed nor newer than the attempt (`AuditMissed`) |
| `Audits`: `NothingOverlooked`, `OneGenerator`, `ReadyOnceUsable` | `outlived` | `audit_save` tests the status and not the attempt: an old verdict settles a newer attempt |
| `Billing`: `CurrentOnceQuiet` | `overtaken` | equal stamps (Stripe's have whole seconds, and a checkout emits several events in one), or a comparison made before another upsert wrote, let an earlier state replace a later one |

| Module, constants | Violated | What happens |
|---|---|---|
| `SyncRunner`, `Offset = TRUE`, 2 records, pages of 1 | `NothingLost` | a record modified during a pass shifts later ones over a boundary already read |
| `SyncRunner`, `QuietResets = FALSE` | `NothingLost` | after an account refresh the run writes its old mark back |
| `ConnectionAccess`, `Habits` with `"keep"` and `"rotate"` | `StoredLive` | the compare-and-set looks at `rotated_at`, which every renewal changes, so one that kept the token beats the one that rotated it |
| `ConnectionAccess`, 1 sign-in, 1 run | `ActiveHasCredential` | the health refresh writes a status from the row it read before, and undoes a disconnect |
| `EmailApproval`, `Overruns = TRUE` | `OneReply`, `ClosedStaysClosed` | the final updates test neither claim nor status: a slow holder reopens what its successor has recorded |

Seen while modelling, without a property of their own: at exactly a window full of rows of one time an object stops although
nothing is missing; with the order of a sign-in and a disconnect reversed, a credential stays behind the status `disconnected`; a
tenant whose subscription changes plan and is then cancelled, or who has two, can keep the wrong plan (`PlanIsPaid` is checked for
one subscription without plan changes); `last_invoice_at` is written by whichever invoice comes last, and the webhook's tenant
lookup ignores a failed query; a transfer that went on without the owner's lock can deadlock with a later one, and PostgreSQL
aborts one of them; two overlapping requests leave two live invitations for one person, and an invitation not withdrawn outlives a
removal or demotion and restores the role; a skip while a send is under way is forgotten if the send then fails.

## 6. Proofs

All theorems are `THEOREM Spec => …` for every value of the constants that satisfies the module's `ASSUME`. The runs evaluate
those assumptions.

- **SyncQueueProofs.** For any number of drains, whichever handlers they belong to. `QueueTyped`; `QueueRowsWellFormed` (a row is
  locked exactly while running; claims reach only used rows); on them `QueueOneOutstanding`: a row becomes outstanding only in
  `EnqueueInsert` and `ClaimUpdate`, where the index looks at all rows. `QueueClaimsFenced` is inductive: a drain that is named by
  `locked_by` holds the number of the row's latest claim, unless a sibling has claimed the row since, which `ClaimUpdate` records.
  `QueueSettledByLatestClaim` follows, as a step settles a row only when `locked_by` names the drain: no handler settles a claim of
  another. `QueueJobsKept` is the refinement of `JobClaims`: with the index the inserts and claims are its `Create` and `Claim`, with
  `ClaimsFenced` a call of finish is its `Settle`, a retry or a late call is `Forget` or a stutter, and a restart forgets every
  claim.
- **SyncRunnerProofs.** `RunnerTyped`; `RunnerNothingSkipped` under `~Offset` and `QuietResets`, that is, for window adapters and
  account refreshes kept apart from runs. `NothingLost` alone is not inductive: the stored cursor comes from a run's `next`, so one
  must know that a page in flight together with what is stored covers everything before its mark. Rows are only removed by a
  refresh, which the assumption keeps away from runs; records only change to times not before any mark (`hw <= clock`).
  `RunnerNothingLost` follows. `RunnerNewestIsCurrent` needs more: which payload is the newest row of a record is decided by the
  order of the inserts, so `FeedInv` adds, of the records that are neither `returned` nor `crossed`, that nothing is read or stored
  that is ahead of the vendor, that the pages overlapping runs hold agree (`PagesAgree`) and are no older than what is stored, and
  that a record whose current version is stored has it as its newest. It holds for any number of overlapping runs; `FeedIngest` is
  the step that stores a page.
- **WebhookProofs.** `WebhookTyped`; `WebhookAttemptsBacked`, the invariant that ties rows, posts and workers' copies together;
  `WebhookGivesUpAfterLadder`, a conjunct of it; `WebhookLeaseExcludes`
  from `HeldInv`: a row in some worker's hands is settled, outlived or not due, so no second claim takes it.
  `WebhookPromiseKept` is the refinement of `Notification`. It rests on all three invariants: a recorded verdict is a rung climbed
  or an outcome the ladder allows because attempts are backed by posts, a post is for an event that occurred because a held row
  exists, and a claim shows only where it fails rows with an unreadable secret. Crashes, leases and late records are stutters.
- **ApprovalProofs** is about two models, of an approval that the pipeline proposes and of the approval of a reply; they share no
  state, and each theorem names the specification it is about.
  Of `EnginePipeline` (`Spec`): `PipelineTyped`; `PipelineCursorForward`; `PipelineNothingPassedOver`, whatever the order of the commits: the records up to a
  run's new cursor are handled, still in its hands, or `late` (`RunPasses`), because one that commits when the cursor or a run is
  past its `seq` is marked in that very step (`VisibleStep`).
  `PipelineCarriedOutOnce` from an invariant that every approval is in at most one executor's hands, and in one only if approved and
  claimed.
  Of `EmailApproval` (`ReplySpec`): `ApprovalTyped`; `ApprovalOneReply` and `ApprovalClosedStaysClosed` under `~Overruns`, that no
  request outlives its fifteen-minute claim. The invariant says that at most one request is between its claim and its end and that
  the row carries its token (`Alone`), that a reply sent is either in that request's hands or recorded (`Accounted`), and that nobody
  works on a closed row (`Closed`). With `Overruns = TRUE` TLC finds both properties violated.
- **AccessProofs.** `AccessTyped`; `AccessOnlySignInRestores`; `AccessNewerReplaces`, from the row lock (`Locked`): whoever is
  between its two statements holds the row, so what it compared stays true until it commits. `AccessStoredLive` under
  `"keep" \notin Habits`. `StoredLive` alone is not inductive, since a save must succeed: `ChainInv` adds that a run that has
  renewed a grant is alone with its newest token, every other run's token being one the vendor refuses (`Alone`), that what it
  renewed is what is stored (`CanSave`), that a token names its set (`SameSet`), that no token is ahead of the vendor's, and
  that nothing belongs to a grant before its sign-in is stored (`NewGrants`). Without the assumption the theorem is false.
- **MembershipProofs.** `MembershipTyped`; `MembershipOneOwner`, from the unique index on the owner's row; `MembershipAdminsSafe`,
  an action property. It needs `MembershipInvariant`, which adds that the company is owned once it is founded, and that a
  call holds its target's row from the check to the commit (`LockInv`), so that what it judged is what it changes.
  `MembershipOwnershipHandedOver` is the refinement: under the mapping `TheOwner` and `People` every step of `Membership` founds
  the company, lets someone join or leave, hands it over (the steps of `Tenancy`), or stutters.
- **AuditsProofs.** `AuditsTyped`; `AuditsReadyFinal`; `AuditsOneGenerator`: until an attempt outlives its lease, the audit a worker
  generates is in generation, or was set to `failed` by a rescue that came late, and its lease has not run out (`Leased`), so nobody
  can claim it. `AuditsNothingOverlooked`: every document that is still open and stamped before the last claim is among the
  `uncommitted` of that claim (`Stamped`), and from the listing on the worker has every recent usable document that was committed at
  its claim in its hands or is not about to save `needs_data` (`Looked`). `RecentIsListed` counts the documents that can be newer.
  None of them has an assumption.
- **BillingProofs.** `BillingTyped`, with the invariant that only invoice events come to record an invoice (`KindInv`).
  `BillingAnsweredIsRecorded` from `LedgerInv`: the ledger knows every answered event, and what it knows has left its mark in the
  tables. `BillingPlanIsPaid` from `VersionInv` (nothing read or stored is ahead of Stripe, and what has Stripe's version is what
  Stripe has) and `PlanInv`; both are stated for any number of handlers, faults and repetitions, the second for one subscription
  that stays on its plan. `BillingCurrentOnceQuiet` has no assumption. `SeenInv`: a state retrieved for an event, or stored under its
  time, holds every change reported in an earlier second (`UpTo`). `OrderInv`, of the subscriptions that are not `overtaken`: the
  stored time is not after that of an upsert past its comparison, and every answered change is in what is stored and in what such an
  upsert will store. So when every event is answered the last change is stored.

Only model-checked: liveness, which is out of the prover's reach (`EveryJobSettles`, `CatchesUp`, `EventSettles`,
`RecordsReached`, `ReadyOnceUsable`, `EveryEventAnswered`). Every safety property of a passing run is stated by a theorem.
`NothingSkipped` is the other way round: it is proved and no run checks it, since `NothingLost`, which is proved from it, is the
property of the run. `DeliveredWasAccepted` and `GivesUpAfterLadder` are conjuncts of `AttemptsBacked`, which is checked and proved.

## 7. Plan

Done, in this order: SyncQueue with its abstract specification JobClaims, SyncRunner, WebhookDelivery with its abstract specification Notification, EnginePipeline,
ConnectionAccess, Audits, Billing, Membership with its abstract specification Tenancy, and EmailApproval, all with proofs of their
safety properties. Next:
1. Abstract specifications of an audit and of a mirror of the vendor's records, implemented by `Audits` and `SyncRunner`.
2. A tenant with several subscriptions, and one whose subscription changes plan, in `Billing`.
3. `ConnectionAccess`, the rest: pasted keys (`connection_set_key`, `connection_record`), and the composition with the queue,
   which lists only active connections with a credential.
4. `Outreach`, once it has a transport.

## 8. Not modelled

Most of the repository's lines are pages, prompts and calls of language models, the generated table of connector definitions, and
the mapping of each vendor's payload to a record: text and data with little protocol. The models cover the code that keeps state
which several processes change, and so a small share of the lines.

- **Arthur assistant** (chat, router, inbox, calendar, training): what matters in it is what a language model answers. The chat
  route has a send path of its own, which asks for an email whose status is `approved`; no code writes that status. The sending of
  an approved reply is `EmailApproval`.
- **Outreach.** The only transports are a dry run and a stub, and planning and sending start from scripts in a terminal, one at a
  time. Worth modelling when a real transport is there: the gap between the last look at suppression and the send, the update to
  `scheduled` that compares nothing, the catch block that returns a message to `approved` even if it was cancelled meanwhile, and
  the contact set to `active` over `replied`.
- **Snapshot, market data, the engine's graph, audit scoring, portal rendering**: computations over data, read by one process.
- **Membership and sharing**: staff access, shares, single sign-on and the time at which an invitation expires are left out; an
  expired invitation behaves as one withdrawn.
- **Audits**: the sweep takes the five oldest audits; one audit is enough for what is stated here, but not for the question whether
  five failing audits hold up a sixth.
- **Sync runner**: adapters that page by token or by id.
- **Connections**: the statuses `invited`, `key_received` and `paused`, which a one-click platform does not pass through, the
  expiry of a sign-in's state (a state that expires is one never consumed), and the check of the due list before a run's first
  call, of which the model keeps that a credential was there.

Authentication, row level security and encryption are outside the models except where a destroyed key changes what the webhook
queue does. The rate limiter and the delays of backoff are time without effect on the properties.
