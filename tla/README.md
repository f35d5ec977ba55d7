# A TLA+ verification project for the OSINT dashboard

This directory models the parts of the OSINT dashboard whose correctness rests on
the order in which independent processes act on shared rows: web requests, the
dedicated workers, background threads and an external scan server. TLC checks the
models on small instances, TLAPS proves the main theorems for every instance.

Contents: 1. the system; 2. hard behaviours; 3. the modules; 4. the runs;
5. bounds, fairness, deadlock; 6. proofs; 7. what the runs found; 8. what is not
modelled; 9. the plan.

## 1. The system

A multi-tenant Flask application for case management and open-source research
(`app.py`, `cms/`), on PostgreSQL with forced row-level security. Gunicorn runs
several single-threaded processes (`deploy/osint-dashboard-gunicorn2.override.conf`),
so two web requests really do run at the same time and share nothing but the
database. Two systemd services run one dedicated worker each
(`deploy/osint-finding-capture-worker.service`,
`deploy/osint-source-research-worker.service`); other work runs on threads of the
web processes. Sessions are PostgreSQL READ COMMITTED: a `SELECT` and the `UPDATE`
it leads to see different moments unless a row lock (`with_for_update`) or a unique
index spans them. That is the theme of every module here.

| component | state it keeps | operations | talks to | correct when |
|---|---|---|---|---|
| Finding-capture queue and worker (`cms/services/finding_capture_*.py`, `finding_evidence_service.py`) | `finding_capture_jobs`, `finding_screenshots`, PNG files | request, cancel, claim, capture, store evidence, fail | findings (archive/delete), Chromium sandbox | one active capture; evidence behind each completion; every job settles |
| Source research (`cms/services/workflow_source_research*.py`, `spiderfoot_service.py`, `cms/routes/spiderfoot.py`) | `spiderfoot_scans`, its `research_actions` row, `result_summary` with the ledger of imports, findings and their links | queue, claim, start, poll, finish, reconcile, import, cancel; legacy view, refresh, stop, delete | the SpiderFoot server, tenant limits, findings | nothing imported twice; ledger backed; scan and action agree; every request settles |
| Research-action runtime (`cms/workflow/actions/registry.py`, `cms/workflow/routes.py`, `cms/services/action_scope.py`) | `research_actions`, per-process cancel flags, threads | propose, start, run, cancel, archive, restore, link | findings, invoicing, usage, audit | an action runs once, ends once, is invoiced once; a cancelled one stays cancelled |
| Audit trail of external calls (`cms/services/audit_chain.py`, `cms/opsec_check.py`) | hash-chained rows | record, verify, reset | every external call | the chain verifies and misses nothing |
| Findings lifecycle (`cms/routes/findings.py`, `candidate_quality.py`) | `case_findings` status, verification, archive flags | verify, finalise, archive, restore, delete, put in report | reports, captures, research | nothing unverified or deleted reaches a report |
| Investigation lifecycle (`investigation_service.py`) | investigation status, decisions, profiles | plan, start, complete, reopen | research actions | transitions follow the table |
| Numbering and invoicing (`sequence_service.py`, `invoice_service.py`, `models/billing.py`, `cms/routes/invoicing.py`, `credit_notes.py`) | counters, invoices and lines with a stored total, credit notes | bill work or a report, create, edit, send, pay, cancel, delete, credit | research actions, cases | numbers unique and without gaps; the total is the sum of the lines; committed work is billed |
| Case report (`pv_edit`, `pv_regenerate` in `cms/workflow/routes.py`, `ai_plan_routes.py`) | text, release status and stamp, narratives, billed lines | save, release, revoke, regenerate, AI narrative | portal, invoicing | the customer reads what was released; no contribution is lost to a newer copy; billed once |
| Case state and hierarchy (`cases_state.py`, `cases_crud.py`, `case_edit`) | status, end date, closing reason, parent | transition, edit, form, set parent | everything in a case | changes follow the table; date and reason follow the status; no cycle of parents |
| Background tasks (`background.py`, `tasks.py`, `worker.py`) | task rows, thread pool or RQ | submit, run, poll | searches, reports | a submitted task ends, in a row that says so |
| Usage metering (`usage_record.py`, `usage_metering.py`) | one counter per user and period | increment, read | research actions, limits | no increment lost |
| Session and setting caches (`session_cache.py`, `setting_cache.py`) | a per-process copy with a time to live | get, invalidate | login, settings | a revoked session is refused soon |
| Tier limits and feature flags | settings, counts | check, toggle | most routes | a limit is not passed |
| Authentication, 2FA, invitations | users, sessions, tokens, failure counts | log in, verify, invite, redeem | caches, rate limits, seats of the plan | a token is used once; the account fits the plan |
| License client and server (`license-server/app.py`, `cms/services/telemetry.py`, `license.py`) | the server's installs and licenses; the settings with the signed license, its signature and its status; identifier and token in `.env` and in the settings | check in, register, issue, revoke, delete, retire; make and store the identity | the server, over a network that loses answers | a revoked license does not count again; one trial; one identity; the settings follow the server |
| Stripe billing (`stripe_billing.py`) | the tenant's customer, subscription, plan and deletion date | checkout, the webhook's events, plan set by hand | Stripe, which delivers late, twice and out of order | a paid plan has a subscription; who pays is not purged |
| Client portal, registrations, messages (`portal_requests.py`, `customer_registrations.py`, `system_app.py`, `clients_crud.py`) | intakes, attachments, registrations, portal accesses | submit, review, convert, decline; register, decide, approve, invite | cases, clients, invitations | one case per intake, with its attachments; one environment per registration |
| Reminders, webhooks, bots | reminder rows | send | external | sent |
| Retention and GDPR (`data_retention.py`), breach register | deletion dates, policies, logs | purge of expired tenants, export | all tables | purges what is due and nobody who came back |
| Tenant isolation, encryption | session settings, keys | set tenant, encrypt | all tables | enforced in PostgreSQL |
| Photo storage and analysis | files, quota | store, unlink, sweep | research actions | referenced files are kept |
| Search manager and lookups, AI, subjects, reports, UI, WhatsApp, operations | little or none of their own | lookups, rendering, scripts | external services | - |

`PROJECT.json` lists each of them with its sources and its status.

## 2. Hard behaviours

* **Check, then act.** The tenant's scan limit, the proposal check of an action, the
  status tests before a cancellation: each reads, decides, and writes later without a
  lock. The models split every one of them into a read action and a write action.
* **Unguarded writes.** The ORM writes `UPDATE ... WHERE id = ...`. Whatever happened
  to the row since it was loaded is overwritten - but only in columns whose value
  differs from the loaded one, which matters: a worker that sets `running` on a row it
  loaded as `running` does not undo a cancellation.
* **Long external calls outside any transaction.** Chromium, SpiderFoot and HTTP
  sources run for seconds to hours. Each worker looks at its row again afterwards; what
  happens between that look and its commit is invisible to it.
* **Two stores.** Evidence is a file and a row, research is a scan row, an action row,
  a JSON ledger, findings and links, and a scan on another server.
* **Failure.** A worker may be killed between any two steps and is restarted at the top
  of its loop; a commit may fail, or succeed with the acknowledgement lost; a status call
  or a fetch may fail and be read as something else. The settings of the license and the
  identity are several rows, each committed on its own.
* **Deliveries.** Stripe sends an event again until it is answered, and in no particular
  order; what a handler finds depends on which events came before it.

The list with its lines is `hazards` in `PROJECT.json`.

## 3. The modules

### FindingCapture, CaptureSlot

`FindingCapture` models the capture queue. A job is a row of `finding_capture_jobs`:
`status`, `target` (its finding), `shot` (jobs with a `screenshot_id`). `rows` and
`files` are the two halves of the evidence. The web side is `RequestFindingCapture`
(both partial unique indexes of `migrations/versions/finding_capture_20260717.py`
are its guard `ActiveJobs = {}`, the stricter one), `CancelRead` and `CancelCommit`
(the handler reads without a lock and writes later) and the three findings
operations that make a finding immutable or mutable again. The worker is one control
point `wpc` with the job `wjob`; its steps follow `run_once`: look for a queued job,
claim it under `FOR UPDATE SKIP LOCKED`, capture, reload, write the PNG, commit row,
status and audit together, and the failure path through its own reload. Faults are a
kill at any point, a failure that cannot be recorded, and a lost acknowledgement.

`CaptureSlot` is what all this promises: one slot, entered once per job and left for
good, and evidence that only grows. `ImplementsSlot` is the refinement, with
`slot <- ActiveJobs`. Its action `Store` admits evidence for a job whose slot a
cancellation took away, because the code does (section 7).

### SourceResearch

A scan `s` stands for a `SpiderFootScan` row (`scan`, `real`, `removed`,
`proposals`, `ledger`) with the `ResearchAction` that owns it (`action`, `links`)
and the scan at the server (`ext`). Scans are numbered in order of creation since the
worker picks the oldest. `finding` is the life of the finding made from a proposal,
`Payload` its identity: the worker deduplicates by payload against live findings
(`LiveTwins`), so two scans can share one finding. The worker's tick is
`ClaimScan .. RecordRealId`, else `BeginRefresh .. FinishScan`, else `Reconcile`, in
that order of preference, as in `run_once`. `QueueResearch` is the request route
after `CheckLimit`; `ImportProposals` the import route, which holds the row lock from
read to commit; `ViewCommit`, `ViewSummary`, `RefreshCommit` and `StopCommit` are
the legacy pages, which talk to the server first and write the row later, if the
status differs from the loaded one (`PageWrites`); `DeleteScan` is a user's, in one
request, for the scans of the bound `Deletable`. `"raw"` stands for a
word of the server stored unmapped by the refresh button. Scans in `Historical` were
completed by a release that had no ledger. `stranded`, `reopened` and `twice` are
history variables; no action reads them.

### ResearchActions

A row `a` of `research_actions` has a `status` (`"none"` before the INSERT, `"deleted"`
after the DELETE), `archived`, the invoice lines `invoiced` for it and its `links` to
findings; a finding is named by the thread that made it and its payload. `Kind` gives
each action its type, `Photo` the one type with a partial unique index (`IndexHolds`).
`web[p]` is the request a single-threaded process is serving between two of its steps:
what it read is in `act` and `acts`, and the commit that follows writes on that basis.
`pc`, `act`, `proc` and `known` are the action threads: `run_action` is
`Begin`, the handler, `CheckFlag`, the merging of results, `Complete`, with
`PaidRefused` and `RunFails` for its early return and its `except`, `RunBreaks` for an
`except` that fails itself and leaves the row as it is, and `End` for the
`finally` of `start_action_async`. Deleting a proposal takes its links along, unless they
were made after the request read them. `flag[p]` is `_running_threads` of process `p`:
`Launch` starts the thread and only `Register` enters it, as in the code, and
`CancelFlag` finds nothing before that or in another process. The three routes
that start proposals share `StartRead`/`StartCommit` with a set of one or several
actions, the two that insert a running one (`run_action`, `photo_analysis_upload`) share
`AskRun`, `ResetStale`, `InsertPending`. `ProcessKilled` takes a process with its
request, its threads and its flags. A request to run a photo action by the general route
is modelled with the check of the upload. `lost`, `raced` and `heard` are history
variables; no guard reads them.

### Invoicing

One tenant, one year. A request is one transaction under READ COMMITTED: it finds or creates
the client's draft (`Find`, `Allocate` for `_atomic_next`, an upsert that holds the counter's
row to the end), adds its line, recomputes the stored total and commits. The invoice, the line
and the credit note a request makes carry its name, and every line costs one unit, so the right
total is a number of lines. `locked` says whether the request holds the invoice's row:
`recalculate` writes the total only when it differs from the loaded one, and a draft that is
found at zero is therefore recomputed without having been taken first. An edit comes in two
kinds: one that changed the header (`"heading"`) writes it, and so takes the row, before it
deletes the lines (`FlushHeader`); the other deletes the lines first. Two of different kinds on
one invoice can wait for each other (`EditsDeadlocked`), and PostgreSQL rolls one back
(`AbortDeadlocked`). Credit notes are numbered by counting (`CreditNote.generate_number`), not
by the counter.

### PortalIntake

`intake` is the status of a customer's request, `req` the page a member of the staff
pressed a button on, with what that page showed (`page`) and what the handler loaded
(`seen`). `Convert` gathers the attachments and commits the case in a second step, so a
message can arrive in between. `late` is history: which request committed while which
other one was at work; the exceptions in the properties are stated with it.

### CaseReport

A text is the set of the requests whose contribution it holds. Forms work on the text of
the page that was opened (`page`), the generators on the row they loaded (`body`), the AI
narrative for as long as the AI takes. `clock` and the times in `req` are history.

### CaseLife, CaseTree

`CaseLife` holds the status of a case with the end date and the closing reason, and the
three requests that write it: the transition, the edit route and the workflow's form,
which stores the word of its select. `CaseTree` is the hierarchy: `Load`, the walk to the
top one row at a time (`WalkFrom`, `WalkUp`), `SetParent`. A session keeps rows it has
read, which is why a walk over a circle does not end.

A circle is spoken of without following links: cases that each have their parent among
them contain one (`NoCircle`), and a case is on one if every set that holds its parent,
and what is above its members, holds the case too (`OnCircle`). For finitely many cases
that is the same as coming back after some number of links, and it needs no induction to
reason about.

### Subscription

`row[t]` holds the columns of a tenant that Stripe's events write: customer, subscription,
plan, deletion date. `stripe` is what Stripe knows. An event may arrive at any time after
Stripe could have sent it, again and again (`MayArrive`); `FindTenant` is how each handler
finds its tenant, `Outcome` what it leaves there, `DropEvent` the event that finds none. The
purge reads the dates once (`PurgeSelect`) and goes tenant by tenant in one transaction,
which a failing tenant rolls back without ending the loop (`PurgeFails`). A tenant it is done
with is only marked in its session, and its row is free until the commit sends the DELETE.
`handled` and `odd` are history. Each handler is one step; the purge is not, so every event
may come between two of its steps, for tenants it has gone past as well.

### TenantRows, MCTenantRows

`TenantRows` puts `CaseReport`, `CaseLife`, `CaseTree`, `PortalIntake` and `Subscription`
side by side. They write different columns and share no variable: `part`, chosen at the
start, says whose requests a behaviour is about, and the others rest. `MCTenantRows` checks
all of them in one run.

### Onboarding

`form`, `status`, `kind` and `archived` are a registration; `req` is a request of the
staff, loaded with what the page's button needs (`Admits`) and committed later. An
approval names what it makes: the client, the access and the invitation of request `r`
are `invite[r]`, the tenant of an organization is `r`. `NameTenant` is `_slugify`, whose
answer may be taken before the commit. `visit` is the request of somebody who opened the
link: `Open` makes all its checks, `Join` and `Enroll` commit. `before` orders the
invitations by `created_at`. `late`, `overrun` and `raced` are history.

### License, InstallIdentity, Installation

`License` is the license server with one installation, and the check-in of that
installation's workers. Each Gunicorn worker has a telemetry thread; they share the
settings. `worker[w]` is where the check-in of `w` stands and the answer it holds:
`Register` or `Telemetry` is the server's part, then `registered`, the day of the last check,
`payload`, `signature` and `status` are stored one commit at a time, in the order of the code.
`Lose` is a lost request or answer and a worker that dies, `FailStore` a commit that fails,
after which the code goes on with the next setting. `Issue`, `Revoke`, `Delete` (of an install
or of the license a retired one left) and `Retire` are the administrator and the privacy
maintenance. Licenses are numbered as they are signed.
`heard` and `mixed` are history.

`InstallIdentity` is how an installation gets the identifier and the token it registers
with: `Look` in the environment the worker started with and in the settings, make and store
what is missing (`SaveId`, `SaveToken`), add it to `.env` (`AppendToEnv`). The server keeps
the token an identifier came with first (`Refused`). `Installation` joins the two, each
explored while the other is at rest.

In all modules definitions marked *Wrong variant* are not part of `Next`. Each is
the mutation of the definition it precedes, and shows that a property can be broken
by a plausible mistake in that code.

## 4. The runs

| run | instance | asks |
|---|---|---|
| `capture_safety` | 2 jobs, 2 findings, 2 cancelling handlers, 2 faults, fair | evidence, what a cancellation loses to, the refinement of `CaptureSlot`, every queued job settles |
| `research_worker` | 5 scans (2 historical, 1 of them deletable), window 1, limit 1, 2 requesters, 1 fault, no pages, fair | the ledger and the limit; every request settles, history is reconciled |
| `research_pages` | 1 scan, 2 results, 2 page handlers, 1 fault | the same scan seen by two stale pages, a cancellation and the worker |
| `actions_safety` | 1 action, 2 processes, 3 threads, 1 fault | invoicing, final states and cancellation under every overlap of two requests |
| `actions_liveness` | 2 photo actions, 1 process, 2 threads, 1 fault, fair | who works on an active row; every started action ends |
| `invoice_books` | 3 requests, 2 clients, fair | numbers, totals, what is billed, credit notes; every request ends |
| `invoice_edit` | 3 requests, 1 client | violation of `EditKeepsLines` |
| `tenant_rows` | 3 requests on a report and on an intake, 2 users on a status and on a hierarchy of 3 cases, 2 tenants with 2 subscriptions | what is read, lost and billed of a report, dates, circles, one case per intake, paid plans and the purge |
| `case_closed` | 2 users | violation of `ClosedIsReadOnly` |
| `onboarding` | 2 registrations of one address, 3 requests, 2 visitors, 3 addresses (2 with one name), 1 seat | environments, registrations, accesses, seats |
| `subscription_purge` | 1 tenant, 2 subscriptions | violation of `ResubscribedIsKept` |
| `license` | 2 workers, 2 licenses, 2 faults; 2 workers that start; fair | revocation, trials, identity; the settings follow the server |

Some safety properties are theorems (section 6) and are in no run of their own:
`TypeOK` of each module, `AtMostOneActive`,
`RunningIsHeldOrAbandoned`, `ScanAndActionAgree`, `StampedDraft`, `BilledOnce`,
`ReasonFollowsStatus`, `FollowsTable`, `OneOpenRegistration` and `AcceptedIsLinked`.

What the passing runs show:

* **ImplementsSlot** - no status write, guarded or not, brings a finished capture back into
  the one slot all tenants share.
* **EvidenceBacked** - completion implies a row; the file of a row whose commit was
  acknowledged exists.
* **QueuedIsSettled** - without a fault every queued job settles.
* **CancelOverwrittenOnlyInFlight** - the reload after the capture is what makes
  cancellation work, and the window after it the only gap.
* **LedgerBacked** - what the ledger counts as imported can be found behind the
  action's links, whatever completions, retries, imports and cancellations do.
* **ImportedOnce** - a proposal becomes a finding a second time only in a scan that a
  stale legacy page reopened after it was settled.
* **SettledNeverLaunched** - a scan stopped before the worker's second look is not sent
  to the server.
* **RequestSettles** - a request ends unless the worker died before the external id
  was stored or its scan was deleted. **HistoryIsReconciled** - an old scan that the window
  reaches for good is reconciled, whether it was among the oldest completed ones from the start
  or moved up when older ones were deleted; one that stays behind the window is not.
* **LimitOverrun** - the limit on concurrent scans is checked before, and not with, the
  insert; it is overrun by the requests that race for the last place and no further.
* **InvoicedOnce, FinalIsFinal** - of all the unguarded writes in the action runtime only
  a second start of the same proposal can make an action run, or be invoiced, again.
* **HeardCancelSticks** - a flag that was raised while the handler ran ends the action
  without a result, even if it is reset, archived or deleted meanwhile.
* **ActiveHasWorker, StartedEnds** - an action left pending or running for ever is one whose
  thread was lost or could not record its own failure; a full index, a refused start or a
  failed run leaves none.
* **GaplessNumbers** - the counter row, held to the end of the transaction, numbers the
  invoices 1 to n whatever rolls back. **NotesInOrder** - credit notes are numbered by
  counting, which two requests do alike; the unique column refuses the second, and as
  long as none is deleted the rest stay in order.
* **TotalIsSum** - a stored total differs from the lines only where a writer found the
  invoice at zero, because then its recompute did not take the row.
* **CommittedWorkIsBilled** - no line is lost but by an edit that replaces all of them.
  **EveryRequestEnds** - only two edits of one invoice, one with a changed header and one
  without, can wait for each other, and the database rolls one back; every other order in which
  requests take case, counter, invoice and lines ends by itself.
* **OneCase, AttachmentsFollow, ClosedReopensOnlyStale** - a second case, a forgotten
  attachment and a reopened intake each need an overlap or a page older than the conversion,
  and nothing else.
* **OnlyReleasedText** - what a customer reads is what was released, unless a generator ran
  afterwards or a save overlapped the release. **LostOnlyToStaleText** - a contribution only
  gets lost to a copy taken before it. **FilledIsBilled** - a report with a text was billed,
  unless a generator wrote the first one.
* **EndFollowsStatus** - what the form and overlapping requests break, and nothing else does.
* **NoCircle, EndlessOnlyOnCircle** - a circle of cases needs two overlapping requests, and
  a walk without end a circle, or a change under it.
* **PaidHasSubscription** - whatever comes late, twice or out of order, a plan is paid by a
  subscription that runs, or whose end was not answered yet, unless somebody set it by hand
  or a checkout was answered after the end. **PayingIsKept** - the purge takes a tenant who
  pays only if a checkout came while the deletion was scheduled or over another live
  subscription, or an event was handled between that purge's reading of the dates and its
  commit. **KeptByFailure** - and it leaves a
  tenant it picked only because of a failure.
* **OneEnvironment, EnvironmentIsApproved** - what two decisions at the same time can do to a
  registration, and that nothing else does.
* **OneAccess, SeatsOverrun** - one access per address, client and inviting tenant; as many
  accounts over the plan as visitors overlapped.
* **HeardRevocation** - once a worker stored that a license is revoked, that license does not
  count again, unless two check-ins were storing at once or one stored its status and nothing
  else. **OneTrial** - lost answers, silence and a purged row bring no second trial, only
  deleting the install or the license left of it does. **OneIdentity** - wherever a start
  breaks off, the next one ends with the identity the server knows, unless two workers made one
  at the same time. **FollowsServer** - torn, mixed and missed answers are made good by a later
  check-in.

## 5. Bounds, fairness, deadlock

`Jobs` and `NumScans` bound the rows, `MaxFaults` the faults of a behaviour,
`Handlers`, `Requesters` and `Pages` the concurrent web requests; `Actions` and `Threads`
the rows and the threads ever started. In the later modules `Requests` bounds everything:
a request runs once, and what it makes carries its name. Two handlers are enough to have
one of them stale with respect to the other, a second job to have a successor in the
slot; two scans with one equal and one different result exercise sharing; two faults allow
a failure in the handling of a failure. Two processes with three threads let one action be
started twice and cancelled or reset by the other process; two photo actions are what the
unique index tells apart and a batch consists of. `MaxConcurrent` and `Window` are the
tenant limit (10) and `LIMIT 50` reduced to what the number of scans can reach: with two
historical scans and a window of one the second stays outside until the first is deleted, which
`Deletable` allows.

Three requests on an invoice let one create it, one add to it and one change it while
another is at work; two clients show that the counter is shared and the drafts are not.
Three on an intake are a conversion, a second one and a message or a stale decision in
any order. Three requests on a report give a release, what it overlaps and a later
generator; two users and three cases give a circle that needs both, and one of length
three. For the onboarding two registrations of one address, two visitors and three
addresses let accounts with different names overlap for the one seat, make two with the same
name collide, and make every check of the code fail at least once; three requests are two
approvals and what follows one.

Symmetry is used in `actions_safety`, `tenant_rows` and `onboarding`, which check no liveness.

`MaxSubs` bounds the subscriptions: with two, one can end, be replaced or be held beside the
other; with two tenants the purge has one to fail on before and after another. `MaxLicenses`
bounds the licenses, and with them the deletions of an install; with two there is an older
and a newer answer, with `MaxFaults = 2` an answer can be torn twice, or lost and torn.

Fairness is weak fairness of the worker's step (`FairSpec`): `run_forever` loops over
`run_once` without end and every wait in it is bounded by a timeout. In `SourceResearch` each
external scan ends as well. In `ResearchActions` each thread and each request in progress goes
on: the operating system schedules both, and the sources a handler calls time out. In
`Invoicing` a request that was begun goes on (gunicorn runs it to the end or kills it, which is
a failure), and PostgreSQL hands a row on to whoever waits and breaks the one deadlock named by
`EditsDeadlocked`; requests that waited for each other in any other way would show as requests
that never end. In `License` a worker's thread goes on as long as the application runs
(`telemetry.py` loops over its check-in and catches everything) and days pass; `MaxFaults` says
that from some day on the network and the database answer. No web request, import, fault or
page is assumed to happen. There is no fairness on the choice between a step's success and
failure, so liveness holds whichever the browser or the server returns.

`CHECK_DEADLOCK FALSE` is set throughout: rows and requests are finite here, and once all
of them have been used and settled and no page is open, nothing is left to do.

## 6. Proofs

Each `X_proofs` holds the theorems of `X`. Every safety and action property of a passing run
is a theorem for every value of the constants; what is only model-checked is at the end of
this section. The assumptions are named in the modules that declare the constants, and TLC
evaluates them in the runs: types, `None` outside the sets it stands beside, and that the
set of addresses or requests is finite where lines, places or seats are counted.

*FindingCapture.* `TypeCorrect` is inductive once the worker's points are tied to its
job (a worker not polling or claiming holds a job). `OneActive` needs that a handler
that cancels cannot reactivate, which is the shape of `CancelCommit`, and that a
completion, failure or cancellation never writes an active status. `Held` adds that the
job in the worker's hands is unique. `Evidence` needs that the file of the job in hand
exists while `wpc = "written"`. `CancelIsSeen` and `Refinement` follow step by step from
these; the refinement maps each action to `Admit`, `Vacate`, `Store` or a stutter.

*SourceResearch.* `Typed` strengthens `TypeOK` with `WorkerInv` (the worker holds a scan
that exists, with a real id from the poll on) and `PageInv` (what an open page has
read). `LedgerIsBacked` is inductive over `Typed`: `Materialize` and `ImportProposals`
link what they tick off, and findings never return to `none`. `OnlyReopenedTwice` needs
`OnceInv`: an unsettled, never reopened scan has no finding of its own, since it has
not been finished; so the fresh ledger of `FinishScan` cannot repeat anything, and
reconciliation and import consult the ledger. `RowsAgree` (for `Pages = {}`) needs
`AgreeInv`: a scan the worker has claimed stays running until the worker writes both
rows. The two theorems on the limit go by counting: in `PlacesInv` each request past the check
has a place below the limit or is one of those that raced, so the counted scans and the
requests past the check together are fewer than the limit and all requesters. A legacy page
can store a word of the server that is not counted and later one that is;
`OverrunWithoutStatusPages` says that nothing else the pages do breaks the bound, and
`OverrunWithoutPages` follows. `NeverLaunched` carries a settled, unsent scan through every
later step: `UnsentInv` says that pages and polling work on scans whose real id is known, so
nothing but the worker's start could send it, and the worker is past the look that keeps it
from starting (`NeverSent`).

*ResearchActions.* `Typed` adds to `TypeOK` that a thread between start and end has an
action and a process, and a request an action where its step names one. `OnceInv` is the
inductive core. For an action not started twice (`StartedOnce`) it says that at most one
thread or one request holds it; that before its thread begins it is pending (or deleted),
without result, and no request has read it as running; and that afterwards its status is
one no blind write can turn back. Once heard (`Heard`), a working thread is still in its
handler and its flag is still raised: only `Register` clears a flag, and no registration
is outstanding by then. `InvoicedOnceHolds` and `HeardCancelHolds` read it off;
`FinalIsFinalHolds` goes through the writers of an active status: `Begin`, `InsertPending`
and `StartCommit`. `ActiveHasWorkerHolds` is inductive over `Typed` alone.

*Invoicing.* `Inv` adds to the two properties `RowInv` (an invoice exists once the request
it is named after has committed it), `HandInv` (what a running request has in hand: a new
invoice has the number `counter + 1`, a found one is of the client) and `OneHolder`: one
request at a time holds the counter's row, which is what makes that number unique.
`Totals` needs `LockInv`: a request that is past its recompute and found a total that was not
zero holds the invoice's row, nobody else holds that row then, and no two requests
delete the same lines. With it a sum computed under the lock is still right at the commit,
unless somebody who had found the invoice at zero, and so held nothing, committed in between
(`SumInv`). `NoteNumbering` is about two countings that nothing serialises. `StampInv` says
that of the inserts not yet committed no two carry one number, since the unique column makes
the second wait; `TakenInv` that all numbers below a note's are taken; `OrderInv` that
numbers grow with the stamps. A note's number then counts the notes up to it: the map from
stamps to numbers is one to one, onto 1 to n.

*Installation.* `Parts` says that a behaviour of the two together is one of each. For
`Revocation`, licenses are numbered as they are issued, and nobody knows of the present one
that it is revoked before it is (`Issued`, `Known`). Unless check-ins were mixed, what a
check-in holds is at least as new as what is stored or was heard of (`Newer`), and a status
that counts came with a license newer than any that was heard revoked (`Superseded`). `Trial`
needs that there is no further trial while a license row exists, which `Retire` leaves. For
`Identified`, a worker's environment is the one it started with, which only grows
(`Copied`); the environment and the settings agree where both say something (`Agree`); what a
worker has found or made is what it will present (`Found`); and what the server knows is in
the settings or else in `.env` (`Recorded`).

*TenantRows.* Its parts are proved one by one in `TenantRows_proofs`, as follows, and `Parts`
says that a behaviour of `RowsSpec` is one of each part.

*PortalIntake.* (`PortalIntake_proofs`, under the premise `Absent` that `None` is no request
and no intake, which `TenantRows` assumes; carried over by `SameIntake`, which says that its two
instances in `TenantRows_proofs` behave alike.) A second case is made by a request that had
loaded the intake as open. `Noticed` says that such a request was overtaken, which `late`
records, or reopened it; `StaysConverted` that an intake with a case is converted unless
reopened; `Takes` that a gathered set of attachments misses only those sent since.

*CaseReport.* `Times` orders opening, loading and committing. `SeenStatus`, `SeenText` and
`SeenBill` say of a copy in hand what the properties say of the row: it differs from the
row only by what was committed since it was taken. Each property follows for a step from
what the copy of the committing request is known to hold.

*CaseLife.* `LifeCopies`: what a request holds is the row unless it is marked old, and a
transition or an edit leads from the copied status to a next one of the table.

*CaseTree.* `Circles` needs what an undisturbed walk knows (`TrueWalks`): the parent of each
case it has seen is one it has seen or is about to see, and it never sees its own case. When
it has come to the top and stores its link, the cases it has seen that are on a circle through
that link have their parents among themselves without it: by the invariant, a link stored on
an old walk is among them already. `EndlessWalks` reads the second half of `TrueWalks`: what
was seen leads to the case that comes next, so a walk that comes back went round a circle.

*Subscription.* `Owned` says that a tenant has a subscription of its own whose end was not
answered, and a paid plan only with one; `Counted` that a subscription that was bought and
runs is the tenant's, and that no deletion is scheduled beside it, but in the cases
`PayingIsKept` names; `Purging` what the job has gone past, that a tenant it picked still has
its date or was overtaken since, and that a deletion it undid was followed by a failure.

*Onboarding.* `KnowsStatus` and `SawEnvironment` play the part of `Noticed`: a decision in
progress has seen the status, or the environment, or was overtaken by it. With
`StatusInv` (a stored registration has a status; an answered question is a revived one; a
checked form found no open registration that was not stored since) they give the three
properties of registrations. `InviteInv` says that a waiting invitation found no access
but those it is `late` for. `VisitInv` says that a visitor who was not overtaken still has
the room he was shown, which bounds the accounts; the count itself uses the theorems on
finite sets. The steps are grouped by what they leave alone (`Alone`, `Elsewhere`,
`Closed`), so that each property is proved once per group.

Model-checked only are the liveness properties `QueuedIsSettled`, `RequestSettles`,
`HistoryIsReconciled`, `StartedEnds`, `EveryRequestEnds` and `FollowsServer`, which rest on
fairness and so on ENABLED, out of this prover's reach. The three violations are
counterexamples, and nothing is proved about them.

## 7. What the runs found

Each violation run checks one sentence of the repository; the quotations are in
`findings` of `PROJECT.json`.

* `EditKeepsLines`: an edit that carries no line deletes the invoice's lines, although the
  page says that it preloads them.
* `ClosedIsReadOnly`: the workflow's form stores its select's word on a closed or archived
  case. The select offers `open`, `in_progress` and `closed`: an active, suspended or
  archived case becomes `open` when any other field is saved, and no transition leaves
  `in_progress`.
* `ResubscribedIsKept`: a checkout leaves `scheduled_deletion_at` alone, which only a later
  update of the subscription to `active` clears. A tenant that comes back within the 30 days is
  purged on the old date if that update comes first, is lost, or the subscription is in trial.

What the models reach and no sentence of the repository rules out, for a maintainer to
know of:

* *Captures.* A capture cancelled after the worker's reload completes.
* *Research.* The 50 oldest completed scans fill the window of the reconciliation whether or
  not they are done. A stale page reopens a completed scan, which is finished again with a
  fresh ledger and recreates a finding the user had discarded. A page can store a word of the
  server that the limit does not count, and later one that it does. A failed fetch is an empty
  result. A cancelled source-research action is completed by the worker.
* *Actions.* An action cancelled through the other web process, or after its thread looked
  at the flag, completes with findings and an invoice line; a proposal started twice runs
  twice; a late cancellation discards findings that another action links to; two threads
  store the same payload twice; a row stays running when the error handler of its thread
  cannot write it.
* *Invoices.* The docstring of `_ensure_draft_invoice` speaks of this month's draft, the query
  looks for any draft of the client. Status moves are not guarded by the status they found. Two
  edits of one invoice, one with and one without a changed header, can deadlock, and the user
  of one sees an error. Deleting a credit note can give the next one a number that is taken,
  and then none can be made. Two first saves of a report at the same time bill it twice.
* *Reports.* A withdrawal by saving sends the customer no notice. The AI's text goes
  through `pattern.sub` as a template, so a backslash in it is interpreted. The confirmation
  says the whole report will be overwritten, where only the summary's block is. Notices are
  sent after the commit, in no particular order.
* *Customers.* Portal accounts take seats of the tenant's plan. The username is compared
  within the tenant and unique across tenants. An organization can be approved although
  its address has an account elsewhere; the invitation can then not be accepted. A platform
  administrator's invitation to another tenant's client carries the administrator's own
  tenant. Overlapping approvals of an organization usually, not always, collide on the
  tenant's unique slug. An invitation is mailed again after it expired as if it were valid,
  and cannot be replaced: the access it came with refuses another, the approved registration a
  new form. The notice to a tenant's administrators is added after the commit.
* *Subscriptions.* A later update to `past_due` gives the paid plan back that the last failed
  payment took. A tenant whose subscription becomes active after the purge read the dates is
  purged all the same: the date is not looked at again before the DELETE.
  `purge_expired_tenants` returns how many tenants were due, not how many it purged.
* *License and identity.* If the commits of payload and signature of one check-in fail and
  that of the status succeeds, an active status is stored beside an older license: one that
  was revoked counts again until the next check-in. The proof of `Revocation` showed it, where
  the invariant was not preserved; `mixed` names it since. Two workers that start for the first
  time together make two identities, and the one that loses is refused by the server later. A
  registration that is repeated after a lost answer is sent no license, and the next check-in
  is a day away.

## 8. What is not modelled

Row-level security and encryption (one tenant is modelled, or the tenants of the new customers
in `Onboarding`), the content of findings and screenshots, URL validation and the browser
sandbox (success or failure), audit rows (written in the same transaction as the change),
feature switches (a refusal), and the legacy start form and legacy result import of SpiderFoot.
Of the cases, creation, and the cascade of archiving and restoring; a restore takes back what
was archived on its own as well. Of the customers, login, sessions, the second factor and
accounts made by administrators. `created_at` is taken to be the order of the commits. Of the
subscriptions, two handlers that overlap on one tenant; of the license, a server without a
signing key. Components marked `not_modelled` in `PROJECT.json` carry their reason there.

## 9. The plan

What would come next, most important first:

1. An abstract action life cycle that `ResearchActions` and the scans' actions of
   `SourceResearch` both refine; linking and unlinking an investigation.
2. `FindingLife`: verification, report flag and archive state; the report refines a
   snapshot of verified findings.
3. `AuditChain`: writers under several processes, verification, reset.
4. `Background` and `SessionCache`: restart of the pool; revocation seen by a process
   within the time to live.
