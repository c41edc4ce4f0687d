# A verification of the NEXT Company backend

TLA+ models of the parts of this repository whose correctness depends on the
order of things: several processes, a clock, crashes, people who press buttons
at the same time, and two hosts with one database each. The models are checked
with TLC on small instances and, where
the argument does not depend on the size of the instance, proved with TLAPS.

Paths below are relative to the root of the repository. `PROJECT.json` maps
every definition to the lines of code it stands for.

Contents: [the system](#the-system), [modules](#modules),
[worker foundation](#worker-foundation), [release store](#release-store),
[public sync](#public-sync), [bulk source](#bulk-source),
[RAW staging](#raw-staging), [Firmoteka crawl](#firmoteka-crawl), [company enrichment](#company-enrichment),
[incident controller](#incident-controller),
[workspace members](#workspace-members), [bulk check](#bulk-check),
[monitoring](#monitoring), [runs](#runs), [fairness](#fairness),
[proofs](#proofs), [findings](#findings), [limits](#limits),
[not modelled](#not-modelled), [plan](#plan).

## The system

The program collects facts about companies from public sources, derives risk
and summary for each company and publishes the companies that are ready. HOME
runs a PostgreSQL database, the workers and the publisher; a public VPS runs a
second database that only receives finished releases. A workspace application
serves customers from the published releases.

| Component | State | Operations | Correct when | Model |
|---|---|---|---|---|
| Worker foundation (`app/worker/`) | `worker_jobs`, `worker_runs`, `worker_leases`, `worker_publication_state`, fencing sequence, signals a job owns | create, claim, heartbeat, publish, complete, fail, sweep, operator retry, pointer rollback | one outcome per job, only the newest claim of a source publishes, nothing is stranded, every source gets its turn | `WorkerFoundation` |
| Readiness daemon, controlled interval (`scripts/run_data_readiness_scheduler.py`) | lanes, work budget of an interval | sweep, schedule, claim, execute | the budget is respected, a lane does not block another | none yet |
| Data readiness scheduler (`app/services/data_readiness_scheduler.py`) | rows of dataset readiness | due, success, failure, projection of worker outcomes | the newest outcome of a dataset wins | `BulkSource` |
| Company enrichment, replay signals | enrichment runs, their rows of coverage, replay signals | create, plan, reconcile, reopen, restart, conclude | a company is shown on complete answers, no signal is passed over | `CompanyEnrichment` |
| Company factory | generations, batches, watermarks | admit, scale, forecast | bounded admission, no company admitted twice | the steps on one company, in `CompanyEnrichment` |
| Master registry, source changes | identities, change log | merge, emit signals | a merge keeps one identity | the emission of signals, in `CompanyEnrichment` |
| Firmoteka crawl (`app/ingestion/firmoteka_worker.py`) | crawls, pages and companies to ask for, the chain of jobs | discover, hand a batch out, publish it, resume a broken chain | nothing listed is forgotten, one chain of jobs per crawl | `FirmotekaCrawl` |
| Ingestion and source workers | RAW directories, facts | download, stage, publish, replay, confirm | a release is staged whole and published whole | `RawStaging`, `BulkSource` |
| Public sync publisher (`scripts/run_public_sync.py`, `app/services/publication_service.py`) | baseline, requests, bundles on HOME | scan, normalize, claim, build, upload, stage, accept, promote, verify, record, roll back, recover | HOME and VPS agree, every change is published, a crash loses nothing | `PublicSync` |
| Release store on the VPS (`scripts/import_public_release.py`, `scripts/rollback_public_release.py`) | releases, pointer | stage, accept, promote, roll back | one active release, no release lost, no undone release served | `ReleaseStore` |
| Incident controller (`app/incidents/`) and the owner's actions | incidents, attempts | detect, playbook, escalate; cancel, pause, ask | bounded attempts, what is settled stays so | `IncidentController` |
| Workspace members (`workspace_app/member_service.py`) | members, invitations, sessions, seats | invite, accept, demote, suspend | a last owner, no seat twice | `WorkspaceMembers` |
| Bulk check (`workspace_app/bulk_service.py`) | job, rows, pinned release | chunk, cancel, resume, retry | every row once, from one release | `BulkCheck` |
| Monitoring (`workspace_app/monitoring_service.py`) | saved companies, subscriptions, snapshots, feeds | subscribe, scan, pause, unsave | every change once | `Monitoring` |
| Public site, admin, aggregators, engines | none of their own | read, render, compute | pure functions of the rows | none |

How they interact:

- **The tables of HOME are the bus.** Schedulers, enrichment and the factory
  submit jobs; executors claim them; the incident controller and the admin panel
  retry them; a job settles the replay signals it was created for. Every
  operation is one transaction that takes row locks, some of them with
  `SKIP LOCKED`.
- **Executors are processes** under systemd, each with threads that report
  progress and a child process that runs the handler. A restarted executor
  presents the same worker id as the one that died.
- **Publication crosses two databases.** The publisher reads the canonical
  truth on HOME, sends bundles and commands over SSH, reads the active release
  over HTTPS and records on HOME what it has published. No transaction spans
  both hosts.
- **A workspace serves many people at once.** Each request is a transaction at
  READ COMMITTED: what it reads without a lock may be gone when it commits.
- **Truth changes under the publisher**: a newer enrichment run, a late
  coverage that reopens a finished run, a replay signal that makes a company not
  publishable.

What is hard here, and what the properties are for: stale owners that come back
after the sweep; clock readings older than the locks; claims that overtake one
another; a death between any two transactions; answers that get lost and
commands that take effect after they were given up; and work that must
eventually be done although all that is allowed. `PROJECT.json` lists these
hazards at the lines where they bite, with the properties that would catch each.

## Modules

| Module | What it is |
|---|---|
| `WorkerFoundation` | the job queue, its leases, fencing and publication pointers |
| `JobService` | what the worker foundation promises, without attempts, leases, processes or time |
| `MCWorkerFoundation` | its instances for TLC |
| `WorkerFoundationProofs` | the inductive invariant and the theorems |
| `ReleaseStore` | the release tables of the VPS and the commands on them |
| `PublicSync` | the publisher and its outbox on HOME, composed with `ReleaseStore` |
| `MCPublicSync` | its instances for TLC |
| `PublicSyncProofs` | the inductive invariants and theorems of `ReleaseStore` and `PublicSync`, the refinement of the store |
| `BulkSource` | one official source: its page, schedule, jobs, facts and readiness row |
| `RawStaging` | the write-once directory of one release on disk |
| `FirmotekaCrawl` | the crawl of the Firmoteka catalogue and its schedulers |
| `IngestionProofs` | the inductive invariants and theorems of `RawStaging` and `FirmotekaCrawl` |
| `CompanyEnrichment` | the runs, rows, signals and jobs of one company |
| `CompanyEnrichmentProofs` | its inductive invariant and the theorems |
| `IncidentController` | the incidents of one source, the autopilot and the owner |
| `ControlPlaneProofs` | the inductive invariants and theorems of `BulkSource` and `IncidentController` |
| `WorkspaceMembers` | members, invitations and sessions of one workspace, with row locks |
| `WorkspaceMembersProofs` | its inductive invariant and the theorems |
| `BulkCheck` | one job of the bulk check |
| `Monitoring` | subscriptions, scans and feeds for one company |
| `ChangeFeed` | what monitoring promises a workspace |
| `WorkspaceServicesProofs` | the inductive invariants and theorems of `BulkCheck` and `Monitoring`, the refinement of `ChangeFeed` |
| `MCComponents` | instances of the last eight components for TLC |
| `ComponentsProofs` | that the instance of `MCComponents` is a run of each component, and its type invariant |

`PublicSync` extends `ReleaseStore`: the VPS is the same state, and each remote
command of the publisher is one of its actions. `WorkerFoundation` and
`PublicSync` share no state that either decides on (the first runs the jobs that
change the truth, the second sees the truth change), so they are not composed.

The eight components of `MCComponents` share no state either. It is one module so
that one run checks them: the variable `part` says which of them runs, from the
set `Running`, and the others stay as they began (`Parked`). What one component
needs of another is an action of its environment: `BulkSource`, `FirmotekaCrawl` and
`CompanyEnrichment` see the worker foundation as jobs that run and end, the
incident controller sees failures of runs.

In every module a definition whose comment starts with `Mutant:` is a plausible
bug. None is used by the specification; the entries `mutants` of `PROJECT.json`
put one in the place of the definition it varies, and the named property must
then fail.

## Worker foundation

### State

| Variable | In the code |
|---|---|
| `jobs[j]` | a row of `worker_jobs`: status, what is left until `next_attempt_at`, newest run |
| `runs[t]` | a row of `worker_runs` with fencing token `t`: job, attempt, worker id, status, age of its heartbeat, what is left of its deadline, `retryable` |
| `lease[s]` | the row of `worker_leases` of source `s`: token and time left; token 0 when there is no row |
| `pub[s]` | `worker_publication_state`: active and rollback run, generation, fencing token |
| `signal[x]` | `master_replay_signals.status` |
| `proc[w]` | what process `w` holds in memory: its claim, the deadline it set itself, the error it is about to record |

An action is one database transaction. Two things escape its row locks and are
modelled: `utcnow()` is read before the locks are obtained, so an action that
compares times has a parameter `lag \in 0..MaxLag`; and a claim with
`FOR UPDATE SKIP LOCKED` may take a job that is not the head of the queue while
another claim holds the head (`OvertakesLocked`).

### Actions

| Action | Code (`app/worker/execution.py`) |
|---|---|
| `CreateJob` | `create_job` for a new key; a known key returns the row unchanged |
| `RetryJobNow` | `retry_job_now` |
| `RollbackPointer` | `rollback_publication_pointer`, with the generation the caller expects |
| `Claim` | `claim_next_job`: candidate, approval of its handler, lease of its source, token, run |
| `StartExecution`, `Heartbeat`, `HandlerRaises`, `DeadlineExceeded`, `LeaseLost` | `WorkerExecutor.execute_claim`, its publisher thread and its isolated handler |
| `CompleteSuccess` | `complete_run_success` with `_assert_lease` and, when there is a staging result, `_publish_staging` |
| `CompleteFailure` | `complete_run_failure` in its own transaction |
| `RecoverStaleRuns` | `recover_stale_runs`; the set is the batch that was not locked by others |
| `ResetFailedSignal` | the part of `restart_enrichment_run` that makes a failed signal pending |
| `Crash`, `Tick` | the death of a process, the clock |

Times are kept as distances from now, so there is no absolute clock to bound. A
distance stops at the value beyond which no guard can tell it from a larger one
(`Elapse`, and the age at `StaleAfter + MaxLag`). The n-th used fencing token is
the index n into `runs`; tokens that a refused claim burns leave gaps that
nothing observes.

### Properties

- `JobRunAgreement`, `LeaseGuardsNewestRun`: no job is running without an open
  run and no lease outlives its run, whoever ended the run.
- `FencedPublication`: a pointer moves by publication only with the newest token
  of its source. `PointersNameSuccesses`: both pointers name successes through
  publications and rollbacks.
- `AttemptHistory`, `OneSuccessPerJob`, `AttemptsBounded`, `RetryFollowsPolicy`,
  `OutcomesAreFinal`: what the attempts of a job may look like together.
- `ScheduledSignalHasLiveJob`: a scheduled replay signal always has a job that
  can still settle it, though several jobs may own it.
- `ImplementsJobService`: the whole machine implements `JobService`, in which a
  job is applied once, together with its pointer, or abandoned without a trace.
  The mapping calls a queued, running or waiting job *accepted*, and reads a
  pointer as the job of the run it names.
- `NoStrandedRun`, `EveryJobSettles`, `NoSourceStarves`: liveness.

## Release store

`store[r]` is the row of release `r` in `public_releases` (status and parent) and
`pointer` the active release. `Stage`, `Promote` and `Rollback` are the three
transactions that change them, with their conditions; `Acceptable` is the outcome
of `accept_staged_release`, which changes nothing. Releases are numbered in the
order in which their bundles are built; since the parent of a bundle is the
release that was live when it was built, a parent has a smaller number. Payloads,
checksums and counts are left out: a bundle is immutable, so its number stands for
its content.

`PointerNamesActive`, `MovesAlongParents` and `RolledBackStays` are checked for the
commands that the publisher sends, delays or loses (run `sync_hostile`) and proved
for any commands in any order.

## Public sync

### State

| Variable | In the code |
|---|---|
| `truth[c]` | the newest enrichment run of company `c` and the version of its public content, 0 when it is not publishable (`publishable_runs`) |
| `baseline[c]` | the row of `public_projection_publications`: published, hash, release |
| `req` | `public_publication_requests` that carry work, in order of creation |
| `seen` | the trigger keys of all requests ever recorded, those with no change included |
| `bundle` | the bundles on HOME: parent and content |
| `wire` | remote commands given up by HOME that may still take effect |
| `pub` | the publisher: the step it is at, its request, the error of its attempt |
| `sha` | the deployed code generation, which gates the recovery of a failed request |

One publisher runs at a time: `run_once` holds an advisory lock for the whole
cycle. `pub.pc` follows a cycle through `recover`, `normalize`, `claim`, and an
attempt through `build`, `upload`, `stage`, `accept`, `promote`, `verify`,
`persist`, `cleanup`, with `error` for the handlers that run once promotion was
attempted. What one transaction commits is one action; between any two the
publisher may die and `truth` may change.

### Actions

| Action | Code |
|---|---|
| `RecoverAndScan` | `recover_interrupted_requests` and `scan_public_ready_changes`, committed together |
| `RecoverFailed`, `NothingToRecover` | `recover_failed_publication_if_eligible` |
| `NormalizeRebuilds`, `NormalizeKeeps` | `normalize_publication_queue` |
| `Claim`, `NothingDue` | `claim_next_request`, with its coalescing |
| `CycleFails`, `CycleUnavailable` | the two ways `run_once` gives a cycle up |
| `Build`, `BuildFindsNoChange`, `BuildFails` | `build_candidate` |
| `Rebase` | `StaleCandidateParent` and `_rebase_stale_candidate` |
| `Upload`, `StageRemotely`, `AcceptRemotely`, `PromoteRemotely` | the commands of `SshPublicTransport` |
| `Interrupted`, `Refused`, `PromotionFails` | how a command fails: before, with, or after its effect, or for good |
| `Verify`, `VerifyFails` | `verify_https_release` |
| `Persist`, `PersistFails` | `_persist_published_hashes` and the commit of the request |
| `Cleanup` | `normalize_after_successful_publication` |
| `HandleError` | the error handlers of `publish_claimed_request`: read the active release, then retry, fail or roll back |
| `Crash`, `Straggle`, `Deploy`, `ChangeTruth` | the environment |

`Derivable` is the heart of it: `derive_transition_parent_context` demands that
every published row of the baseline names the live release, that the live release
has exactly those members, and that the hashes match. A cycle that cannot derive
its parent context does nothing.

A remote command fails in one of four ways (`Circumstances`): it has no effect;
it fails for good; it has its effect and the answer is lost; or HOME gives it up
and it takes effect later (`wire`), which the 180 second timeout of the SSH client
permits.

### Properties

- `HomeAgreesWithLive`: outside the moments between promotion and record, the
  baseline names the live release. `RecordedReleaseStands`: what was recorded is
  not undone. Both are stated for failures the handlers can see
  (`sync_handled`); with a death in the promotion or a delayed command they are
  false, and [findings](#findings) and the hazard list say so.
- `BaselineFaithful`: whatever happens, each row of the baseline tells the truth
  about the release it names. `OneCandidate`: at most one request is under way.
- `RequestsSettle`, `CatchesUp`: requests end, and the live release comes to
  contain exactly the companies that are ready, unless a publication failed for
  good (which waits for a deployment by design, `NO_RECOVERY_BOUNDARY`).
- `InterruptedResumes`: what the comments promise and the code does not do, see
  [findings](#findings).

## Bulk source

One official source of the tax service (`app/ingestion/fns_bulk_worker.py`), from the
page that offers a release to the row that tells readers how far to trust it.

| Variable | In the code |
|---|---|
| `page`, `shown` | the official passport (release, date until which it is valid); all that were ever shown |
| `jobs[k]`, `running` | `worker_jobs` of the source by idempotency key: release, check of a release on a day, replay of a release for a company; the job under the lease |
| `pointer`, `facts[c]` | the active publication pointer; the release a company's facts came from |
| `dataset` | the readiness row: release, date, status, schedule, times of the last error and success |
| `lastRun`, `syncing` | the run that ended last, and the one a sync in flight has read |
| `master` | companies of the registry, which grows |
| `overtaken`, `withdrawn`, `scheduleFailedAt` | history the properties refer to |

| Action | Code |
|---|---|
| `ScheduleCheck`, `ScheduleFails` | `run_due_updates` with `schedule_source_check`, `_record_schedule_failure` |
| `EnqueueReplay` | `_enqueue_bulk_group` |
| `Claim`, `BackoffEnds`, `RunFails` | the worker foundation, as this source sees it |
| `PublishRelease`, `ConfirmRelease`, `FillCompany`, `ReplayOutdated` | `publish_bulk_result` of a release, a check and a replay; the refusal of `_accepted_replay_path` |
| `BeginSync`, `EndSync` | `sync_worker_failure_signals`: the read without a lock, then the locked row |
| `Activate`, `Deactivate` | `configure_fns_bulk_schedules`, `configure_source_schedules` |
| `Offer`, `Register`, `NewDay`, `RetryDelayEnds` | the agency, the registry, the clock |

- `OneReleaseSpeaks`: facts, pointer and readiness row are of one release, though checks
  and replays of an earlier one may still come.
- `OfferedReleaseStays`: the release on offer, once published, stays. It is lost when the
  agency takes a release back (`withdrawn`) or a retried job of an older one is published
  after a newer one (`overtaken`): the key of its job is spent.
- `SyncTellsTruth`: a sync that no run overtook leaves the row right.

## RAW staging

The directory of a release on disk (`stage_release`, `normalize_release`), named by the
checksum of the archive: `zipFile`, `xsdFile`, `manifest`, `rowsFile`; `served` is what
the agency serves and `stager[p]` the step a process is at with what it has downloaded.
Each step of a process (`DownloadZip`, `DownloadXsd`, `PersistZip`, `PersistXsd`,
`CreateManifest`, `WriteManifest`, `ReuseManifest`, `NormalizeRows`, and the refusals
`XsdDiffers`, `ManifestDiffers`) is an action, `StopStaging` a death or failure anywhere.

- `ManifestDescribesFiles`: nobody goes on with a manifest that is not of his download.
- `UnreadableOnlyAfterStop`: only a death between `O_EXCL` and the write leaves an empty
  manifest.
- `RawIsImmutable`, proved: what is complete is never replaced.

## Firmoteka crawl

A crawl discovers the pages of a catalogue, pages list pages and companies, and each of
them is a checkpoint that jobs work off in batches (`firmoteka_worker.py`). The
publication of a batch creates the next job in the same transaction; a chain that broke
because a job failed is taken up again by the scheduler.

| Variable | In the code |
|---|---|
| `crawls[c]` | `firmoteka_crawl_runs` with their pages and items: status, phase, and of each checkpoint its `position`, status, `attempt_count` and `claimed_by_job_id` |
| `crawlJobs[j]` | `worker_jobs` of the source: crawl, kind, idempotency key, checkpoints, status |
| `current` | companies with a current snapshot |
| `session[s]` | the transaction of a scheduler, between its read of the crawl and its commit |

| Action | Code |
|---|---|
| `ScheduleReads`, `ScheduleFindsNone` | the read of `schedule_firmoteka_check`: the newest running crawl under its lock, or none |
| `OpenCrawl` | a new crawl with its discovery job, and the seeds of a daily one |
| `ScheduleReturns`, `ScheduleResumes`, `ScheduleRefuses` | a job is under way; the next batch of `_create_next_job`; an error, no runnable checkpoint or a discovery job that has ended |
| `ClaimJob`, `FailJob` | the worker foundation, as this source sees it |
| `PublishBatch` | `publish_firmoteka_result` with the answers of the handler's lanes, the upserts of what was found, and the next job or the end of the crawl |

- `ClaimsAreLive`, proved: a checkpoint is handed only to a job that will still run, and
  that is the only one of its crawl. It rests on the resume suffix of the idempotency key, which
  tells a batch that is asked again from the first time, and on the row lock of the crawl.
- `CompletedIsDrained`: a completed crawl has asked for everything it listed. The code
  does not keep it, see [findings](#findings).

## Company enrichment

### State

| Variable | In the code |
|---|---|
| `db.runs[n]` | `company_enrichment_runs` of one company: trigger, status, restarts, whether risk and summary were concluded as ready, and its rows |
| `db.runs[n].rows[d]` | `company_source_coverage`: status, execution status, frozen generation, signals it represents, job |
| `db.signals[s]` | `master_replay_signals.status` of change `s[1]` for data set `s[2]` |
| `db.jobs[k]` | the job of an idempotency key: status, and the changes it knew when it succeeded |
| `db.early`, `db.reopened` | history: signals completed by an answer older than their change; signals that a restart made pending again |
| `dataSet[d]` | readiness, generation and applicability policy of a data set |
| `emitted`, `cohort`, `reached` | changes so far; membership in the public cohort; data sets whose generation has come to the company |
| `scope`, `events` | what a behaviour is about; bound |

A data set is asked by `"bulk"` (a replay of a published release), by `"point"` (a job
for the company) or by `"lookup"` (a query in the transaction).

### Actions

A cycle of `run_company_enrichment_cycle` is a series of operations on the company under
its lock; an action composes them on `db`. `Refreshed` is `_refresh_run_state`: rows
follow their jobs (`Synced`), late signals join (`Denominators`), and the gate draws the
conclusion (`Concluded`).
`WorkEnqueued` is `enqueue_enrichment_work`: each pending row is
answered, queued or given up (`RowEnqueued`), and with it its signals (`SignalsEnqueued`).

| Action | Code |
|---|---|
| `PrioritiseNew`, `PrioritiseOpen`, `PrioritiseFailed` | `prioritize_public_cohort_enrichment` |
| `Seed`, `Consume` | `seed_existing_master_enrichment`, `consume_master_replay_signals` |
| `Recover` | `recover_legacy_replay_denominators`: a finished run is reopened |
| `Reconcile` | `reconcile_enrichment_run` of an open run, with the outcome of the engines |
| `Backfill`, `RestartMember`, `Recalculate` | `_schedule_source_members`, `retry_factory_generation_failures`, `_recalculate_ruleset_members` |
| `TaskSucceeds`, `TaskFails` | the end of a job and of its signals in the worker foundation |
| `Emit` | `_emit_change_and_replays` |
| `SourceChecked`, `ComesDue`, `Ages`, `NewGeneration`, `SetPolicy` | the sources |

### Properties

- `ReadyIsComplete`: `get_company_public_readiness` never says READY on a run with a row
  that is open, failed or unknown, whatever was reopened, restarted or recalculated.
- `RiskSeesSignals`: when risk is concluded for a run, every signal that was committed
  before and can be represented is represented.
- `AnswersAreLater`: no signal counts as answered by an answer from before its change,
  unless it failed and a restart made it pending again (`db.reopened`, history). Such a
  signal can be: a row that was of unknown applicability and is decided not to apply keeps
  its job (the first loop of `_synchronize_replay_denominator`; the second one clears it).
  At the next refresh `_sync_coverage_from_job` reads that job again, and its old answer
  completes what has become pending since. The behaviour found has nineteen
  steps: the change comes when the policy is unknown, so it joins the row of a run that had
  its answer; while the policy is applicable a second run is created for the data set, its
  job fails and fails again after a restart; in between the policy becomes not applicable
  and the first run is reconciled; another restart makes the signal pending, and the first
  run completes it by its old answer.

## Incident controller

| Variable | In the code |
|---|---|
| `rowError`, `runError` | the error of the readiness row and of the latest run |
| `incidents` | `source_incidents` of one source: kind of failure, owner, status, attempts, whether due, `auto_heal_enabled`, engineering request and branch |
| `paused` | the policy |
| `stage`, `draft`, `todo` | the poll; the incidents of its batch as it will leave them; those not yet processed |
| `playbooks`, `refused` | history: playbooks run, whatever became of their transaction; batches the database refused |

`Detect`, `Normalize`, `VerifyActive` and the batch (`LockBatch`, `ProcessIncident`,
`CommitBatch`, `RefuseBatch`) are the transactions of `run_controller_once`; `Kill` may
come between any two steps. The owner's actions of the admin panel (`CheckSourceNow`,
`RunAutoHeal`, `PauseAutoRepair`, `ResumeAutoRepair`, `MarkSourceOwned`,
`RequestEngineering`, `CancelPending`) wait for the row of their incident. `FailRun`,
`ShowRunError`, `SourceRecovers` and `DelayEnds` are the environment.

- `AttemptsHold`: the playbooks of an incident were charged, but for the last one of each
  batch that was lost; an incident that waits for its source is never charged.
- `SettledIncidents`: a resolved or cancelled incident stays so.
- `PlaybooksCounted`: what the limit of attempts promises, see [findings](#findings).

## Workspace members

A request is one transaction at READ COMMITTED, taken apart into a step for each row lock
and each read that another commit can make stale; its writes appear with its commit.

| Variable | In the code |
|---|---|
| `members[u]` | `workspace_memberships`: status and role |
| `invitations[i]`, `expired` | `workspace_invitations`; those whose time has passed |
| `selected` | users with a session in this workspace |
| `request[r]` | the transaction of a request: operation, actor, target, what it has read, the step it is at |
| `workspaceLock`, `entitlementLock`, `invitationLock`, `memberLock` | the rows locked FOR UPDATE |
| `started`, `straddled` | bound; history: an acceptance fell between the two counts of a request |

`BeginInvite`, `BeginReissue`, `BeginWithdraw`, `BeginAccept`, `BeginRole`,
`BeginStatus`, `BeginSelect` start the operations of `member_service.py` (and the choice
of a workspace in `auth.py`). `LockWorkspace`, `LockEntitlement`, `LockInvitation`,
`LockMember`, `CountMembers`, `CountPending` are their steps; each has the refusal the
code gives there (`ManagerLostAuthority`, `InviteRefused`, `InvitationUnusable`,
`MemberUnchangeable`, `AlreadyInvited`, `NoSeatLeft`). `CommitInvite` ... `CommitSelect`
write. Every audit event has a foreign key to the workspace, whose key-share lock waits
for a FOR UPDATE of that row. `WaitsFor` and `BreakDeadlock` are PostgreSQL's.

- `OwnerRemains`: the workspace keeps an active owner.
- `OwnersTouchOwners`: among members, only who is an active owner at his commit makes or
  unmakes an owner.
- `SeatsReserved`: the limit of seats holds while no acceptance falls between two counts.
- `SettledInvitations`: of an acceptance, a withdrawal and a reissue, one wins.
- `DeadlocksHaveManager`: requests that wait for each other always include one that holds
  the workspace row; the others take their rows in one order.
- `InviteNeverConflicts`, proved: no database error for an email invited twice.

## Bulk check

`items[r]` is a row of the file (status, release of its payload), `job` the job (status,
pinned release), `jobLock` the call that holds its row, `work[c]` what a call in flight
has read, `published` the active release of the site. A chunk is `LoadChunk` and
`CommitChunk` (or `CommitUnreadableChunk`, or `LoseChunk`), since it reads another
database in between; `CancelJob`, `ResumeJob` and `RetryJob` are one step each;
`PublishNext` is the site.

- `OnePinnedRelease`: all results of a job come from the release the job names.
- `AnsweredRowsRemain`: no later call touches a row that has its answer.
- `NoRowStranded`, proved: there is always an operation that continues an unfinished row.

## Monitoring

`fact` is what is known of the company, `saved`, `entitled` and `status[w]` decide who is
served, `baseline[w]` is the snapshot the cursor of the subscription names, `feed[w]` its
entries and `told[w]` what a reader of card and feed takes for current. `Subscribe`,
`Pause`, `Resume`, `Save`, `BeginUnsave` with `EndUnsave`, and `Scan` are the operations
of `monitoring_service.py` and `service.py`; `Materialise` and `SwitchEntitlement` are
the environment. The unsave is two steps because it locks the saved row, and there may be
none to lock (`"blind"`).

`ChangeFeed` is what `docs/MONITORING_P0_VERTICAL_SLICE_01.md` promises a workspace: it
follows or not, believes something, and is told each move away from its belief once; what
it learns at the beginning or after a restriction comes without an entry.

- `KeepsPromise`: `Monitoring` implements `ChangeFeed`, through coverage gaps, restricted
  periods, pauses and scans of others.
- `ReaderIsUpToDate`: the card at the beginning and the feed from then on add up to the
  last known value, unless a move recurred with the same source dates (`repeated`).
- `MonitoredIsSaved`: an active subscription is of a saved company, unless an unsave found
  no row to lock (`torn`).

## Runs

States are distinct states; every passing run is exhaustive within its bounds.

| Run | Question | Instance |
|---|---|---|
| `worker_contention` | Do two processes with the same worker id, stale clocks, deaths, sweeps and rollbacks ever come between a job, its attempts, its lease and the pointer? What becomes of a signal that two jobs own? Is the job service implemented? | 1 source, 2 jobs, 2 attempts, 2 processes, 1 signal, lag 1, 3 generations; about 1 400 000 states |
| `worker_progress` | Does everything end that was begun? | 1 source, 2 jobs, 2 attempts, 2 processes, a deadline of one tick; about 230 000 states |
| `worker_starvation` | Does every source get its turn? (it does not) | 2 sources, 2 jobs, the handler of the first not registered |
| `sync_handled` | Do HOME and VPS agree after every failure that the handlers see? | 2 companies, 2 changes, 2 faults, 2 code generations; about 240 000 states |
| `sync_hostile` | What holds when everything may happen? | the same, all circumstances; about 680 000 states |
| `sync_settle` | Is everything published in the end? | the same, failures and deaths before promotion |
| `sync_restart` | Is an interrupted publication resumed? (not always) | 1 death between promotion and record |
| `sync_reopened` | Is a company that was withdrawn and comes back published? (not always) | 3 changes, no fault |
| `components` | Do the eight components keep their properties? | see below; about 2 000 000 states |
| `workspace_seats` | Can concurrent invitations and acceptances exceed the limit of seats? (they can) | the members of `components` alone |
| `crawl_pressure` | Has a completed crawl asked for everything it listed? (not always) | the crawl of `components` alone |
| `incidents_wedge` | Is every playbook counted while the controller lives? (not always) | 3 incidents, 1 attempt, 3 polls |

Why the bounds are enough for the cases to happen. In the worker foundation the
interesting case is an attempt, its stalled owner, a sweep, and a second attempt
by another process with the same id: two jobs of one source, two processes and two
attempts give that, and a second claim of the source by the other job besides.
Three generations allow publish, publish and roll back. `LeaseTTL = 1`,
`StaleAfter = 2`, `Timeout = 2` and `MaxLag = 1` make a lease expire before its
heartbeat is stale and before the deadline, as the defaults do, and let a time
reading be as old as a whole lease. (`worker_progress` shortens the deadline to one
tick, which keeps the liveness check within minutes.) Two attempts per job are one retry; for more of them, and
for any delays, the theorems below speak.

In the public sync, two companies are needed to withdraw one while another stays;
two changes, to have one arrive while the other is being published; two faults, to
have a failed attempt and a straggler of it, or a failure of the handler of a
failure. Releases and requests are bounded by `NumReleases = 6` and
`MaxRequests = 8`, above what these changes and faults can use up. The bounds sit
in the guards of `ChangeTruth`, `Deploy`, `Fault`, `Build` and the actions that
append to `req`; those of the worker foundation in `PublishStaging`,
`RollbackPointer` and the constants `NumJobs` and `MaxAttempts`.

In `components`: two requests of three in flight on four people and two
invitations, with a limit of three seats, from a roster one seat below it with an
invitation outstanding and from one with two owners, so that every pair of
operations meets and the third comes after them; new invitations go to the one
person who is not a member. A bulk check has four rows in
chunks of two, two calls in flight, two releases of the site, two lost or failed
chunks and three cancellations and retries: a pin can be chosen and lost, and a job
cancelled, resumed and continued by the other call. Two workspaces follow one
company through three materialised facts (a value with two dates, and another
value) and two pauses, unsaves or changes of an entitlement. The source has two
releases, of which the second drops a company, two companies, two days and two
attempts per job, one change of the page, one failure and one command: a job of
the old release can be retried after the new one was published. The incident
controller has five kinds of failure, one for each way `process_incident` can go,
two incidents with two attempts, and two of each of failures, kills and polls. Two
processes stage a release while the agency replaces a file twice and two of them
die. Enrichment has seven instances (`MCScopes`): two data sets with one run, one of
them not known to apply; one data set with two runs; two changes of the company; two
events of a source. Each has a question of its own; together they reach every action
and every mode. Two data sets with two runs and two changes at once are beyond what
TLC can finish. The crawl has a page that lists two companies, in batches of up to two,
two schedulers, two crawls (an initial and a daily one, or two at once) with jobs of two
attempts, and one trouble: a request or an attempt that fails, after which a batch is
asked again by the publication or by either scheduler.

The runs of `MCComponents` have deadlock checking off: a bounded instance of these
components stops when its requests, rows or events are used up. In the other runs it
is on: time always passes in the worker foundation, and the publisher polls for ever.

## Fairness

`ClockFairness`: time passes. `SweepFairness`: `recover_stale_runs` is the first
thing every polling cycle of the daemon does, the daemon polls in a loop and
systemd restarts it. `ExecutorFairness`: an executor polls the head of the queue,
starts what it claimed, notices its own deadline and records its failure. Nothing
makes a handler return, a heartbeat be sent or a process not die, and no process is
owed the luck to overtake a locked head; `NoStrandedRun` needs only the clock and
the sweep.

`FairSyncSpec`: the publisher polls and is restarted (`Restart=on-failure`), so some
step of a cycle or attempt is taken again and again; and a request that is due again
and again is claimed some day (its delay runs out while the service polls; cycles in
between may find it not due, hence strong fairness). Failures and deaths are finitely
many, bounded by `MaxFaults`. No straggler ever has to arrive, and nothing has to be
deployed.

## Proofs

The theorems hold for every number of jobs, sources, processes, attempts, signals,
releases and for every timing, under the assumptions the modules name:
`WorkerAssumption` (types of the constants, positive durations and attempts),
`DelayAssumption` (the delay of an attempt is a number: the provers do not compute
powers of two), `ReleaseAssumption`, `SyncAssumption`, `MembersAssumption` (finitely many
users; a workspace begins with an active owner, at most one outstanding invitation per
email, and within its seats), `BulkAssumption`, `StagingAssumption`,
`MonitoringAssumption` (the marker of an unknown value is no value of a fact),
`SourceAssumption` (at least one release, day and attempt; the marker of no job is no key),
`IncidentsAssumption`, `CrawlAssumption` (finitely many pages and companies) and
`EnrichmentAssumption` (the modes, policies and bounds of a company are what they say). TLC evaluates them in every run of their module. Eight modules
hold all proofs.

**Worker foundation.** The inductive invariant is

    IInv == TypeOK /\ AttemptHistory /\ LeaseGuardsNewestRun

`JobRunAgreement`, `OneSuccessPerJob`, `AttemptsBounded` and `RetryFollowsPolicy` say
what a reader wants to know, but none is inductive: that a claim opens a run for a
job that has none open, and numbers it one above all others, needs the whole history
of the job, which is `AttemptHistory` (tokens and attempts grow together, all but the
newest attempt failed, and the job's status is the outcome of the newest). That a
late completion cannot hit a successor needs that the lease names the newest run of
the source, which is `LeaseGuardsNewestRun`. Every action has a lemma
(`ClaimStep`, `RecordFailuresStep`, `CompleteSuccessStep`, ...); `NextIInv` puts them
together.

| Theorem | States |
|---|---|
| `Inductive` | `IInv` holds |
| `TypeCorrectness` | `TypeOK` |
| `HistorySafety` | `AttemptHistory`, `JobRunAgreement` |
| `LeaseSafety` | `LeaseGuardsNewestRun` |
| `OneSuccess`, `AttemptsStayBounded`, `RetrySafety` | `OneSuccessPerJob`, `AttemptsBounded`, `RetryFollowsPolicy` |
| `Fencing` | `FencedPublication`: whoever publishes holds a valid lease, the lease names the newest run of its source, so the pointer follows the tokens |
| `PointersSafety` | `PointersNameSuccesses` |
| `SignalsSafety` | `ScheduledSignalHasLiveJob` |
| `Finality` | `OutcomesAreFinal` |

The last three stand on `EndedInv`, which joins to `IInv` the two invariants and that a
job which has ended waits for nothing (`SettledWait`). One lemma (`EndedStep`) says for
every action that it keeps them and leaves alone the runs and jobs that have ended.

`QueueImplementsService` is the refinement: every action maps to a step of `JobService`
or to a stutter (`ImplementsJobService`). A completion is the only step that applies a
job, and the lease and history it needs to be the newest attempt come from `IInv`; a
sweep, a retry and a failure stay within *accepted* or abandon the job; a rollback of the
pointer is the rollback of the service, since both pointers name jobs that were applied
(`PointersNameSuccesses`).

**Release store.** That a rolled-back release never comes back is not inductive:
nothing in one row says that the parent of the live release is still there to be
restored. `StoreInv` adds that there is a chain of releases, closed under parents,
that ends in the pointer and all of whose members but the last are staged. A
promotion lengthens it at its end, a rollback shortens it there, and staging does not
touch it. From it follow `StoreTypes`, `OneActiveRelease`, `PointerFollowsParents`
and `RollbackIsFinal`.

**Public sync.** Under every circumstance (`SyncInv`): at most one request is at work
(`OneBusy`), which rests on what the normalization of the queue leaves for the claim
(`ClaimInv`); and while a request owns a candidate, what HOME has published are exactly
the companies of the candidate's parent (`CandidatesInv`). That is why the rows written
at the end of an attempt, which are computed from the candidate and its parent alone,
describe every company. Theorems: `SyncInvariant`, `RowsDescribeRelease`
(`BaselineFaithful`), `OneReleaseAtWork` (`OneCandidate`), and `SyncRunsStore`: in
every state `StoreInv` holds and every step of the publisher, a straggler included, is a
step of `ReleaseStore` or leaves it alone. (The publisher starts from a bootstrapped
store, so it implements the store from such a state, not from the empty one.) By it
`MovesAlongParents` and `RolledBackStays` hold under the publisher (`LiveFollowsParents`,
`RolledBackIsFinal`).

That HOME and the VPS agree needs `Gentle`: no command takes effect late, no leftover
rollback undoes a sibling, no death hits a promotion. Each is a circumstance under
which the run `sync_hostile` admits a state in which they disagree; the run
`sync_handled` is an instance that satisfies it, with failures of every other kind.
`AgreementInv` says where the pointer is at each step of an attempt and which release the
rows name. Theorems: `HomeAndLiveAgree` (`HomeAgreesWithLive`), `RecordedStands`
(`RecordedReleaseStands`).

**Workspace members.** That an owner remains is not inductive: it is true after a
demotion because the owners were counted under a lock that is still held. The
invariant therefore says, for every request in flight, what it relies on (`Relies`),
and that nobody else can make it untrue:

    MembersInv == MembersTypeOK /\ OwnerRemains /\ PendingUnique
                    /\ \A r \in Requests : Relies(r)

`Relies(r)` has seven parts: the rows a request has locked at the step it is at
(`Orderly`); the role of its actor (`ManagerHolds`); that its change leaves an owner
(`CheckHolds`); its target and its invitation as it read them (`TargetExists`,
`InvitationHolds`, `AcceptHolds`); and that it holds the entitlement
(`EntitlementHolds`). The lock of the entitlement row is what makes two invitations
of one person impossible, the lock of the workspace row what keeps roles and owners
still. Each action has a lemma for its own request, and one lemma says which changes
leave the others alone. Theorems: `MembersInvariant`, `MembersTypes`,
`OwnerAlwaysRemains`, `InvitationsNeverConflict` (`InviteNeverConflicts`),
`OnlyOwnersTouchOwners`, `InvitationsSettle`, for any number of people, invitations
and concurrent requests.

Two more invariants stand on it. `LocksHeld` is the converse of `Relies`: a row is locked
by nobody but a request past the step that locks it. A cycle of waiting requests without
the holder of the workspace row would have a request waiting for a member; but members
are held by managers, who hold the workspace, and by requests at their commit, which wait
for nothing else. So no request of the cycle waits for a member, hence none for an
invitation, hence none for the entitlement (`OnlyManagersDeadlock`). `SeatsInv` says what
a request that takes a seat has counted: between its counts it holds the entitlement and
the members are no more than it counted; after them, members and reservations (without
the one it replaces) are below the limit until it commits, since an acceptance in between
only turns a reserved seat into one taken (`SeatsAlwaysReserved`).

**Bulk check.** `BulkInv` adds to the types, `OnePinnedRelease` and `NoRowStranded`
what a call in flight has: the lock, a chunk of rows that are still pending, and the
release the job is pinned to or will be (`Working`). Theorems: `BulkInvariant`,
`BulkTypes`, `PinHolds`, `RowsReachable`, `AnswersRemain`.

**RAW staging.** `StagingInv` says what a process may rely on at the step it is at
(`Passed`), that at most one process has created the manifest and not filled it
(`OneWriter`), and that a manifest describes its files (`Describes`). Theorems:
`StagingInvariant`, `StagingTypes`, `ManifestIsTrue`, `UnreadableNeedsStop`,
`RawStays`.

**Monitoring.** `MonitoringInv` relates, for each workspace, what a reader of card and
feed takes for current to the snapshot its cursor names, through restricted periods, in
which the last known fact is kept apart from what may be shown. Theorems: `MonitoringInvariant`,
`MonitoringTypes`, `FeedTellsAll` (`ReaderIsUpToDate`), `MonitoredStaysSaved`
(`MonitoredIsSaved`) and the refinement `FeedImplementsPromise` (`KeepsPromise`): a scan
is an entry of `ChangeFeed` for each workspace whose belief it moves, a baseline or a
restriction what it learns silently, and everything else leaves feed and belief alone.

**Incident controller.** `AttemptsHold` is not inductive while a batch is open: playbooks
have run whose charge is only in the draft. `IncidentsInv` says for a batch what each
draft will charge and that the rows it holds are live and nobody else writes them
(`BatchOK`, `ChargesOK`). Theorems: `IncidentsInvariant`, `BreakerHolds`
(`AttemptsHold`), `SettledIncidentsStay` (`SettledIncidents`).

**Bulk source.** That one release speaks, and that a published one stays, is a matter of
the order of jobs. `SourceInv` says that, as long as the agency takes no release back, the
jobs of its releases are created, and tried for the first time, in the order of the
releases (`OrderOK`, `JobsOK`, `PassportsOK`); which release facts and replays are of (`FactsOK`); and how the
times of errors and successes on the readiness row relate to the run that ended last and
the one a sync has read (`ReadinessOK`). Theorems: `SourceInvariant`, `SourceTypes`,
`OneReleaseAlways` (`OneReleaseSpeaks`), `OfferedStays` (`OfferedReleaseStays`),
`SyncIsTrue` (`SyncTellsTruth`).

**Firmoteka crawl.** A publication claims checkpoints for a job that `create_job` may
return from before, if its key is spent. That the job is new is a matter of counting, and
`CrawlInv` counts: the key of a job tells how often each of its checkpoints had been
attempted when it was handed out (`KeyTells`); a checkpoint that a job was created for has
been attempted since or is still claimed as it was, so it never waits again under the same
number of attempts (`Attempted`, `AttemptsGrow`); a running crawl has at most one live job
(`ChainOK`); and the crawl that a scheduler has locked stays running (`SchedulersOK`).
A checkpoint is claimed only by a job that exists, and a job that runs may be tried again
(`CrawlShape`, `TriesLeft`, `ClaimsKnown`). Theorems: `CrawlInvariant`, `ClaimsAlwaysLive`
(`ClaimsAreLive`), `CrawlTypes` (`CrawlTypeOK`), for any finite set of pages and companies.

**Company enrichment.** An action composes operations on the tables (refresh, enqueue,
refresh again), so the proof is of the operations: each has a lemma that it works on its
run (`Worked`), and the lemmas compose. `Worked` says that the tables stay good
(`TablesGood`), that other runs stay as they were, and that a signal which was open or
represented by the run (`Accounted`) is so afterwards: no operation settles a signal that its
run does not represent. After `_sync_coverage_from_job` every answer that there is has
been taken over (`Aligned`), so a signal that joins a row later cannot be completed by it;
after `_synchronize_replay_denominator` the run represents all that is `Accounted` for of
the data sets that can be planned; the gate then concludes (`Concludes`). The invariant is

    EnrichmentInv == ScopeGood /\ TablesGood(db)
                       /\ \A n \in DOMAIN db.runs : RunComplete(db.runs[n])

where `TablesGood` says of every row that its two statuses agree (`StatusesAgree`) and
that the answer its job could give now is later than its signals, but for those that a
restart made pending again or that are closed (`AnswerIsLater`), and of every job that it
knows the changes it was created for (`JobGood`). `RunComplete` says that a run which
succeeded has all its answers, and that only such a run is ready; that is why a late
signal reopens it. Theorems: `EnrichmentInvariant`, `EnrichmentTypes`, `ReadyAlwaysComplete`
(`ReadyIsComplete`), `AnswersAlwaysLater` (`AnswersAreLater`), `RiskAlwaysSeesSignals`
(`RiskSeesSignals`), for any number of data sets, changes, runs and restarts.

`SourceInv`, `CrawlInv`, `IncidentsInv` and `EnrichmentInv` were also checked by TLC, on
the instance of `components`.

**The instance of the components.** `MCComponents` puts the eight components side by side.
`RunsAreComponentRuns` says that it adds nothing to them: a behaviour of the instance
satisfies the specification of each component, whichever of them takes its steps. So each
theorem about a component is one about the instance, and a counterexample of TLC there is one
of the component. `ComponentsTypes` (`ComponentsTypeOK`) follows from the type theorems of the
eight.

Of the properties of the passing runs, those of liveness alone are no theorems: `NoStrandedRun`,
`EveryJobSettles`, `NoSourceStarves`, `RequestsSettle`, `CatchesUp`, `InterruptedResumes`.
Fairness and ENABLED are out of the prover's reach; TLC checks them on the instances
[above](#runs).

The proofs keep their leaves small: where a step needs the value of a record that several
operations have updated, the updates are lemmas about named operators. With `tlapm --stretch 0.2`,
a fifth of the usual time for each obligation, every module still passes.

## Findings

1. **A source can starve** (`worker_starvation`). The comment on the queue order
   promises that a large queue of one provider cannot starve another source. But
   `claim_next_job` takes the head only, and raises when its handler is not registered
   or its source is leased; the head keeps its place and everything behind it waits.
2. **An interrupted publication may never resume** (`sync_restart`). When the
   publisher dies after the pointer moved and before HOME recorded it, the live
   release is neither in the baseline nor the parent of the request. No parent
   context can be derived from then on; the request stays scheduled for a retry and
   nothing is published until an operator rolls the live release back on the VPS.
   `scripts/reconcile_publication_baseline.py` is no way out: it repairs the hashes of
   rows that name the live release already, and refuses this state.
3. **A company may not come back** (`sync_reopened`). The scan skips a run id it has
   seen. A finished run that is reopened by late coverage and finishes again keeps its
   id: a company withdrawn in between is not published again unless something else
   changes.

4. **Seats can be exceeded by one** (`workspace_seats`). `_seat_usage` counts active
   members and outstanding invitations in two statements, and `accept_invitation`
   takes neither the entitlement nor the workspace row. An acceptance that commits
   between the two counts is in neither of them, and the invitation is granted.
   `docs/WORKSPACE_PRODUCT_COMPLETION_03D_USERS_ROLES_SETTINGS.md:43-44` says that
   concurrent growth actions cannot exceed a configured limit.
5. **Two requested repairs stop the autopilot from counting** (`incidents_wedge`). A
   unique index allows one prepared repair per source, but one batch prepares one for
   each incident whose owner asked for it. The batch is refused as a whole at its
   commit, every poll again; the playbooks it ran are never charged.

6. **A crawl can be completed with companies left** (`crawl_pressure`). When the factory
   pauses the intake of companies and no page is pending, `_create_next_job` has nothing
   to create, and the publication takes that for the end: the crawl is completed, the
   dataset becomes current and a successful check is counted, with listed companies
   pending that nobody asks for before a later crawl lists them again.
   `docs/DATA_SCALE_03_FACTORY.md:131-133` says that intake pauses. For the scheduler the
   same situation is an error that leaves the crawl running.

Behaviours of the crawl met while modelling it, of which the documents say nothing: the
discovery job has one key for its crawl, so that a crawl whose discovery failed for good
is refused by every later schedule (`ScheduleRefuses`; `retry_job_now` does not take
terminal jobs); two schedulers that find no crawl at the same time open two; and a failed
checkpoint keeps its position, so that a batch of requests that always fail comes back at
the head of the crawl for ever.

Behaviours of enrichment met while modelling it. They follow from the code as
written and contradict no promise of the repository that a run could check:

- A row that was answered and is planned again for a late signal keeps its job id; the
  job of the same release and company has ended, `create_job` returns it unchanged, and
  the row waits until the restarts of the run are used up.
- A run that is reopened after its source published another generation cannot use the
  frozen one ("frozen source generation changed"); each restart ends the same way.
- A run of one data set (a replay or a backfill) can make the company ready while another
  applicable data set was never answered: readiness looks at the latest run.
- A source that is merely due for its check when its generation reaches a company is not
  planned for it; the member is recorded as not applicable and is not reached again.
- A source that is past its age without being due blocks the readiness of a run and
  cannot be planned for one.
- An unknown row that becomes not applicable keeps its job and flips back when the job is
  next read, with the signals that a restart has made pending (`AnswersAreLater`).
- A late signal that joins a row whose job is running is completed by that job, which may
  have read the source before the change. `AnswersAreLater` is about rows that had their
  answer.

Of a retried bulk job
`docs/WORKSPACE_PRODUCT_COMPLETION_03C_BULK_CHECK.md:96-97` says that any remaining
cancelled row keeps it cancelled; a retry makes it ready while the retried rows are
pending, and cancelled again after them (`NoRowStranded`).

Two more behaviours of the public sync are described among the hazards and excluded from the properties
by a named circumstance: the rollback of an attempt that was given up, delayed beyond
a whole later publication, undoes a verified sibling of the same parent (`"late"`
with `"undo"`); and a company that is withdrawn twice with the same content while the
baseline rows name different releases may keep its live page (`"repeat"`).

## Limits

- The row locks of a worker or publisher transaction are taken at once; the order in
  which the code takes them, and deadlocks PostgreSQL would break, are modelled for
  workspace members only.
- The child process of an executor is seen through what it makes the parent do:
  return, raise, hang or die.
- Job priorities and lane filters are constants; the instances use one priority and
  admit every job.
- The publisher's debounce, backoff and claim order among due retries are a choice:
  `Claim` may take any request whose retry is scheduled, and `NothingDue` may always
  happen.
- The bootstrap of an empty baseline, manual reconciliation, public incidents and the
  dashboards are not part of `PublicSync`, which starts from a baseline that was
  bootstrapped and scanned.
- `CompanyEnrichment` has one company. The parts of a cycle are separate actions, for
  its limits and the free capacity decide which of them reach the company in a cycle;
  the groups of companies that share a bulk job are left out, as is a job that ends
  between two reads of one reconciliation. The contract checks of the point handlers
  are part of the answer.
- `Monitoring` has one coordinate. A move that recurs with the same source dates is
  the same event and is not delivered again; that is the limit
  `docs/MONITORING_P0_VERTICAL_SLICE_01.md` names, and `repeated` keeps it out of
  `ReaderIsUpToDate`.
- `FirmotekaCrawl` leaves open how large a batch is (any head of the pending checkpoints up
  to a limit) and whether companies are taken in, which in the code follow from settings
  and measurements; what a page lists stays the same. No code pauses a crawl, so the
  status `paused` does not occur.
- `BulkSource` numbers releases in the order of their appearance; two that appear on
  the page and go between two checks are one change.

## Not modelled

- Parsers, providers, aggregators, the risk and summary engines and the web layers
  compute or render; they have no order of steps to get wrong. They are most of the
  lines of the repository (the largest files are acceptance scripts, routing tables,
  parsers and view models), so the share of lines the models stand for is small while
  the share of the concurrent transactions is not.
- The exact-value workers, the next five sources and GIRBO are handlers of the worker
  foundation that change one company in one transaction.
- Migrations, deployment and acceptance scripts are run by one operator at a time.
- The operator's reconciliation of a baseline changes only hashes of rows that name the
  live release. In `PublicSync` these always agree (`BaselineFaithful`), so it is refused
  or without effect in every state of the model: it repairs what other means broke.
- Post-migration recovery is a procedure that is run once, by one operator.
- The lanes and the budget of the readiness daemon are in the [plan](#plan).

`PROJECT.json` lists each part with its reason.

## Plan

1. Done: the worker foundation and its service, the release store, the public sync;
   an official source and its staging, the Firmoteka crawl, enrichment of a company, the incident
   controller, workspace members, the bulk check, monitoring and its feed.
2. Next models, in this order: the readiness daemon with its lanes and the budget of an
   interval; the order of row locks in the worker transactions; the cursor of a factory
   generation over several companies that share a bulk job.
3. Done: the inductive invariants and theorems of every model. Liveness stays with TLC.
