----------------------------- MODULE BulkSource -----------------------------
(***************************************************************************)
(* One official bulk source (app/ingestion/fns_bulk_worker.py): a page on  *)
(* which an agency offers its current release, a schedule that checks the  *)
(* page (app/services/data_readiness_scheduler.py), jobs of the worker     *)
(* foundation that fetch and publish a release or confirm that it is still *)
(* the one offered, the facts of the companies in the master registry, and *)
(* the readiness row that tells operators and readers how far to trust     *)
(* them (datasets).                                                        *)
(*                                                                         *)
(* Who runs: the scheduler of one poll, the lanes of the worker, a second  *)
(* process started by hand, the operator.  One job of the source runs at a *)
(* time, under its lease (WorkerFoundation models leases and fencing); a   *)
(* run ends in one transaction that publishes facts, pointer and readiness *)
(* row together, or in one that records its failure.                       *)
(*                                                                         *)
(* Abstractions.  Releases are numbered in the order in which they appear. *)
(* The snapshot of a release is named by the release, for its path is the  *)
(* checksum of its rows.  Time is the order in which runs end and          *)
(* schedules fail (clock) and the day of the check; a delay ends when it   *)
(* likes.  CURRENT, STALE and UNAVAILABLE, which say whether the date      *)
(* "until" has passed, are one status "checked".                           *)
(***************************************************************************)
EXTENDS Integers, FiniteSets

CONSTANTS
    NumReleases,  \* bound: releases the agency ever offers
    Untils,       \* values of the date until which a release is declared valid
    Companies,    \* bound: companies that are ever in the master registry
    Enriched,     \* bound: companies for which a replay is asked for
    Registered,   \* companies in the registry at the beginning
    Listed,       \* the companies each release says something about
    MaxAttempts,  \* max_attempts of a job
    MaxDay,       \* bound: days
    MaxOffers,    \* bound: changes of the official page
    MaxTrouble,   \* bound: failed runs and failed schedules
    MaxCommands,  \* bound: commands of the operator
    NoJob

Releases == 1..NumReleases
NoRelease == 0
Never == 0

\* The idempotency keys: the release, the check of a release on a day, the
\* replay of a release for a company (company_enrichment_service).
ReleaseKeys == [kind : {"release"}, release : Releases]
CheckKeys == [kind : {"check"}, release : Releases, day : 1..MaxDay]
ReplayKeys == [kind : {"replay"}, release : Releases, company : Enriched]
Keys == ReleaseKeys \cup CheckKeys \cup ReplayKeys

ASSUME SourceAssumption ==
    /\ {MaxOffers, MaxTrouble, MaxCommands} \subseteq Nat
    /\ {NumReleases, MaxDay, MaxAttempts} \subseteq Nat \ {0}
    /\ Registered \subseteq Companies
    /\ Enriched \subseteq Companies /\ IsFiniteSet(Enriched)
    /\ Listed \in [Releases -> SUBSET Companies]
    /\ NoJob \notin Keys

ReleaseKey(r) == [kind |-> "release", release |-> r]
CheckKey(r, d) == [kind |-> "check", release |-> r, day |-> d]
ReplayKey(r, c) == [kind |-> "replay", release |-> r, company |-> c]

VARIABLES
    page,       \* official passport: [release, until]
    day,
    master,     \* companies of the master registry
    jobs,       \* worker_jobs of the source: [status, attempts, until, number]
    running,    \* the job that holds the lease, or NoJob
    pointer,    \* release of the active publication pointer
    facts,      \* release each company's facts came from
    dataset,    \* the readiness row
    lastRun,    \* the run that ended last: [outcome, at]
    syncing,    \* the run a sync in flight has read
    clock,      \* number of ends of runs and failures of schedules
    shown,      \* every passport ever shown
    scheduleFailedAt, overtaken, withdrawn,  \* history, see below
    trouble, commands, offers  \* counters of the bounds

history == <<shown, scheduleFailedAt, overtaken, withdrawn>>
sourceVars == <<page, day, master, jobs, running, pointer, facts, dataset, lastRun,
                syncing, clock, history, trouble, commands, offers>>

JobStatus == {"absent", "queued", "backoff", "running", "succeeded", "failed"}
RunOutcomes == {"none", "succeeded", "failed", "access"}
RunEnd == [outcome : RunOutcomes, at : Nat]
NoRun == [outcome |-> "none", at |-> 0]
Passports == [release : Releases, until : Untils]

\* expected is the day from which the next check is due, errorAt and successAt
\* are times of the clock.  enabled is auto = "configured" or, after access was
\* refused, "access_pending".
SourceTypeOK ==
    /\ page \in Passports
    /\ day \in 1..MaxDay
    /\ master \subseteq Companies
    /\ jobs \in [Keys -> [status : JobStatus, attempts : 0..MaxAttempts,
                          until : Untils, number : 0..Cardinality(Keys)]]
    /\ running \in Keys \cup {NoJob}
    /\ pointer \in 0..NumReleases
    /\ facts \in [Companies -> 0..NumReleases]
    /\ dataset \in [auto : {"configured", "access_pending", "not_configured"},
                    release : 0..NumReleases, until : Untils,
                    status : {"checked", "error", "access_pending", "not_configured"},
                    expected : 0..MaxDay + 1, retry : {"none", "waiting", "due"},
                    errorAt : Nat, successAt : Nat]
    /\ lastRun \in RunEnd
    /\ syncing \in RunEnd
    /\ shown \subseteq Passports

-----------------------------------------------------------------------------
(* The readiness row.                                                      *)

\* due_dataset_codes.
Due ==
    /\ dataset.auto = "configured"
    /\ dataset.retry # "waiting"
    /\ dataset.expected <= day

\* _apply_successful_check.
Checked(row, until) ==
    [row EXCEPT !.until = until, !.status = "checked", !.expected = day + 1,
                !.errorAt = Never, !.retry = "none"]

\* An error puts the next check off, a refused access ends the checks.
Failing(row, kind, at) ==
    IF kind = "access"
    THEN [row EXCEPT !.errorAt = at, !.status = "access_pending",
                     !.auto = "access_pending", !.retry = "none", !.expected = Never]
    ELSE [row EXCEPT !.errorAt = at, !.status = "error", !.retry = "waiting"]

-----------------------------------------------------------------------------
(* The schedule.                                                           *)

Present == {k \in Keys : jobs[k].status # "absent"}

\* create_job: a key that exists returns its job unchanged.
Enqueued(k, until) ==
    IF k \in Present THEN jobs
    ELSE [jobs EXCEPT ![k] = [status |-> "queued", attempts |-> 0, until |-> until,
                              number |-> Cardinality(Present) + 1]]

\* schedule_source_check: a new release is fetched, the one that is published is
\* checked once a day.
WantedKey ==
    IF pointer = page.release THEN CheckKey(page.release, day)
    ELSE ReleaseKey(page.release)

\* run_due_updates finds the source due and its job is not one that failed.  The
\* readiness row is left alone.
ScheduleCheck ==
    /\ Due
    /\ jobs[WantedKey].status # "failed"
    /\ jobs' = Enqueued(WantedKey, page.until)
    /\ UNCHANGED <<page, day, master, running, pointer, facts, dataset, lastRun,
                   syncing, clock, history, trouble, commands, offers>>

\* _record_schedule_failure: the page cannot be read, or the job has failed.
ScheduleFails(kind) ==
    /\ Due
    /\ trouble < MaxTrouble
    /\ trouble' = trouble + 1
    /\ clock' = clock + 1
    /\ dataset' = Failing(dataset, kind, clock')
    /\ scheduleFailedAt' = clock'
    /\ UNCHANGED <<page, day, master, jobs, running, pointer, facts, lastRun,
                   syncing, shown, overtaken, withdrawn, commands, offers>>

\* A company whose facts are wanted between two checks: a replay of the release
\* that is published (_enqueue_bulk_group).
EnqueueReplay(c) ==
    /\ pointer # NoRelease
    /\ c \in master
    /\ jobs' = Enqueued(ReplayKey(pointer, c), page.until)
    /\ jobs' # jobs
    /\ UNCHANGED <<page, day, master, running, pointer, facts, dataset, lastRun,
                   syncing, clock, history, trouble, commands, offers>>

-----------------------------------------------------------------------------
(* Runs.                                                                   *)

\* Mutant: the jobs of a source are claimed in any order.
Claimable(k) == jobs[k].status = "queued"

\* claim_next_job: first come, first served among the jobs of a lane; replays
\* have a lane of their own.
NextInLane(k) ==
    /\ jobs[k].status = "queued"
    /\ \A other \in Keys :
         jobs[other].status = "queued" /\ (other.kind = "replay" <=> k.kind = "replay")
           => jobs[k].number <= jobs[other].number

Claim(k) ==
    /\ running = NoJob
    /\ NextInLane(k)
    /\ running' = k
    /\ jobs' = [jobs EXCEPT ![k].status = "running", ![k].attempts = @ + 1]
    /\ UNCHANGED <<page, day, master, pointer, facts, dataset, lastRun, syncing,
                   clock, history, trouble, commands, offers>>

BackoffEnds(k) ==
    /\ jobs[k].status = "backoff"
    /\ jobs' = [jobs EXCEPT ![k].status = "queued"]
    /\ UNCHANGED <<page, day, master, running, pointer, facts, dataset, lastRun,
                   syncing, clock, history, trouble, commands, offers>>

RunEnds(k, outcome, status) ==
    /\ running = k
    /\ running' = NoJob
    /\ jobs' = [jobs EXCEPT ![k].status = status]
    /\ clock' = clock + 1
    /\ lastRun' = [outcome |-> outcome, at |-> clock']
    /\ UNCHANGED <<page, day, master, syncing, shown, scheduleFailedAt,
                   withdrawn, commands, offers>>

\* Mutant: the rows of the new release are written over the old ones.
UpsertFacts(r) ==
    [c \in Companies |-> IF c \in Listed[r] \cap master THEN r ELSE facts[c]]

\* publish_bulk_result deletes what the source said and writes the release.
ReplacedFacts(r) ==
    [c \in Companies |-> IF c \in Listed[r] \cap master THEN r ELSE NoRelease]

\* A replay writes what is missing.
FilledFacts(r, wanted) ==
    [c \in Companies |->
       IF facts[c] = NoRelease /\ c \in Listed[r] \cap master \cap wanted
       THEN r ELSE facts[c]]

\* publish_bulk_result of a release.  It also enables the schedule.
PublishRelease(k) ==
    /\ k.kind = "release"
    /\ RunEnds(k, "succeeded", "succeeded")
    /\ facts' = ReplacedFacts(k.release)
    /\ pointer' = k.release
    /\ dataset' = [Checked(dataset, jobs[k].until) EXCEPT
                     !.auto = "configured", !.release = k.release,
                     !.successAt = clock']
    /\ overtaken' = (overtaken \/ (k.release < pointer /\ jobs[k].attempts > 1))
    /\ UNCHANGED trouble

\* _accepted_replay_path: the pointer is still the one the job was made for.
ReplayAccepted(k) == pointer = k.release

\* publish_bulk_result of a check.
ConfirmRelease(k) ==
    /\ k.kind = "check"
    /\ ReplayAccepted(k)
    /\ RunEnds(k, "succeeded", "succeeded")
    /\ facts' = FilledFacts(k.release, Companies)
    /\ dataset' = Checked(dataset, jobs[k].until)
    /\ UNCHANGED <<pointer, overtaken, trouble>>

\* ... and of a replay for a company, which says nothing about freshness.
FillCompany(k) ==
    /\ k.kind = "replay"
    /\ ReplayAccepted(k)
    /\ RunEnds(k, "succeeded", "succeeded")
    /\ facts' = FilledFacts(k.release, {k.company})
    /\ UNCHANGED <<pointer, dataset, overtaken, trouble>>

\* InvalidDataError, which is not retried.
ReplayOutdated(k) ==
    /\ k.kind \in {"check", "replay"}
    /\ ~ReplayAccepted(k)
    /\ RunEnds(k, "failed", "failed")
    /\ UNCHANGED <<pointer, facts, dataset, overtaken, trouble>>

\* complete_run_failure: the page, the download, the parser or the process fails.
RunFails(k, kind) ==
    /\ trouble < MaxTrouble
    /\ trouble' = trouble + 1
    /\ \/ kind = "failed" /\ RunEnds(k, "failed", "failed")
       \/ kind = "access" /\ RunEnds(k, "access", "failed")
       \/ /\ kind = "transient"
          /\ RunEnds(k, "failed", IF jobs[k].attempts < MaxAttempts THEN "backoff" ELSE "failed")
    /\ UNCHANGED <<pointer, facts, dataset, overtaken>>

-----------------------------------------------------------------------------
(* sync_worker_failure_signals: the run that ended last is read without a  *)
(* lock, then the readiness row is locked and compared with it.            *)

BeginSync ==
    /\ syncing = NoRun
    /\ lastRun # NoRun
    /\ syncing' = lastRun
    /\ UNCHANGED <<page, day, master, jobs, running, pointer, facts, dataset, lastRun,
                   clock, history, trouble, commands, offers>>

\* Mutant: only failures are projected.
FailuresOnly(run) ==
    IF run.outcome # "succeeded" /\ dataset.successAt < run.at /\ dataset.errorAt < run.at
    THEN Failing(dataset, run.outcome, run.at) ELSE dataset

Projected(run) ==
    CASE run.outcome = "succeeded" /\ dataset.errorAt \in 1..run.at - 1
           -> [dataset EXCEPT !.errorAt = Never, !.retry = "none", !.status = "checked"]
      [] run.outcome # "succeeded" /\ dataset.successAt < run.at /\ dataset.errorAt < run.at
           -> Failing(dataset, run.outcome, run.at)
      [] OTHER -> dataset

EndSync ==
    /\ syncing # NoRun
    /\ dataset' = Projected(syncing)
    /\ syncing' = NoRun
    /\ UNCHANGED <<page, day, master, jobs, running, pointer, facts, lastRun,
                   clock, history, trouble, commands, offers>>

-----------------------------------------------------------------------------
(* The operator, the agency, the master registry and time.                 *)

\* configure_fns_bulk_schedules.
Activate ==
    /\ commands < MaxCommands
    /\ commands' = commands + 1
    /\ dataset' = [dataset EXCEPT !.auto = "configured", !.expected = day]
    /\ UNCHANGED <<page, day, master, jobs, running, pointer, facts, lastRun, syncing,
                   clock, shown, scheduleFailedAt, overtaken, withdrawn, trouble, offers>>

Deactivate ==
    /\ commands < MaxCommands
    /\ commands' = commands + 1
    /\ dataset' = [dataset EXCEPT
         !.auto = "not_configured", !.expected = Never,
         !.status = IF dataset.successAt = Never THEN "not_configured" ELSE @]
    /\ UNCHANGED <<page, day, master, jobs, running, pointer, facts, lastRun, syncing,
                   clock, shown, scheduleFailedAt, overtaken, withdrawn, trouble, offers>>

\* Another release is offered, or another date for the same one.
Offer(passport) ==
    /\ offers < MaxOffers
    /\ passport # page
    /\ offers' = offers + 1
    /\ page' = passport
    /\ shown' = shown \cup {passport}
    /\ withdrawn' = (withdrawn \/ passport.release < page.release)
    /\ UNCHANGED <<day, master, jobs, running, pointer, facts, dataset, lastRun, syncing,
                   clock, scheduleFailedAt, overtaken, trouble, commands>>

Register(c) ==
    /\ c \notin master
    /\ master' = master \cup {c}
    /\ UNCHANGED <<page, day, jobs, running, pointer, facts, dataset, lastRun, syncing,
                   clock, history, trouble, commands, offers>>

NewDay ==
    /\ day < MaxDay
    /\ day' = day + 1
    /\ UNCHANGED <<page, master, jobs, running, pointer, facts, dataset, lastRun, syncing,
                   clock, history, trouble, commands, offers>>

RetryDelayEnds ==
    /\ dataset.retry = "waiting"
    /\ dataset' = [dataset EXCEPT !.retry = "due"]
    /\ UNCHANGED <<page, day, master, jobs, running, pointer, facts, lastRun, syncing,
                   clock, history, trouble, commands, offers>>

\* A registered source that nobody has activated yet.
SourceInit ==
    /\ page \in [release : {1}, until : Untils]
    /\ day = 1
    /\ master = Registered
    /\ jobs = [k \in Keys |-> [status |-> "absent", attempts |-> 0,
                               until |-> page.until, number |-> 0]]
    /\ running = NoJob
    /\ pointer = NoRelease
    /\ facts = [c \in Companies |-> NoRelease]
    /\ dataset = [auto |-> "not_configured", release |-> NoRelease,
                  until |-> page.until, status |-> "not_configured",
                  expected |-> Never, retry |-> "none",
                  errorAt |-> Never, successAt |-> Never]
    /\ lastRun = NoRun
    /\ syncing = NoRun
    /\ clock = 0
    /\ shown = {page}
    /\ scheduleFailedAt = Never
    /\ overtaken = FALSE
    /\ withdrawn = FALSE
    /\ trouble = 0
    /\ commands = 0
    /\ offers = 0

SourceNext ==
    \/ ScheduleCheck \/ \E kind \in {"failed", "access"} : ScheduleFails(kind)
    \/ \E c \in Enriched : EnqueueReplay(c)
    \/ \E c \in Companies : Register(c)
    \/ \E k \in Keys :
         \/ Claim(k) \/ BackoffEnds(k) \/ PublishRelease(k) \/ ConfirmRelease(k)
         \/ FillCompany(k) \/ ReplayOutdated(k)
         \/ \E kind \in {"failed", "access", "transient"} : RunFails(k, kind)
    \/ BeginSync \/ EndSync
    \/ Activate \/ Deactivate \/ \E passport \in Passports : Offer(passport)
    \/ NewDay \/ RetryDelayEnds

SourceSpec == SourceInit /\ [][SourceNext]_sourceVars

-----------------------------------------------------------------------------
(* Properties.                                                             *)

\* Facts, pointer and readiness row always speak of the same release: no fact of
\* an earlier one survives a publication, and no check or replay that was made
\* for an earlier one and comes late, after retries, mixes the two.
OneReleaseSpeaks ==
    /\ \A c \in Companies :
         facts[c] # NoRelease => facts[c] = pointer /\ c \in Listed[pointer]
    /\ dataset.release = pointer
    /\ pointer # NoRelease =>
         [release |-> pointer, until |-> dataset.until] \in shown

\* The release that is offered and was published stays published.  The two ways
\* in which it can be lost for good, because its job has succeeded and is never
\* run again, are an agency that takes a release back and offers the former one
\* again, and a job that was retried after a newer release had been published.
OfferedReleaseStays ==
    jobs[ReleaseKey(page.release)].status = "succeeded" /\ ~overtaken /\ ~withdrawn
      => pointer = page.release

\* A sync that was not overtaken by the end of a run leaves the readiness row
\* right: it shows trouble only if the last run failed or the schedule has failed
\* since, and shows none only if neither happened.  (One that was overtaken may
\* record an old failure; the next corrects it.)
SyncTellsTruth ==
    [][syncing = lastRun /\ syncing # NoRun /\ syncing' = NoRun =>
         /\ dataset'.status \in {"error", "access_pending"} =>
              lastRun.outcome # "succeeded" \/ scheduleFailedAt > lastRun.at
         /\ dataset'.status = "checked" =>
              lastRun.outcome = "succeeded" /\ scheduleFailedAt < lastRun.at]_sourceVars
=============================================================================
