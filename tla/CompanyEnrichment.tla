-------------------------- MODULE CompanyEnrichment --------------------------
(***************************************************************************)
(* The enrichment of one company (app/services/company_enrichment_service  *)
(* and replay_readiness_service), with the parts of the company factory    *)
(* that create, restart and conclude its runs.                             *)
(*                                                                         *)
(* A run freezes which data sets the company is asked about (one row of    *)
(* company_source_coverage each), waits for the jobs that answer, and then *)
(* calculates risk and summary.  Meanwhile changes of the company in the   *)
(* master registry emit replay signals, which the run, or a later one,     *)
(* must represent by an answer before its conclusion is public.            *)
(*                                                                         *)
(* Every part of run_company_enrichment_cycle that may reach the company   *)
(* is an action: limits and capacity decide which of them do.  It holds    *)
(* the lock of the company, so no signal is emitted under it.  An action   *)
(* composes operations on "db", the record of the tables they write.       *)
(*                                                                         *)
(* Abstractions.  FOUND and NOT_FOUND are ANSWERED; the transient statuses,*)
(* STALE_DATA among them, UNAVAILABLE; the statuses of a run or a job that *)
(* has not ended, open.  A job knows the changes emitted before it         *)
(* succeeded.  A ready run is not compared with the newest assessment of   *)
(* the company, which an older run may have concluded after it.            *)
(***************************************************************************)
EXTENDS Naturals, Sequences, FiniteSets

CONSTANTS
    MaxRestarts, \* max_restarts of a run
    Scopes,      \* what a behaviour is about, see ScopeOK
    NoTask       \* worker_job_id is null

Modes == {"lookup", "bulk", "point"}
Decisions == {"APPLICABLE", "NOT_APPLICABLE", "UNKNOWN"}

\* The enabled data sets, how each is asked and whether it applies at first;
\* and bounds: changes of the company in the registry, runs of the company,
\* and what happens to the data sets.
ScopeOK(s) ==
    /\ s.mode \in [DOMAIN s.mode -> Modes]
    /\ s.policy \in [DOMAIN s.mode -> Decisions]
    /\ {s.changes, s.runs, s.events} \subseteq Nat

ASSUME EnrichmentAssumption == MaxRestarts \in Nat /\ \A s \in Scopes : ScopeOK(s)

VARIABLES
    scope,    \* one of Scopes
    cohort,   \* the company is in the accepted public cohort
    dataSet,  \* for each data set: its readiness, generation and policy
    emitted,  \* changes that were emitted so far
    db,       \* runs, signals and jobs of the company; and, as history,
              \* signals that a restart made pending again, and those others
              \* that were completed by an answer older than their change
    reached,  \* data sets whose source generation has selected the company
    events    \* counter of the bound

enrichmentVars == <<scope, cohort, dataSet, emitted, db, reached, events>>

DataSets == DOMAIN scope.mode

\* current; due for a check; or aged, stored as current and not due, but
\* past a threshold that only effective_status knows.
DataSetState == [state : {"current", "due", "aged"}, generation : Nat, policy : Decisions]

ReplaySignals == (1..scope.changes) \X DataSets
SignalStatus == {"absent", "pending", "scheduled", "complete", "failed"}
Triggers == {"replay", "cohort", "bootstrap", "generation"}
CoverageStatus == {"PENDING", "RUNNING", "ANSWERED", "NOT_APPLICABLE",
                   "APPLICABILITY_UNKNOWN", "UNAVAILABLE"}
Executions == {"pending", "active", "blocked", "succeeded", "failed"}
Successful == {"ANSWERED", "NOT_APPLICABLE"}

NoRow == [status |-> "none"]
NewRow(status, exec, generation, ids) ==
    [status |-> status, exec |-> exec, generation |-> generation,
     ids |-> ids, task |-> NoTask]

\* The idempotency key of the job for a row of a run.
Task(n, d, restarts, row) ==
    [run |-> n, code |-> d, restarts |-> restarts, ids |-> row.ids,
     generation |-> IF scope.mode[d] = "point" THEN 0 ELSE row.generation]

RowOK(row) ==
    \/ row = NoRow
    \/ /\ row.status \in CoverageStatus /\ row.exec \in Executions
       /\ row.ids \subseteq ReplaySignals
       /\ row.task = NoTask \/ row.task \in DOMAIN db.jobs

EnrichmentTypeOK ==
    /\ dataSet \in [DataSets -> DataSetState]
    /\ db.signals \in [ReplaySignals -> SignalStatus]
    /\ \A s \in ReplaySignals : db.signals[s] = "absent" <=> s[1] > emitted
    /\ \A n \in DOMAIN db.runs :
         /\ db.runs[n].trigger \in Triggers
         /\ db.runs[n].status \in {"open", "succeeded", "failed"}
         /\ db.runs[n].restarts \in 0..MaxRestarts
         /\ \A d \in DataSets : RowOK(db.runs[n].rows[d])
    /\ \A k \in DOMAIN db.jobs :
         /\ db.jobs[k].status \in {"open", "succeeded", "failed"}
         /\ db.jobs[k].knows \in 0..emitted

-----------------------------------------------------------------------------
(* Readiness of replay (replay_readiness_service).                         *)

\* operational_replay_predicates, and the stricter test of _source_plan.
Operational(d) == dataSet[d].state \in {"current", "aged"}
Plannable(d) == dataSet[d].state = "current"

Decision(d) == dataSet[d].policy
Actionable == {"pending", "scheduled"}
Blocking == {"pending", "scheduled", "failed"}

Resolved(t, n, s) ==
    /\ n \in DOMAIN t.runs
    /\ LET row == t.runs[n].rows[s[2]]
       IN /\ row.status \in Successful
          /\ row.exec = "succeeded"
          /\ s \in row.ids

Unresolved(t, n, statuses, decisions) ==
    {s \in ReplaySignals :
       /\ t.signals[s] \in statuses
       /\ Operational(s[2]) /\ Decision(s[2]) \in decisions
       /\ ~Resolved(t, n, s)}

HasUnresolved(t, n) == Unresolved(t, n, Blocking, {"APPLICABLE", "UNKNOWN"}) # {}

Latest(t) == Len(t.runs)

\* get_company_public_readiness says READY.
PublicReady(t, n) ==
    /\ n \in DOMAIN t.runs
    /\ t.runs[n].status = "succeeded" /\ t.runs[n].ready
    /\ \A d \in DataSets : t.runs[n].rows[d].status # "APPLICABILITY_UNKNOWN"
    /\ ~HasUnresolved(t, n)

Marked(t, s, from, to) ==
    [t EXCEPT !.signals = [x \in ReplaySignals |->
        IF x \in s /\ @[x] \in from THEN to ELSE @[x]]]

Completed(t, s) == Marked(t, s, Actionable, "complete")

-----------------------------------------------------------------------------
(* Refreshing a run (_refresh_run_state): its rows follow their jobs, late *)
(* signals join, and the conclusion is drawn when nothing is left to do.   *)

Fresh(d, row) == scope.mode[d] = "point" \/ row.generation = dataSet[d].generation

Follows(row) == row # NoRow /\ row.exec # "blocked" /\ row.task # NoTask

\* _sync_coverage_from_job.
SyncedRow(t, d, row) ==
    LET became(status, exec) == [row EXCEPT !.status = status, !.exec = exec]
        state == t.jobs[row.task].status
    IN IF ~Follows(row) THEN row
       ELSE IF state = "open" THEN became("RUNNING", "active")
       ELSE IF state = "failed" THEN became("UNAVAILABLE", "failed")
       ELSE IF Fresh(d, row) THEN became("ANSWERED", "succeeded")
       ELSE became("UNAVAILABLE", "succeeded")

Synced(t, n) ==
    LET rows == [d \in DataSets |-> SyncedRow(t, d, t.runs[n].rows[d])]
        answered == {d \in DataSets : Follows(rows[d]) /\ rows[d].status = "ANSWERED"}
        done == UNION {{s \in rows[d].ids : t.signals[s] \in Actionable} : d \in answered}
        older == {s \in done \ t.reopened : s[1] > t.jobs[rows[s[2]].task].knows}
    IN [Completed(t, done) EXCEPT !.runs[n].rows = rows, !.early = @ \cup older]

\* _apply_actionable_plan.
Replanned(d, ids) ==
    NewRow("PENDING", "pending", dataSet[d].generation, ids)

\* The first loop of _synchronize_replay_denominator: a row whose
\* applicability was unknown is decided again.
Decided(d, row, late) ==
    LET more == [row EXCEPT !.ids = @ \cup late]
    IN IF row = NoRow \/ row.status # "APPLICABILITY_UNKNOWN" THEN row
       ELSE IF Decision(d) = "NOT_APPLICABLE"
            THEN [row EXCEPT !.status = "NOT_APPLICABLE", !.exec = "succeeded"]
       ELSE IF Decision(d) = "APPLICABLE" /\ Plannable(d)
            THEN Replanned(d, more.ids)
       ELSE more

\* The row of a data set that has signals the run does not represent.
LateRow(d, late) ==
    LET new(status, exec) == NewRow(status, exec, dataSet[d].generation, late)
    IN IF Decision(d) = "UNKNOWN" THEN new("APPLICABILITY_UNKNOWN", "blocked")
       ELSE IF Decision(d) = "NOT_APPLICABLE" THEN new("NOT_APPLICABLE", "succeeded")
       ELSE new("PENDING", "pending")

\* Mutant: a row that has its answer keeps it when a later signal joins.
JoinedToAnswer(d, row, late) ==
    LET more == [row EXCEPT !.ids = @ \cup late]
    IN IF Decision(d) = "UNKNOWN"
         THEN [more EXCEPT !.status = "APPLICABILITY_UNKNOWN", !.exec = "blocked"]
       ELSE IF Decision(d) = "NOT_APPLICABLE"
         THEN [more EXCEPT !.status = "NOT_APPLICABLE", !.exec = "succeeded", !.task = NoTask]
       ELSE more

\* The second loop.
Joined(d, row, late) ==
    LET unseen == late \ row.ids
        more == [row EXCEPT !.ids = @ \cup late]
    IN IF Decision(d) = "UNKNOWN"
         THEN [more EXCEPT !.status = "APPLICABILITY_UNKNOWN", !.exec = "blocked"]
       ELSE IF Decision(d) = "NOT_APPLICABLE"
         THEN IF unseen = {} /\ row.status = "NOT_APPLICABLE" THEN more
              ELSE [more EXCEPT !.status = "NOT_APPLICABLE", !.exec = "succeeded",
                                !.task = NoTask]
       ELSE IF unseen # {} /\ row.status \in Successful
         THEN Replanned(d, more.ids)
       ELSE more

Denominated(d, row, late) ==
    LET decided == Decided(d, row, late)
    IN IF late = {} \/ ~Plannable(d) THEN decided
       ELSE IF row = NoRow THEN LateRow(d, late)
       ELSE Joined(d, decided, late)

\* Mutant: signals that a job of another run holds are not looked for.
DenominatorsOfPending(t, n) ==
    LET missing == Unresolved(t, n, {"pending"}, Decisions)
        old == t.runs[n].rows
        rows == [d \in DataSets |-> Denominated(d, old[d], {s \in missing : s[2] = d})]
        settled == {d \in DataSets : rows[d] # old[d] /\ rows[d].status = "NOT_APPLICABLE"}
    IN [Completed(t, UNION {rows[d].ids : d \in settled}) EXCEPT !.runs[n].rows = rows]

\* _synchronize_replay_denominator.
Denominators(t, n) ==
    LET missing == Unresolved(t, n, Actionable, Decisions)
        old == t.runs[n].rows
        rows == [d \in DataSets |-> Denominated(d, old[d], {s \in missing : s[2] = d})]
        settled == {d \in DataSets : rows[d] # old[d] /\ rows[d].status = "NOT_APPLICABLE"}
    IN [Completed(t, UNION {rows[d].ids : d \in settled}) EXCEPT !.runs[n].rows = rows]

Outcomes == {"ready", "unsupported", "broken"}

\* The gate: what the rows of a run let it become; outcome is what the risk
\* and summary engines say, or none if they are not asked.
Concluded(run, outcome) ==
    LET rows == {run.rows[d] : d \in DataSets} \ {NoRow}
        waits == \E r \in rows : \/ r.status = "APPLICABILITY_UNKNOWN"
                                \/ r.exec \in {"pending", "active"}
        complete == \A r \in rows : r.status \in Successful
        became(status, ready) == [run EXCEPT !.status = status, !.ready = ready]
    IN IF waits THEN became("open", FALSE)
       ELSE IF ~complete \/ outcome = "broken" THEN became("failed", FALSE)
       ELSE IF outcome = "none" THEN became("open", FALSE)
       ELSE became("succeeded", outcome = "ready")

Refreshed(t, n, outcome) ==
    LET u == Denominators(Synced(t, n), n)
    IN [u EXCEPT !.runs[n] = Concluded(@, outcome)]

-----------------------------------------------------------------------------
(* Creating, enqueueing, reconciling and restarting runs.                  *)

\* create_enrichment_run: the data sets it freezes, or none.
Frozen(wanted) == {d \in wanted : Plannable(d) /\ Decision(d) # "NOT_APPLICABLE"}

Created(t, trigger, wanted, ids) ==
    LET row(d) == IF Decision(d) = "UNKNOWN"
                  THEN NewRow("APPLICABILITY_UNKNOWN", "blocked", dataSet[d].generation,
                              {s \in ids : s[2] = d})
                  ELSE NewRow("PENDING", "pending", dataSet[d].generation,
                              {s \in ids : s[2] = d})
    IN [t EXCEPT !.runs = Append(@,
          [trigger |-> trigger, key |-> IF trigger = "replay" THEN ids ELSE {},
           status |-> "open", ready |-> FALSE, restarts |-> 0,
           rows |-> [d \in DataSets |-> IF d \in Frozen(wanted) THEN row(d) ELSE NoRow]])]

PendingRows(t, n) == {d \in DataSets :
    t.runs[n].rows[d] # NoRow /\ t.runs[n].rows[d].exec = "pending"}

\* create_job refuses signals that are settled, and for a bulk source the
\* frozen generation must still stand (_enqueue_bulk_group).
Accepted(t, d, row) ==
    Fresh(d, row) /\ \A s \in row.ids : t.signals[s] \in Actionable

\* The job of a row that waits for one.
RowTask(t, n, d) == Task(n, d, t.runs[n].restarts, t.runs[n].rows[d])

\* What becomes of a pending row: the snapshot that is there answers it, or its
\* job is queued, or it cannot be had.
LookedUp(t, n) == {d \in PendingRows(t, n) : scope.mode[d] = "lookup"}
Taken(t, n) ==
    {d \in PendingRows(t, n) \ LookedUp(t, n) : Accepted(t, d, t.runs[n].rows[d])}

RowEnqueued(t, n, d) ==
    LET row == t.runs[n].rows[d]
    IN IF d \in Taken(t, n)
         THEN [row EXCEPT !.status = "RUNNING", !.exec = "active", !.task = RowTask(t, n, d)]
       ELSE IF d \in LookedUp(t, n)
         THEN [row EXCEPT !.exec = "succeeded",
                          !.status = IF Fresh(d, row) THEN "ANSWERED" ELSE "UNAVAILABLE"]
       ELSE [row EXCEPT !.status = "UNAVAILABLE", !.exec = "failed"]

NewTasks(t, n) == {RowTask(t, n, d) : d \in Taken(t, n)} \ DOMAIN t.jobs

\* Signals of an answer that is there are completed, those of a new job scheduled.
SignalsEnqueued(t, n) ==
    LET rows == t.runs[n].rows
        answered == {d \in LookedUp(t, n) : Fresh(d, rows[d])}
    IN Marked(Completed(t, UNION {rows[d].ids : d \in answered}),
              UNION {k.ids : k \in NewTasks(t, n)}, {"pending"}, "scheduled")

\* enqueue_enrichment_work.
WorkEnqueued(t, n) ==
    LET u == [SignalsEnqueued(t, n) EXCEPT
                !.runs[n].rows = [d \in DataSets |->
                    IF d \in PendingRows(t, n) THEN RowEnqueued(t, n, d) ELSE @[d]],
                !.jobs = [k \in DOMAIN @ \cup NewTasks(t, n) |->
                    IF k \in NewTasks(t, n) THEN [status |-> "open", knows |-> 0]
                    ELSE @[k]]]
    IN Refreshed(u, n, "none")

\* reconcile_enrichment_run, for a run that has not succeeded.
Reconciled(t, n, outcome) ==
    LET first == Refreshed(t, n, "none")
        second == IF PendingRows(first, n) = {} THEN first ELSE WorkEnqueued(first, n)
    IN IF \E d \in DataSets : second.runs[n].rows[d].status = "APPLICABILITY_UNKNOWN"
       THEN second ELSE Refreshed(second, n, outcome)

\* restart_enrichment_run.
Restarted(t, n) ==
    LET rows == t.runs[n].rows
        again == {d \in DataSets : rows[d] # NoRow /\ (\/ rows[d].status = "UNAVAILABLE"
                                                      \/ rows[d].exec = "failed")}
        reset(d) == [rows[d] EXCEPT !.status = "PENDING", !.exec = "pending", !.task = NoTask]
        ids == UNION {rows[d].ids : d \in again}
        u == Marked(t, ids, {"failed"}, "pending")
        v == [u EXCEPT !.reopened = @ \cup {s \in ids : t.signals[s] = "failed"},
                       !.runs[n].restarts = @ + 1, !.runs[n].status = "open",
                       !.runs[n].ready = FALSE,
                       !.runs[n].rows = [d \in DataSets |->
                          IF d \in again THEN reset(d) ELSE @[d]]]
    IN WorkEnqueued(v, n)

MayRestart(n) == db.runs[n].status = "failed" /\ db.runs[n].restarts < MaxRestarts

-----------------------------------------------------------------------------
(* A cycle, and the operator of the factory.                               *)

OnlyTables == UNCHANGED <<scope, cohort, dataSet, emitted, reached, events>>

\* Mutant: late signals join a run that succeeded and do not open it again.
RecoverQuietly(outcome) ==
    LET n == Latest(db)
    IN /\ n > 0
       /\ db.runs[n].status = "succeeded"
       /\ Unresolved(db, n, Actionable, Decisions) # {}
       /\ db' = Denominators(db, n)
       /\ OnlyTables

\* recover_legacy_replay_denominators, for the latest run: one that succeeded
\* is opened again when a signal stands against it.
Recover(outcome) ==
    LET n == Latest(db)
        reopened == [db EXCEPT !.runs[n].status = "open", !.runs[n].ready = FALSE]
    IN /\ n > 0
       /\ db.runs[n].status = "succeeded"
       /\ Unresolved(db, n, Actionable, Decisions) # {}
       /\ db' = IF HasUnresolved(db, n) THEN Reconciled(reopened, n, outcome)
                ELSE Denominators(db, n)
       /\ OnlyTables

\* _pending_signal_map and _has_pending_unknown_source_applicability.
PendingSignals == Unresolved(db, Latest(db), Actionable, {"APPLICABLE"})
CohortBlocked == Unresolved(db, Latest(db), Actionable, {"UNKNOWN"}) # {}
CodesOf(s) == {x[2] : x \in s}

Create(trigger, wanted, ids) ==
    /\ Len(db.runs) < scope.runs
    /\ Frozen(wanted) # {}
    /\ db' = WorkEnqueued(Created(db, trigger, wanted, ids), Len(db.runs) + 1)

PrioritiseNew ==
    /\ cohort /\ ~CohortBlocked
    /\ Latest(db) > 0 =>
         /\ db.runs[Latest(db)].status = "succeeded"
         /\ PublicReady(db, Latest(db)) => PendingSignals # {}
         /\ db.runs[Latest(db)].trigger = "cohort" => db.runs[Latest(db)].ready
    /\ Create("cohort", IF PendingSignals = {} THEN DataSets ELSE CodesOf(PendingSignals),
              PendingSignals)
    /\ OnlyTables

PrioritiseOpen ==
    /\ cohort /\ ~CohortBlocked
    /\ Latest(db) > 0 /\ db.runs[Latest(db)].status = "open"
    /\ db' = WorkEnqueued(db, Latest(db))
    /\ OnlyTables

PrioritiseFailed ==
    /\ cohort /\ ~CohortBlocked
    /\ Latest(db) > 0 /\ MayRestart(Latest(db))
    /\ db' = WorkEnqueued(Restarted(db, Latest(db)), Latest(db))
    /\ OnlyTables

\* _schedule_source_members, when the generation of a data set comes to the
\* company: it is asked for that data set alone.
Backfill(d) ==
    /\ d \notin reached
    /\ reached' = reached \cup {d}
    /\ \/ Decision(d) = "APPLICABLE" /\ Create("generation", {d}, {})
       \/ (Decision(d) # "APPLICABLE" \/ ~Plannable(d)) /\ UNCHANGED db
    /\ UNCHANGED <<scope, cohort, dataSet, emitted, events>>

\* retry_factory_generation_failures.
RestartMember(n) ==
    /\ n \in DOMAIN db.runs /\ db.runs[n].trigger = "generation"
    /\ MayRestart(n)
    /\ db' = Restarted(db, n)
    /\ OnlyTables

\* _latest_complete_run_query.
CompleteRuns ==
    {n \in DOMAIN db.runs :
       /\ db.runs[n].status = "succeeded"
       /\ \A d \in DataSets : LET row == db.runs[n].rows[d] IN
                            row # NoRow => row.status \in Successful
       /\ ~HasUnresolved(db, n)}

\* _recalculate_ruleset_members: new rules conclude the latest complete run.
Recalculate ==
    \E n \in CompleteRuns :
      /\ \A m \in CompleteRuns : m <= n
      /\ db' = [db EXCEPT !.runs[n].ready = TRUE]
      /\ OnlyTables

\* seed_existing_master_enrichment.
Seed ==
    /\ ~cohort /\ Latest(db) = 0
    /\ Create("bootstrap", DataSets, PendingSignals)
    /\ OnlyTables

\* consume_master_replay_signals: the data sets named by pending signals.
Consume ==
    LET pending == {s \in ReplaySignals :
                      /\ db.signals[s] = "pending"
                      /\ Operational(s[2]) /\ Decision(s[2]) # "NOT_APPLICABLE"}
        wanted == Frozen(CodesOf(pending))
        ids == {s \in pending : s[2] \in wanted}
        known == {n \in DOMAIN db.runs : db.runs[n].trigger = "replay" /\ db.runs[n].key = ids}
    IN /\ ~cohort /\ ids # {}
       /\ IF known = {} THEN Create("replay", wanted, ids)
          ELSE \E n \in known : db' = WorkEnqueued(db, n)
       /\ OnlyTables

Reconcile(n, outcome) ==
    /\ n \in DOMAIN db.runs /\ db.runs[n].status = "open"
    /\ db' = Reconciled(db, n, outcome)
    /\ OnlyTables

-----------------------------------------------------------------------------
(* The workers, the registry and the sources.                              *)

TaskEnds(k, status, signal) ==
    /\ k \in DOMAIN db.jobs /\ db.jobs[k].status = "open"
    /\ db' = [Marked(db, k.ids, SignalStatus, signal) EXCEPT
                !.jobs[k] = [status |-> status,
                               knows |-> IF status = "succeeded" THEN emitted ELSE 0]]
    /\ OnlyTables

\* A replay of a bulk source refuses a generation that has been replaced.
TaskSucceeds(k) ==
    /\ scope.mode[k.code] = "bulk" => k.generation = dataSet[k.code].generation
    /\ TaskEnds(k, "succeeded", "complete")

TaskFails(k) == TaskEnds(k, "failed", "failed")

\* The registry worker emits a signal for every data set and makes it due
\* (_emit_change_and_replays); the Firmoteka worker only emits.
Emit(registry) ==
    /\ emitted < scope.changes
    /\ emitted' = emitted + 1
    /\ db' = Marked(db, {emitted + 1} \X DataSets, {"absent"}, "pending")
    /\ dataSet' = IF registry THEN [d \in DataSets |-> [dataSet[d] EXCEPT !.state = "due"]]
                  ELSE dataSet
    /\ UNCHANGED <<scope, cohort, reached, events>>

SourceChecked(d) ==
    /\ dataSet[d].state # "current"
    /\ dataSet' = [dataSet EXCEPT ![d].state = "current"]
    /\ UNCHANGED <<scope, cohort, emitted, db, reached, events>>

SourceEvent(d, becomes) ==
    /\ events < scope.events
    /\ events' = events + 1
    /\ becomes # dataSet[d]
    /\ dataSet' = [dataSet EXCEPT ![d] = becomes]
    /\ UNCHANGED <<scope, cohort, emitted, db, reached>>

ComesDue(d) == SourceEvent(d, [dataSet[d] EXCEPT !.state = "due"])
Ages(d) ==
    /\ dataSet[d].state = "current"
    /\ SourceEvent(d, [dataSet[d] EXCEPT !.state = "aged"])
NewGeneration(d) ==
    /\ scope.mode[d] # "point"
    /\ SourceEvent(d, [dataSet[d] EXCEPT !.generation = @ + 1, !.state = "current"])
SetPolicy(d, decision) == SourceEvent(d, [dataSet[d] EXCEPT !.policy = decision])

EnrichmentInit ==
    /\ scope \in Scopes
    /\ cohort \in BOOLEAN
    /\ dataSet = [d \in DataSets |->
         [state |-> "current", generation |-> 1, policy |-> scope.policy[d]]]
    /\ emitted = 0
    /\ db = [runs |-> <<>>, signals |-> [s \in ReplaySignals |-> "absent"],
             jobs |-> <<>>, early |-> {}, reopened |-> {}]
    /\ reached = {}
    /\ events = 0

EnrichmentNext ==
    \/ PrioritiseNew \/ PrioritiseOpen \/ PrioritiseFailed
    \/ Seed \/ Consume \/ Recalculate
    \/ \E o \in Outcomes : Recover(o) \/ \E n \in DOMAIN db.runs : Reconcile(n, o)
    \/ \E n \in DOMAIN db.runs : RestartMember(n)
    \/ \E k \in DOMAIN db.jobs : TaskSucceeds(k) \/ TaskFails(k)
    \/ \E registry \in BOOLEAN : Emit(registry)
    \/ \E d \in DataSets :
         \/ Backfill(d) \/ SourceChecked(d) \/ ComesDue(d) \/ Ages(d) \/ NewGeneration(d)
         \/ \E decision \in Decisions : SetPolicy(d, decision)

EnrichmentSpec == EnrichmentInit /\ [][EnrichmentNext]_enrichmentVars

-----------------------------------------------------------------------------
(* Properties.                                                             *)

\* A company is public with a latest run all of whose data sets answered,
\* whoever reopened, restarted or recalculated its runs.
ReadyIsComplete ==
    PublicReady(db, Latest(db)) =>
      \A d \in DataSets : LET row == db.runs[Latest(db)].rows[d] IN
         row # NoRow => row.status \in Successful /\ row.exec = "succeeded"

\* The signals that a run can and must represent now.
MustSee == {s \in ReplaySignals :
    /\ db.signals[s] \in Actionable
    /\ Plannable(s[2]) /\ Decision(s[2]) # "NOT_APPLICABLE"}

\* Risk is calculated for a run only when it represents every signal that
\* was committed before (the final replay scan of _refresh_run_state).
RiskSeesSignals ==
    [][\A n \in DOMAIN db'.runs :
         (db'.runs[n].ready /\ (n \notin DOMAIN db.runs \/ db'.runs[n] # db.runs[n]))
           => \A s \in MustSee : Resolved(db', n, s)]_enrichmentVars

\* No signal is completed by an answer that was obtained before its change,
\* unless it failed and a restart made it pending again.  Such a signal may be:
\* a row that is decided not to apply keeps its job (the first loop of
\* _synchronize_replay_denominator), and at the next refresh the answer of that
\* job completes what has become pending since.
AnswersAreLater == db.early = {}
=============================================================================
