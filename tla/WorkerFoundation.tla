-------------------------- MODULE WorkerFoundation --------------------------
(***************************************************************************)
(* The durable job queue of app/worker/execution.py: jobs, their attempts  *)
(* (worker_runs), one lease per source guarded by a fencing token, the     *)
(* publication pointer of each source and the Master replay signals that a *)
(* job owns.  Processes that execute jobs interleave with each other, with *)
(* the recovery sweep, with operators and with the clock, and may stop or  *)
(* die between any two transactions.                                       *)
(*                                                                         *)
(* One action is one database transaction.  Its row locks (job, run, lease *)
(* and publication rows are read FOR UPDATE, or updated under a WHERE that *)
(* PostgreSQL re-evaluates on the locked row) make it atomic; two things   *)
(* escape the locks and are modelled: the clock is read before the locks   *)
(* are obtained (MaxLag), and a claim skips the rows that another claim in *)
(* flight has locked (OvertakesLocked).                                    *)
(*                                                                         *)
(* Abstractions.  Jobs are numbered in the order of their creation; a job  *)
(* stands for an idempotency key.  The sequence that issues fencing tokens *)
(* is never reset and a token is never reused, so the run that received    *)
(* the n-th used token is the n-th element of runs and n stands for the    *)
(* token (tokens burnt by a refused claim leave gaps nobody observes).     *)
(* Instants are kept as distances from now: what remains of a lease, of a  *)
(* deadline and of a retry delay, and the age of a heartbeat.              *)
(***************************************************************************)
EXTENDS Integers, Sequences, FiniteSets, FiniteSetsExt

CONSTANTS
    Sources,      \* source ids
    NumJobs,      \* bound: idempotency keys ever submitted
    JobSource,    \* source_id of each job
    JobPriority,  \* 0 for enrichment_priority "accepted_public_cohort", else 1
    Signals,      \* Master replay signals
    JobSignals,   \* the signals a job is created for
    Registered,   \* jobs whose handler version is registered and approved
    Workers,      \* executing processes (lanes of the daemon, controlled runs)
    WorkerId,     \* worker_id a process presents; a restarted one repeats it
    Admits,       \* jobs that the lane and source filters of a process admit
    MaxAttempts,  \* max_attempts of a job
    LeaseTTL,     \* lease_ttl, in ticks
    StaleAfter,   \* stale_after of the recovery sweep, in ticks
    Timeout,      \* timeout_seconds of a job, in ticks
    BaseDelay,    \* RetryPolicy.base_delay_seconds, in ticks
    MaxDelay,     \* RetryPolicy.max_delay_seconds, in ticks
    MaxLag,       \* bound: ticks between reading the clock and the row locks
    MaxGeneration \* bound: pointer transitions per source, rollbacks included

Jobs == 1..NumJobs

ASSUME WorkerAssumption ==
    /\ NumJobs \in Nat
    /\ JobSource \in [Jobs -> Sources]
    /\ JobPriority \in [Jobs -> {0, 1}]
    /\ JobSignals \in [Jobs -> SUBSET Signals]
    /\ Registered \subseteq Jobs
    /\ Admits \in [Workers -> SUBSET Jobs]
    /\ {MaxAttempts, LeaseTTL, StaleAfter, Timeout} \subseteq Nat \ {0}
    /\ {BaseDelay, MaxDelay, MaxLag, MaxGeneration} \subseteq Nat

JobStatus == {"absent", "queued", "running", "retry_scheduled",
              "succeeded", "failed"}
TerminalJob == {"succeeded", "failed"}
RunStatus == {"running", "succeeded", "failed", "timed_out"}
SignalStatus == {"pending", "scheduled", "complete", "failed"}

\* Failure kinds, by what they decide: "transient" stands for network_failure
\* and temporary_infrastructure, "fatal" for every kind that is not retryable.
HandlerErrors == {"timeout", "transient", "fatal"}
Errors == HandlerErrors \cup {"lease_lost"}

VARIABLES
    jobs,     \* worker_jobs: status, wait until next_attempt_at, latest run
    runs,     \* worker_runs, indexed by fencing token
    lease,    \* worker_leases: token of the holder (0: no row) and time left
    pub,      \* worker_publication_state; generation 0: no row
    signal,   \* master_replay_signals.status
    proc      \* what each executing process holds in memory

vars == <<jobs, runs, lease, pub, signal, proc>>

NoLease == [token |-> 0, left |-> 0]
IdleProc == [pc |-> "idle", token |-> 0, deadline |-> 0, error |-> "fatal"]

SourceOf(t) == JobSource[runs[t].job]
TokensOf(s) == {t \in DOMAIN runs : SourceOf(t) = s}
NewestToken(s) == Max({0} \cup TokensOf(s))

\* Mutant: attempts that timed out or were swept are not counted.
AttemptsReported(j) ==
    Cardinality({t \in DOMAIN runs : runs[t].job = j /\ runs[t].status = "failed"})

AttemptsOf(j) == IF jobs[j].latest = 0 THEN 0 ELSE runs[jobs[j].latest].attempt

-----------------------------------------------------------------------------
(* The retry policy and the two ways an attempt ends.                      *)

\* RetryPolicy.allows: the error is retryable and attempts remain.
Allows(e, attempt) == e \in {"timeout", "transient"} /\ attempt < MaxAttempts

\* RetryPolicy.delay: exponential, capped.
Delay(attempt) == LET d == BaseDelay * 2 ^ (attempt - 1)
                  IN  IF d <= MaxDelay THEN d ELSE MaxDelay

\* A power of two is a number (the provers do not compute exponents).
ASSUME DelayAssumption == \A n \in 1..MaxAttempts : Delay(n) \in Nat

\* Mutant: the finished attempt keeps its lease row until it expires.
LeaseKept(T) == UNCHANGED lease

\* Every way an attempt ends deletes the lease of its own source, owner and
\* token, so never the lease of a successor.
ReleaseLeases(T) ==
    lease' = [s \in Sources |-> IF lease[s].token \in T THEN NoLease ELSE lease[s]]

\* Mutant: a failure is recorded whatever became of the run in the meantime.
OpenUnchecked(T) == T

\* A run that is no longer running is left alone with everything it owns.
Open(T) == {t \in T : runs[t].status = "running"}

FailedRun(t, e) ==
    [runs[t] EXCEPT !.status = IF e = "timeout" THEN "timed_out" ELSE "failed",
                    !.retryable = Allows(e, runs[t].attempt),
                    !.age = 0, !.left = 0]

\* Mutant: a job that fails for good takes over the status of its run.
FailedJobLikeRun(t, e) ==
    IF Allows(e, runs[t].attempt)
    THEN [jobs[runs[t].job] EXCEPT !.status = "retry_scheduled",
                                   !.wait = Delay(runs[t].attempt)]
    ELSE [jobs[runs[t].job] EXCEPT !.status = FailedRun(t, e).status, !.wait = 0]

\* The job of run t after its attempt failed with e.
FailedJob(t, e) ==
    IF Allows(e, runs[t].attempt)
    THEN [jobs[runs[t].job] EXCEPT !.status = "retry_scheduled",
                                   !.wait = Delay(runs[t].attempt)]
    ELSE [jobs[runs[t].job] EXCEPT !.status = "failed", !.wait = 0]

\* Mutant: the signals of a job that failed for good stay scheduled.
SignalsForgotten(T, e) == UNCHANGED signal

FailSignals(T, e) ==
    signal' = [x \in Signals |->
        IF \E t \in T : /\ ~Allows(e, runs[t].attempt)
                        /\ x \in JobSignals[runs[t].job]
        THEN "failed" ELSE signal[x]]

\* complete_run_failure for every run of T.
RecordFailures(T, e) ==
    LET ofJob(j) == {t \in Open(T) : runs[t].job = j}
    IN  /\ runs' = [t \in DOMAIN runs |->
              IF t \in Open(T) THEN FailedRun(t, e) ELSE runs[t]]
        /\ jobs' = [j \in Jobs |->
              IF ofJob(j) = {} THEN jobs[j]
              ELSE FailedJob(CHOOSE t \in ofJob(j) : TRUE, e)]
        /\ FailSignals(Open(T), e)
        /\ ReleaseLeases(Open(T))

-----------------------------------------------------------------------------
(* Submission and the operators.                                           *)

\* create_job for a key that has no job yet.  With a key that has one the
\* function returns that job and changes nothing, whatever its status.
CreateJob(j) ==
    /\ jobs[j].status = "absent"
    /\ \A i \in 1..(j - 1) : jobs[i].status # "absent"
    /\ \A x \in JobSignals[j] : signal[x] \in {"pending", "scheduled"}
    /\ jobs' = [jobs EXCEPT ![j].status = "queued"]
    /\ signal' = [x \in Signals |->
          IF x \in JobSignals[j] /\ signal[x] = "pending"
          THEN "scheduled" ELSE signal[x]]
    /\ UNCHANGED <<runs, lease, pub, proc>>

\* A restarted enrichment run makes its failed signals actionable again.
ResetFailedSignal(x) ==
    /\ signal[x] = "failed"
    /\ signal' = [signal EXCEPT ![x] = "pending"]
    /\ UNCHANGED <<jobs, runs, lease, pub, proc>>

\* retry_job_now, called by the incident controller and the admin panel.
RetryJobNow(j) ==
    /\ jobs[j].status = "retry_scheduled"
    /\ runs[jobs[j].latest].retryable
    /\ lease[JobSource[j]].left <= 0
    /\ jobs' = [jobs EXCEPT ![j].wait = 0]
    /\ UNCHANGED <<runs, lease, pub, signal, proc>>

\* Mutant: the rollback does not keep the pointer it replaces.
RollbackForgets(s, expected) ==
    /\ pub[s].generation = expected
    /\ pub[s].rollback # 0
    /\ expected < MaxGeneration
    /\ pub' = [pub EXCEPT ![s].active = pub[s].rollback,
                          ![s].generation = expected + 1]
    /\ UNCHANGED <<jobs, runs, lease, signal, proc>>

\* rollback_publication_pointer with the generation the operator expects.
RollbackPointer(s, expected) ==
    /\ pub[s].generation = expected
    /\ pub[s].rollback # 0
    /\ expected < MaxGeneration
    /\ pub' = [pub EXCEPT ![s].active = pub[s].rollback,
                          ![s].rollback = pub[s].active,
                          ![s].generation = expected + 1]
    /\ UNCHANGED <<jobs, runs, lease, signal, proc>>

-----------------------------------------------------------------------------
(* Claiming: the canonical queue order and the lease.                      *)

\* Mutant: scheduled retries are forgotten.
RunnableQueued(w) == {j \in Admits[w] :
    jobs[j].status = "queued" /\ jobs[j].wait = 0}

Runnable(w) == {j \in Admits[w] :
    jobs[j].status \in {"queued", "retry_scheduled"} /\ jobs[j].wait = 0}

\* Order of the claim query: priority class, the source that ran longest ago
\* (never first), creation.
Precedes(i, j) ==
    LET last(k) == NewestToken(JobSource[k])
    IN  \/ JobPriority[i] < JobPriority[j]
        \/ JobPriority[i] = JobPriority[j] /\ last(i) < last(j)
        \/ JobPriority[i] = JobPriority[j] /\ last(i) = last(j) /\ i < j

IsHead(w, j) == /\ j \in Runnable(w)
                /\ \A i \in Runnable(w) : ~Precedes(i, j)

\* FOR UPDATE SKIP LOCKED: j is taken though i is ahead of it only while the
\* claim of another idle process holds the lock on i.
OvertakesLocked(w, j) ==
    \A i \in Runnable(w) : Precedes(i, j) =>
        \E v \in Workers \ {w} : proc[v].pc = "idle" /\ i \in Runnable(v)

\* claim_next_job.  The head of the queue is the only candidate: when its
\* handler is not approved or its source is leased, the whole claim raises,
\* the transaction rolls back and nothing changes.
Claim(w, j, lag) ==
    LET s == JobSource[j]
        t == Len(runs) + 1
    IN  /\ proc[w].pc = "idle"
        /\ j \in Runnable(w)
        /\ OvertakesLocked(w, j)
        /\ j \in Registered
        /\ lease[s].token = 0 \/ lease[s].left + lag <= 0
        /\ lease' = [lease EXCEPT ![s] = [token |-> t, left |-> LeaseTTL - lag]]
        /\ runs' = Append(runs, [job |-> j, attempt |-> AttemptsOf(j) + 1,
                                 worker |-> WorkerId[w], status |-> "running",
                                 age |-> lag, left |-> Timeout - lag,
                                 retryable |-> FALSE])
        /\ jobs' = [jobs EXCEPT ![j].status = "running", ![j].latest = t]
        /\ proc' = [proc EXCEPT ![w] = [IdleProc EXCEPT !.pc = "claimed",
                                                        !.token = t]]
        /\ UNCHANGED <<pub, signal>>

-----------------------------------------------------------------------------
(* Execution of a claim by a process.                                      *)

\* execute_claim starts and fixes its own deadline.
StartExecution(w) ==
    /\ proc[w].pc = "claimed"
    /\ proc' = [proc EXCEPT ![w].pc = "executing", ![w].deadline = Timeout]
    /\ UNCHANGED <<jobs, runs, lease, pub, signal>>

\* Mutant: the owner of the lease is compared, its token is not.
LeaseOwned(t, lag) ==
    LET l == lease[SourceOf(t)]
    IN  /\ l.token # 0
        /\ runs[l.token].worker = runs[t].worker
        /\ l.left + lag > 0

\* The lease row still carries this claim and has not expired at the time
\* that was read lag ticks ago.  The owner of the row is the worker id of the
\* run that holds the token.
LeaseValid(t, lag) ==
    LET l == lease[SourceOf(t)]
    IN  /\ l.token = t
        /\ runs[l.token].worker = runs[t].worker
        /\ l.left + lag > 0

\* heartbeat_run, by the parent, its publisher thread or a progress report.
Heartbeat(w, lag) ==
    LET t == proc[w].token
    IN  /\ proc[w].pc = "executing"
        /\ proc[w].deadline > 0
        /\ LeaseValid(t, lag)
        /\ runs[t].status = "running"
        /\ lease' = [lease EXCEPT ![SourceOf(t)].left = LeaseTTL - lag]
        /\ runs' = [runs EXCEPT ![t].age = lag]
        /\ UNCHANGED <<jobs, pub, signal, proc>>

\* Mutant: the publisher commits before the completion, then fails.
RaisesAfterPublishing(w, e) ==
    LET t == proc[w].token
    IN  /\ proc[w].pc = "executing"
        /\ pub[SourceOf(t)].generation < MaxGeneration
        /\ pub' = [pub EXCEPT ![SourceOf(t)] =
              [active |-> t, rollback |-> @.active,
               generation |-> @.generation + 1, last |-> t]]
        /\ proc' = [proc EXCEPT ![w].pc = "failing", ![w].error = e]
        /\ UNCHANGED <<jobs, runs, lease, signal>>

\* The handler, its publisher or the IPC fails.
HandlerRaises(w, e) ==
    /\ proc[w].pc = "executing"
    /\ proc' = [proc EXCEPT ![w].pc = "failing", ![w].error = e]
    /\ UNCHANGED <<jobs, runs, lease, pub, signal>>

\* The deadline passed: the next heartbeat or the completion notices it.
DeadlineExceeded(w) ==
    /\ proc[w].deadline = 0
    /\ HandlerRaises(w, "timeout")

\* A heartbeat or the completion finds the fence gone.
LeaseLost(w, lag) ==
    /\ proc[w].deadline > 0
    /\ \/ ~LeaseValid(proc[w].token, lag)
       \/ runs[proc[w].token].status # "running"
       \/ pub[SourceOf(proc[w].token)].last > proc[w].token
    /\ HandlerRaises(w, "lease_lost")

\* _publish_staging: the pointer moves and keeps its predecessor.
PublishStaging(t) ==
    LET s == SourceOf(t)
    IN  /\ pub[s].generation < MaxGeneration
        /\ pub' = [pub EXCEPT ![s] =
              [active |-> t, rollback |-> pub[s].active,
               generation |-> pub[s].generation + 1, last |-> t]]

\* complete_run_success, with or without an accepted staging result.
CompleteSuccess(w, lag, staged) ==
    LET t == proc[w].token
        j == runs[t].job
    IN  /\ proc[w].pc = "executing"
        /\ proc[w].deadline > 0
        /\ LeaseValid(t, lag)
        /\ runs[t].status = "running"
        /\ IF staged THEN pub[SourceOf(t)].last <= t /\ PublishStaging(t)
                     ELSE UNCHANGED pub
        /\ runs' = [runs EXCEPT ![t].status = "succeeded",
                                ![t].age = 0, ![t].left = 0]
        /\ jobs' = [jobs EXCEPT ![j].status = "succeeded", ![j].wait = 0]
        /\ signal' = [x \in Signals |->
              IF x \in JobSignals[j] THEN "complete" ELSE signal[x]]
        /\ ReleaseLeases({t})
        /\ proc' = [proc EXCEPT ![w] = IdleProc]

\* complete_run_failure in a transaction of its own, after the rollback of
\* the one that failed.
CompleteFailure(w) ==
    /\ proc[w].pc = "failing"
    /\ RecordFailures({proc[w].token}, proc[w].error)
    /\ proc' = [proc EXCEPT ![w] = IdleProc]
    /\ UNCHANGED pub

\* The process dies, or its failure transaction does: the claim is forgotten
\* and every durable row stays as it is.
Crash(w) ==
    /\ proc[w].pc # "idle"
    /\ proc' = [proc EXCEPT ![w] = IdleProc]
    /\ UNCHANGED <<jobs, runs, lease, pub, signal>>

-----------------------------------------------------------------------------
(* Recovery and time.                                                      *)

\* Mutant: only an attempt that still owns the lease row is recovered.
RecoverableOwner(t) ==
    /\ runs[t].status = "running"
    /\ runs[t].age >= StaleAfter
    /\ lease[SourceOf(t)].token = t
    /\ runs[t].left <= 0 \/ lease[SourceOf(t)].left <= 0

\* Stale for recover_stale_runs: an old heartbeat, and either the deadline of
\* the run or the lease of its source (whoever holds it) has expired.
Recoverable(t) ==
    /\ runs[t].status = "running"
    /\ runs[t].age >= StaleAfter
    /\ \/ runs[t].left <= 0
       \/ lease[SourceOf(t)].token = 0
       \/ lease[SourceOf(t)].left <= 0

\* recover_stale_runs.  The sweep takes the recoverable runs that no other
\* transaction has locked, up to its limit.
RecoverStaleRuns(T) ==
    /\ T # {}
    /\ \A t \in T : Recoverable(t)
    /\ RecordFailures(T, "timeout")
    /\ UNCHANGED <<pub, proc>>

Elapse(n, floor) == IF n > floor THEN n - 1 ELSE n

\* One tick.  Distances stop where no guard tells them apart any more.
Tick ==
    /\ jobs' = [j \in Jobs |-> [jobs[j] EXCEPT !.wait = Elapse(@, 0)]]
    /\ lease' = [s \in Sources |->
          IF lease[s].token = 0 THEN lease[s]
          ELSE [lease[s] EXCEPT !.left = Elapse(@, -MaxLag)]]
    /\ runs' = [t \in DOMAIN runs |->
          IF runs[t].status # "running" THEN runs[t]
          ELSE [runs[t] EXCEPT !.age = Min({@ + 1, StaleAfter + MaxLag}),
                               !.left = Elapse(@, -MaxLag)]]
    /\ proc' = [w \in Workers |-> [proc[w] EXCEPT !.deadline = Elapse(@, 0)]]
    /\ UNCHANGED <<pub, signal>>

-----------------------------------------------------------------------------
Init ==
    /\ jobs = [j \in Jobs |-> [status |-> "absent", wait |-> 0, latest |-> 0]]
    /\ runs = << >>
    /\ lease = [s \in Sources |-> NoLease]
    /\ pub = [s \in Sources |-> [active |-> 0, rollback |-> 0,
                                 generation |-> 0, last |-> 0]]
    /\ signal = [x \in Signals |-> "pending"]
    /\ proc = [w \in Workers |-> IdleProc]

Lags == 0..MaxLag

Execute(w) ==
    \/ StartExecution(w)
    \/ \E lag \in Lags : Heartbeat(w, lag)
    \/ \E e \in HandlerErrors : HandlerRaises(w, e)
    \/ DeadlineExceeded(w)
    \/ \E lag \in Lags : LeaseLost(w, lag)
    \/ \E lag \in Lags, staged \in BOOLEAN : CompleteSuccess(w, lag, staged)
    \/ CompleteFailure(w)
    \/ Crash(w)

Next ==
    \/ \E j \in Jobs : CreateJob(j) \/ RetryJobNow(j)
    \/ \E x \in Signals : ResetFailedSignal(x)
    \/ \E s \in Sources, g \in 1..MaxGeneration : RollbackPointer(s, g)
    \/ \E w \in Workers, j \in Jobs, lag \in Lags : Claim(w, j, lag)
    \/ \E w \in Workers : Execute(w)
    \/ \E T \in SUBSET DOMAIN runs : RecoverStaleRuns(T)
    \/ Tick

Spec == Init /\ [][Next]_vars

(* Fairness.  The daemon polls forever under systemd (--loop, Restart =      *)
(* on-failure) and every polling cycle starts with the sweep.  The executor  *)
(* enforces its deadline and records failures; nothing forces a handler to   *)
(* return, a heartbeat to be sent or a process not to die; and no process is *)
(* owed the luck of skipping a head that another one has locked.             *)
ClockFairness == WF_vars(Tick)
SweepFairness == WF_vars(\E T \in SUBSET DOMAIN runs : RecoverStaleRuns(T))
ExecutorFairness == \A w \in Workers :
    /\ WF_vars(\E j \in Jobs, lag \in Lags : IsHead(w, j) /\ Claim(w, j, lag))
    /\ WF_vars(StartExecution(w))
    /\ WF_vars(DeadlineExceeded(w))
    /\ WF_vars(CompleteFailure(w))

SweepSpec == Spec /\ ClockFairness /\ SweepFairness
FairSpec == SweepSpec /\ ExecutorFairness

-----------------------------------------------------------------------------
(* Properties.                                                             *)

Run == [job : Jobs, attempt : Nat \ {0}, worker : {WorkerId[w] : w \in Workers},
        status : RunStatus, age : Nat, left : Int, retryable : BOOLEAN]

\* The shape of the rows and of what a process holds.
TypeOK ==
    /\ jobs \in [Jobs -> [status : JobStatus, wait : Nat, latest : Nat]]
    /\ \A j \in Jobs : jobs[j].latest \in 0..Len(runs)
    /\ runs \in Seq(Run)
    /\ lease \in [Sources -> [token : Nat, left : Int]]
    /\ \A s \in Sources : lease[s].token \in 0..Len(runs)
    /\ pub \in [Sources -> [active : Nat, rollback : Nat, generation : Nat,
                            last : Nat]]
    /\ \A s \in Sources : pub[s].last \in 0..Len(runs)
    /\ signal \in [Signals -> SignalStatus]
    /\ proc \in [Workers -> [pc : {"idle", "claimed", "executing", "failing"},
                             token : Nat, deadline : Nat, error : Errors]]
    /\ \A w \in Workers : proc[w].pc # "idle" => proc[w].token \in DOMAIN runs

\* A run is open exactly when its job is running and the run is the latest
\* attempt of that job: claims, completions, late failures and the sweep never
\* leave a job running with nothing to finish it, nor two open attempts.
JobRunAgreement ==
    /\ \A t \in DOMAIN runs : runs[t].status = "running" =>
          /\ jobs[runs[t].job].status = "running"
          /\ jobs[runs[t].job].latest = t
    /\ \A j \in Jobs : jobs[j].status = "running" =>
          /\ jobs[j].latest \in DOMAIN runs
          /\ runs[jobs[j].latest].job = j
          /\ runs[jobs[j].latest].status = "running"

\* A lease row belongs to an open run of its source, and to the newest run of
\* that source: a finished or superseded attempt leaves no lease behind, and
\* the sweep never releases the lease of a successor.
LeaseGuardsNewestRun ==
    \A s \in Sources : lease[s].token # 0 =>
        /\ lease[s].token \in TokensOf(s)
        /\ runs[lease[s].token].status = "running"
        /\ \A t \in TokensOf(s) : t <= lease[s].token

\* However often a job is retried after deaths and timeouts, at most one of its
\* attempts succeeds, and only the last one.
OneSuccessPerJob ==
    \A t \in DOMAIN runs : runs[t].status = "succeeded" =>
        /\ jobs[runs[t].job].status = "succeeded"
        /\ jobs[runs[t].job].latest = t

\* Attempts of a job are numbered without repetition in the order of their
\* tokens and never exceed max_attempts.
AttemptsBounded ==
    \A t \in DOMAIN runs :
        /\ runs[t].attempt <= MaxAttempts
        /\ \A u \in DOMAIN runs : u < t /\ runs[u].job = runs[t].job =>
              runs[u].attempt < runs[t].attempt

\* A job waits for a retry exactly when the policy allowed one after its last
\* attempt: the operator's retry_job_now is never refused for that reason and a
\* failed job has no attempt left that the policy would have granted.
RetryFollowsPolicy ==
    \A j \in Jobs :
        /\ jobs[j].status = "retry_scheduled" =>
              /\ runs[jobs[j].latest].retryable
              /\ runs[jobs[j].latest].attempt < MaxAttempts
        /\ jobs[j].status = "failed" => ~runs[jobs[j].latest].retryable

\* How an attempt that did not succeed and is over looks like.
FailedRunStatus == {"failed", "timed_out"}

\* The status of a job is the outcome of its latest attempt.
StatusMatches(j) ==
    LET r == runs[jobs[j].latest]
    IN  /\ r.job = j
        /\ jobs[j].status \in {"running", "retry_scheduled"} \cup TerminalJob
        /\ jobs[j].status = "running" => r.status = "running"
        /\ jobs[j].status = "succeeded" => r.status = "succeeded"
        /\ jobs[j].status = "retry_scheduled" =>
              r.status \in FailedRunStatus /\ r.retryable /\ r.attempt < MaxAttempts
        /\ jobs[j].status = "failed" => r.status \in FailedRunStatus /\ ~r.retryable

\* The history of a job tells its status: every attempt but the latest failed,
\* attempts grow with their tokens, and the latest decides.  The three
\* properties above and JobRunAgreement follow from it.
AttemptHistory ==
    /\ \A t \in DOMAIN runs :
          /\ runs[t].attempt <= MaxAttempts
          /\ t <= jobs[runs[t].job].latest
          /\ t # jobs[runs[t].job].latest => runs[t].status \in FailedRunStatus
          /\ \A u \in DOMAIN runs : u < t /\ runs[u].job = runs[t].job =>
                runs[u].attempt < runs[t].attempt
    /\ \A j \in Jobs :
          /\ jobs[j].latest = 0 <=> jobs[j].status \in {"absent", "queued"}
          /\ jobs[j].latest # 0 => StatusMatches(j)

\* Both pointers of a source, through publications and rollbacks, name runs of
\* that source that succeeded: a failed or recovered attempt leaves the
\* previous publication active.
PointersNameSuccesses ==
    \A s \in Sources : \A t \in {pub[s].active, pub[s].rollback} \ {0} :
        t \in TokensOf(s) /\ runs[t].status = "succeeded"

\* A replay signal is never parked: while it is scheduled, a job created for it
\* can still settle it.
ScheduledSignalHasLiveJob ==
    \A x \in Signals : signal[x] = "scheduled" =>
        \E j \in Jobs : /\ x \in JobSignals[j]
                        /\ jobs[j].status \notin TerminalJob \cup {"absent"}

\* Only the newest claim of a source publishes: once a source was claimed again,
\* an interrupted, stalled or recovered process cannot move its pointer, and
\* the fence recorded with the pointer only grows.
FencedPublication ==
    [][\A s \in Sources : pub'[s].last # pub[s].last =>
          /\ pub'[s].last > pub[s].last
          /\ \A t \in TokensOf(s) : t <= pub'[s].last]_vars

\* The outcome of a finished attempt and the end of a job are final: a worker
\* that comes back after the sweep changes neither.
OutcomesAreFinal ==
    [][/\ \A t \in DOMAIN runs : runs[t].status # "running" => runs'[t] = runs[t]
       /\ \A j \in Jobs : jobs[j].status \in TerminalJob =>
             jobs'[j] = jobs[j]]_vars

\* A restart cannot strand a job in running, whatever its worker does: the
\* sweep closes every attempt that stops reporting or outlives its deadline.
NoStrandedRun ==
    \A j \in Jobs : jobs[j].status = "running" ~> jobs[j].status # "running"

\* Every submitted job reaches a terminal status if executors run, though they
\* may die at every attempt.
EveryJobSettles == ExecutorFairness =>
    \A j \in Jobs : jobs[j].status = "queued" ~> jobs[j].status \in TerminalJob

\* What the queue order promises: as long as the daemon polls, a job of one
\* source whose handler is approved gets an attempt, whatever is queued for
\* the other sources.
NoSourceStarves ==
    \A j \in Registered : jobs[j].status = "queued" ~> jobs[j].status # "queued"

-----------------------------------------------------------------------------
(* Refinement: what submitters and readers see of the state.               *)

OutcomeSeen(j) ==
    CASE jobs[j].status = "absent" -> "absent"
      [] jobs[j].status = "succeeded" -> "applied"
      [] jobs[j].status = "failed" -> "abandoned"
      [] OTHER -> "accepted"

JobServed(t) == IF t = 0 THEN 0 ELSE runs[t].job

Service == INSTANCE JobService WITH
    NoJob <- 0,
    outcome <- [j \in Jobs |-> OutcomeSeen(j)],
    current <- [s \in Sources |-> JobServed(pub[s].active)],
    previous <- [s \in Sources |-> JobServed(pub[s].rollback)],
    generation <- [s \in Sources |-> pub[s].generation]

\* Through retries, deaths, stalls and sweeps, a submitted job is applied at
\* most once, atomically with the pointer it moves, or abandoned without a
\* trace.
ImplementsJobService == Service!ServiceSpec
=============================================================================
