----------------------- MODULE WorkerFoundationProofs -----------------------
(***************************************************************************)
(* Theorems about WorkerFoundation for every number of jobs, sources,      *)
(* processes and attempts, and every choice of the time constants.         *)
(***************************************************************************)
EXTENDS WorkerFoundation, SequenceTheorems, TLAPS

-----------------------------------------------------------------------------
(* Facts about the constants and the operators.                            *)

\* The assumptions on the constants, taken apart.
LEMMA ConstantFacts ==
    /\ NumJobs \in Nat
    /\ JobSource \in [Jobs -> Sources]
    /\ JobSignals \in [Jobs -> SUBSET Signals]
    /\ MaxAttempts \in Nat \ {0}
    /\ LeaseTTL \in Nat \ {0} /\ StaleAfter \in Nat \ {0} /\ Timeout \in Nat \ {0}
    /\ MaxDelay \in Nat /\ MaxLag \in Nat /\ MaxGeneration \in Nat
  BY WorkerAssumption

\* A run is the record of its fields.
LEMMA RunFields ==
    ASSUME NEW r \in Run
    PROVE  r = [job |-> r.job, attempt |-> r.attempt, worker |-> r.worker,
                status |-> r.status, age |-> r.age, left |-> r.left,
                retryable |-> r.retryable]
  BY DEF Run

\* A table of runs over the same tokens is again a sequence of runs.
LEMMA RunTable ==
    ASSUME NEW S, NEW q \in Seq(S), NEW f \in [DOMAIN q -> S]
    PROVE  f \in Seq(S) /\ Len(f) = Len(q) /\ DOMAIN f = DOMAIN q
  <1>1. DOMAIN q = 1..Len(q) /\ Len(q) \in Nat
    BY LenProperties
  <1>2. f \in Seq(S)
    BY <1>1, SeqDef
  <1> QED
    BY <1>1, <1>2, LenProperties

\* The minimum that Tick takes of an age is a number.
LEMMA MinOfTwo ==
    ASSUME NEW m \in Nat, NEW n \in Nat
    PROVE  Min({m, n}) \in Nat
  <1>1. CASE m <= n
    <2>1. m \in {m, n} /\ \A y \in {m, n} : m <= y
      BY <1>1
    <2> QED BY <2>1 DEF Min
  <1>2. CASE n <= m
    <2>1. n \in {m, n} /\ \A y \in {m, n} : n <= y
      BY <1>2
    <2> QED BY <2>1 DEF Min
  <1> QED BY <1>1, <1>2

-----------------------------------------------------------------------------
(* Type correctness.                                                       *)

\* The first eight conjuncts of TypeOK by name, so that a step can speak of
\* one table.
JobsOK == /\ jobs \in [Jobs -> [status : JobStatus, wait : Nat, latest : Nat]]
          /\ \A j \in Jobs : jobs[j].latest \in 0..Len(runs)
RunsOK == runs \in Seq(Run)
LeaseOK == /\ lease \in [Sources -> [token : Nat, left : Int]]
           /\ \A s \in Sources : lease[s].token \in 0..Len(runs)
PubOK == /\ pub \in [Sources -> [active : Nat, rollback : Nat,
                                 generation : Nat, last : Nat]]
         /\ \A s \in Sources : pub[s].last \in 0..Len(runs)
SignalOK == signal \in [Signals -> SignalStatus]
ProcOK == /\ proc \in [Workers -> [pc : {"idle", "claimed", "executing", "failing"},
                                   token : Nat, deadline : Nat, error : Errors]]
          /\ \A w \in Workers : proc[w].pc # "idle" => proc[w].token \in DOMAIN runs

LEMMA TypeParts == TypeOK <=> /\ JobsOK /\ RunsOK /\ LeaseOK
                              /\ PubOK /\ SignalOK /\ ProcOK
  BY DEF TypeOK, JobsOK, RunsOK, LeaseOK, PubOK, SignalOK, ProcOK

LEMMA TypePartsNext == TypeOK' <=> /\ JobsOK' /\ RunsOK' /\ LeaseOK'
                                   /\ PubOK' /\ SignalOK' /\ ProcOK'
  BY DEF TypeOK, JobsOK, RunsOK, LeaseOK, PubOK, SignalOK, ProcOK

\* Tables that refer to tokens stay well-typed while no run is added.
LEMMA SameLength ==
    ASSUME TypeOK, RunsOK', Len(runs') = Len(runs)
    PROVE  /\ UNCHANGED jobs => JobsOK'
           /\ UNCHANGED lease => LeaseOK'
           /\ UNCHANGED pub => PubOK'
           /\ UNCHANGED proc => ProcOK'
  <1>1. DOMAIN runs' = DOMAIN runs
    BY LenProperties DEF TypeOK, RunsOK
  <1> QED
    BY <1>1 DEF TypeOK, JobsOK, LeaseOK, PubOK, ProcOK

\* Recording failures keeps the tables it writes well-typed and adds no run.
LEMMA RecordFailuresType ==
    ASSUME TypeOK, NEW T \in SUBSET DOMAIN runs, NEW e \in Errors,
           RecordFailures(T, e), \A t \in DOMAIN runs : runs[t].attempt \in 1..MaxAttempts
    PROVE  JobsOK' /\ RunsOK' /\ LeaseOK' /\ SignalOK' /\ Len(runs') = Len(runs)
  <1>1. \A t \in DOMAIN runs : runs[t] \in Run
    BY ElementOfSeq, LenProperties DEF TypeOK
  <1>2. \A t \in DOMAIN runs : FailedRun(t, e) \in Run
    <2> SUFFICES ASSUME NEW t \in DOMAIN runs PROVE FailedRun(t, e) \in Run
      OBVIOUS
    <2> DEFINE st == IF e = "timeout" THEN "timed_out" ELSE "failed"
               re == Allows(e, runs[t].attempt)
    <2>1. st \in RunStatus /\ re \in BOOLEAN
      BY DEF RunStatus, Allows
    <2>2. FailedRun(t, e) = [job |-> runs[t].job, attempt |-> runs[t].attempt,
                             worker |-> runs[t].worker, status |-> st,
                             age |-> 0, left |-> 0, retryable |-> re]
      <3>1. runs[t] = [job |-> runs[t].job, attempt |-> runs[t].attempt,
                       worker |-> runs[t].worker, status |-> runs[t].status,
                       age |-> runs[t].age, left |-> runs[t].left,
                       retryable |-> runs[t].retryable]
        BY <1>1 DEF Run
      <3> HIDE DEF st, re
      <3>2. FailedRun(t, e) = [runs[t] EXCEPT !.status = st, !.retryable = re,
                                              !.age = 0, !.left = 0]
        BY DEF FailedRun, st, re
      <3> QED
        BY <3>1, <3>2
    <2>3. runs[t].job \in Jobs /\ runs[t].attempt \in Nat \ {0}
          /\ runs[t].worker \in {WorkerId[w] : w \in Workers}
      BY <1>1 DEF Run
    <2> HIDE DEF st, re
    <2> QED
      BY <2>1, <2>2, <2>3 DEF Run
  <1>3. runs' \in [DOMAIN runs -> Run]
    BY <1>1, <1>2 DEF RecordFailures
  <1>4. RunsOK' /\ Len(runs') = Len(runs)
    BY <1>3, RunTable DEF RunsOK, TypeOK
  <1>5. \A t \in DOMAIN runs : FailedJob(t, e) \in
            [status : JobStatus, wait : Nat, latest : 0..Len(runs)]
    <2> TAKE t \in DOMAIN runs
    <2>1. runs[t].job \in Jobs /\ Delay(runs[t].attempt) \in Nat
      BY <1>1, DelayAssumption DEF Run
    <2>2. jobs[runs[t].job] \in [status : JobStatus, wait : Nat, latest : 0..Len(runs)]
      BY <2>1 DEF TypeOK
    <2> HIDE DEF Delay
    <2> QED
      BY <2>1, <2>2 DEF FailedJob, JobStatus
  <1>6. ASSUME NEW j \in Jobs
        PROVE  jobs'[j] \in [status : JobStatus, wait : Nat, latest : 0..Len(runs)]
    <2> DEFINE ofJob == {t \in Open(T) : runs[t].job = j}
    <2>1. CASE ofJob = {}
      BY <2>1 DEF RecordFailures, TypeOK
    <2>2. CASE ofJob # {}
      <3>1. (CHOOSE t \in ofJob : TRUE) \in DOMAIN runs
        BY <2>2 DEF Open
      <3>2. jobs'[j] = FailedJob(CHOOSE t \in ofJob : TRUE, e)
        BY <2>2 DEF RecordFailures
      <3> QED
        BY <3>1, <3>2, <1>5
    <2> QED
      BY <2>1, <2>2
  <1>7. JobsOK'
    <2>1. Len(runs) \in Nat
      BY LenProperties DEF TypeOK
    <2>2. \A j \in Jobs : /\ jobs'[j] \in [status : JobStatus, wait : Nat, latest : Nat]
                         /\ jobs'[j].latest \in 0..Len(runs)
      BY <1>6, <2>1
    <2>3. jobs' = [j \in Jobs |-> jobs'[j]]
      BY DEF RecordFailures
    <2> QED
      BY <1>4, <2>2, <2>3 DEF JobsOK
  <1>8. LeaseOK'
    BY <1>4 DEF LeaseOK, RecordFailures, ReleaseLeases, NoLease, TypeOK
  <1>9. SignalOK'
    BY DEF SignalOK, RecordFailures, FailSignals, SignalStatus, TypeOK
  <1> QED
    BY <1>4, <1>7, <1>8, <1>9

\* A job is the record of its fields.
LEMMA JobFacts ==
    ASSUME JobsOK, NEW j \in Jobs
    PROVE  /\ jobs[j].status \in JobStatus /\ jobs[j].wait \in Nat
           /\ jobs[j].latest \in Nat /\ jobs[j].latest \in 0..Len(runs)
           /\ jobs[j] = [status |-> jobs[j].status, wait |-> jobs[j].wait,
                         latest |-> jobs[j].latest]
  <1>1. jobs[j] \in [status : JobStatus, wait : Nat, latest : Nat]
        /\ jobs[j].latest \in 0..Len(runs)
    BY DEF JobsOK
  <1> QED
    BY <1>1

\* A table of jobs is well-typed when its rows are.
LEMMA JobsIntro ==
    ASSUME NEW g, jobs' = [j \in Jobs |-> g[j]],
           \A j \in Jobs : /\ g[j] \in [status : JobStatus, wait : Nat, latest : Nat]
                          /\ g[j].latest \in 0..Len(runs')
    PROVE  JobsOK'
  <1>1. \A j \in Jobs : jobs'[j] = g[j]
    OBVIOUS
  <1>2. jobs' \in [Jobs -> [status : JobStatus, wait : Nat, latest : Nat]]
    OBVIOUS
  <1> QED
    BY <1>1, <1>2 DEF JobsOK

\* One job that changes: the others keep their rows.
LEMMA OneJobChanges ==
    ASSUME JobsOK, NEW j \in Jobs, NEW row \in [status : JobStatus, wait : Nat, latest : Nat],
           row.latest \in 0..Len(runs'), jobs' = [jobs EXCEPT ![j] = row],
           \A n \in 0..Len(runs) : n \in 0..Len(runs')
    PROVE  /\ JobsOK'
           /\ jobs'[j] = row
           /\ \A i \in Jobs : i # j => jobs'[i] = jobs[i]
  <1>1. jobs \in [Jobs -> [status : JobStatus, wait : Nat, latest : Nat]]
        /\ \A i \in Jobs : jobs[i].latest \in 0..Len(runs)
    BY DEF JobsOK
  <1>2. jobs' \in [Jobs -> [status : JobStatus, wait : Nat, latest : Nat]]
        /\ jobs'[j] = row /\ \A i \in Jobs : i # j => jobs'[i] = jobs[i]
    BY <1>1
  <1>3. \A i \in Jobs : jobs'[i].latest \in 0..Len(runs')
    BY <1>1, <1>2
  <1> QED
    BY <1>2, <1>3 DEF JobsOK

\* One lease that changes: the other sources keep their rows.
LEMMA OneLeaseChanges ==
    ASSUME LeaseOK, NEW s \in Sources, NEW row \in [token : Nat, left : Int],
           row.token \in 0..Len(runs'), lease' = [lease EXCEPT ![s] = row],
           \A n \in 0..Len(runs) : n \in 0..Len(runs')
    PROVE  /\ LeaseOK'
           /\ lease'[s] = row
           /\ \A x \in Sources : x # s => lease'[x] = lease[x]
  <1>1. lease \in [Sources -> [token : Nat, left : Int]]
        /\ \A x \in Sources : lease[x].token \in 0..Len(runs)
    BY DEF LeaseOK
  <1>2. lease' \in [Sources -> [token : Nat, left : Int]]
        /\ lease'[s] = row /\ \A x \in Sources : x # s => lease'[x] = lease[x]
    BY <1>1
  <1>3. \A x \in Sources : lease'[x].token \in 0..Len(runs')
    BY <1>1, <1>2
  <1> QED
    BY <1>2, <1>3 DEF LeaseOK

\* One publication pointer that changes, while no run is added.
LEMMA OnePointerChanges ==
    ASSUME PubOK, NEW s \in Sources,
           NEW row \in [active : Nat, rollback : Nat, generation : Nat, last : Nat],
           row.last \in 0..Len(runs), pub' = [pub EXCEPT ![s] = row],
           Len(runs') = Len(runs)
    PROVE  PubOK'
  <1>1. pub \in [Sources -> [active : Nat, rollback : Nat, generation : Nat, last : Nat]]
        /\ \A x \in Sources : pub[x].last \in 0..Len(runs)
    BY DEF PubOK
  <1>2. pub' \in [Sources -> [active : Nat, rollback : Nat, generation : Nat, last : Nat]]
        /\ \A x \in Sources : pub'[x] = IF x = s THEN row ELSE pub[x]
    BY <1>1
  <1>3. \A x \in Sources : pub'[x].last \in 0..Len(runs')
    BY <1>1, <1>2
  <1> QED
    BY <1>2, <1>3 DEF PubOK

-----------------------------------------------------------------------------
(* The inductive invariant.                                                *)

IInv == TypeOK /\ AttemptHistory /\ LeaseGuardsNewestRun

LEMMA InitIInv == Init => IInv
  <1> SUFFICES ASSUME Init PROVE IInv
    OBVIOUS
  <1>1. runs = << >> /\ Len(runs) = 0 /\ DOMAIN runs = {} /\ runs \in Seq(Run)
    BY EmptySeq DEF Init
  <1>2. TypeOK
    BY <1>1 DEF Init, TypeOK, NoLease, IdleProc, JobStatus, SignalStatus, Errors,
                HandlerErrors
  <1>3. AttemptHistory
    BY <1>1 DEF Init, AttemptHistory
  <1>4. LeaseGuardsNewestRun
    BY DEF Init, LeaseGuardsNewestRun, NoLease
  <1> QED
    BY <1>2, <1>3, <1>4 DEF IInv

\* What a run of the table is.
LEMMA RunFacts ==
    ASSUME TypeOK
    PROVE  /\ Len(runs) \in Nat
           /\ DOMAIN runs = 1..Len(runs)
           /\ \A t \in DOMAIN runs : runs[t] \in Run
  BY ElementOfSeq, LenProperties DEF TypeOK

\* The part of the state that decides the history and the leases.
LEMMA SameHistory ==
    ASSUME TypeOK, AttemptHistory, LeaseGuardsNewestRun,
           DOMAIN runs' = DOMAIN runs,
           \A t \in DOMAIN runs : /\ runs'[t].job = runs[t].job
                                  /\ runs'[t].attempt = runs[t].attempt
                                  /\ runs'[t].status = runs[t].status
                                  /\ runs'[t].retryable = runs[t].retryable,
           \A j \in Jobs : /\ jobs'[j].status = jobs[j].status
                           /\ jobs'[j].latest = jobs[j].latest,
           \A s \in Sources : lease'[s].token = lease[s].token
    PROVE  AttemptHistory' /\ LeaseGuardsNewestRun'
  <1>1. \A t \in DOMAIN runs : runs[t].job \in Jobs
    BY RunFacts DEF Run
  <1>2. \A j \in Jobs : jobs[j].latest # 0 => jobs[j].latest \in DOMAIN runs
    BY RunFacts DEF TypeOK
  <1>3. \A j \in Jobs : jobs[j].latest # 0 => (StatusMatches(j) => StatusMatches(j)')
    BY <1>2 DEF StatusMatches
  <1>4. AttemptHistory'
    BY <1>1, <1>2, <1>3 DEF AttemptHistory
  <1>5. \A s \in Sources : TokensOf(s)' = TokensOf(s)
    BY DEF TokensOf, SourceOf
  <1>6. LeaseGuardsNewestRun'
    BY <1>5 DEF LeaseGuardsNewestRun, TokensOf
  <1> QED
    BY <1>4, <1>6

\* Actions that leave jobs, runs and leases alone.
LEMMA QuietStep ==
    ASSUME IInv, UNCHANGED <<jobs, runs, lease>>, PubOK', SignalOK', ProcOK'
    PROVE  IInv'
  <1>1. TypeOK'
    BY TypePartsNext, TypeParts DEF IInv, JobsOK, RunsOK, LeaseOK
  <1>2. AttemptHistory' /\ LeaseGuardsNewestRun'
    BY SameHistory DEF IInv
  <1> QED
    BY <1>1, <1>2 DEF IInv

LEMMA CreateJobStep ==
    ASSUME IInv, NEW j \in Jobs, CreateJob(j)
    PROVE  IInv'
  <1> USE DEF IInv
  <1>1. SignalOK'
    BY DEF CreateJob, SignalOK, SignalStatus, TypeOK
  <1>2. JobsOK'
    <2> DEFINE row == [status |-> "queued", wait |-> jobs[j].wait, latest |-> jobs[j].latest]
    <2>1. JobsOK /\ jobs' = [jobs EXCEPT ![j].status = "queued"] /\ runs' = runs
      BY TypeParts DEF CreateJob
    <2>2. /\ jobs[j].wait \in Nat /\ jobs[j].latest \in Nat
          /\ jobs[j].latest \in 0..Len(runs)
          /\ jobs[j] = [status |-> jobs[j].status, wait |-> jobs[j].wait,
                        latest |-> jobs[j].latest]
      BY <2>1, JobFacts
    <2>3. row \in [status : JobStatus, wait : Nat, latest : Nat]
          /\ row.latest \in 0..Len(runs')
      BY <2>1, <2>2 DEF JobStatus
    <2>4. [jobs[j] EXCEPT !.status = "queued"] = row
      BY <2>2
    <2>5. jobs' = [jobs EXCEPT ![j] = row]
      BY <2>1, <2>4
    <2> HIDE DEF row
    <2> QED
      BY <2>1, <2>3, <2>5, OneJobChanges
  <1>3. TypeOK'
    BY <1>1, <1>2, TypePartsNext, TypeParts
       DEF CreateJob, RunsOK, LeaseOK, PubOK, ProcOK
  <1>4. jobs[j].latest = 0 /\ jobs'[j].latest = 0 /\ jobs'[j].status = "queued"
    BY DEF CreateJob, AttemptHistory, TypeOK
  <1>5. \A i \in Jobs : i # j => jobs'[i] = jobs[i]
    BY DEF CreateJob, TypeOK
  <1>6. \A t \in DOMAIN runs : runs[t].job \in Jobs /\ runs[t].job # j
    BY <1>4, RunFacts DEF AttemptHistory, Run
  <1>7. \A i \in Jobs : i # j => (StatusMatches(i) <=> StatusMatches(i)')
    BY <1>5 DEF StatusMatches, CreateJob
  <1>8. AttemptHistory'
    BY <1>4, <1>5, <1>6, <1>7 DEF AttemptHistory, CreateJob
  <1>9. LeaseGuardsNewestRun'
    BY DEF CreateJob, LeaseGuardsNewestRun, TokensOf, SourceOf
  <1> QED
    BY <1>3, <1>8, <1>9

LEMMA RetryJobNowStep ==
    ASSUME IInv, NEW j \in Jobs, RetryJobNow(j)
    PROVE  IInv'
  <1> USE DEF IInv
  <1>1. JobsOK' /\ \A i \in Jobs : /\ jobs'[i].status = jobs[i].status
                                   /\ jobs'[i].latest = jobs[i].latest
    <2> DEFINE row == [status |-> jobs[j].status, wait |-> 0, latest |-> jobs[j].latest]
    <2>1. JobsOK /\ jobs' = [jobs EXCEPT ![j].wait = 0] /\ runs' = runs
      BY TypeParts DEF RetryJobNow
    <2>2. /\ jobs[j].status \in JobStatus /\ jobs[j].latest \in Nat
          /\ jobs[j].latest \in 0..Len(runs)
          /\ jobs[j] = [status |-> jobs[j].status, wait |-> jobs[j].wait,
                        latest |-> jobs[j].latest]
      BY <2>1, JobFacts
    <2>3. row \in [status : JobStatus, wait : Nat, latest : Nat]
          /\ row.latest \in 0..Len(runs')
      BY <2>1, <2>2
    <2>4. [jobs[j] EXCEPT !.wait = 0] = row
      BY <2>2
    <2>5. jobs' = [jobs EXCEPT ![j] = row]
      BY <2>1, <2>4
    <2>6. row.status = jobs[j].status /\ row.latest = jobs[j].latest
      OBVIOUS
    <2> HIDE DEF row
    <2>7. JobsOK' /\ jobs'[j] = row /\ \A i \in Jobs : i # j => jobs'[i] = jobs[i]
      BY <2>1, <2>3, <2>5, OneJobChanges
    <2> QED
      BY <2>6, <2>7
  <1>2. TypeOK'
    BY <1>1, TypePartsNext, TypeParts
       DEF RetryJobNow, RunsOK, LeaseOK, PubOK, ProcOK, SignalOK
  <1>3. AttemptHistory' /\ LeaseGuardsNewestRun'
    BY <1>1, SameHistory DEF RetryJobNow
  <1> QED
    BY <1>2, <1>3

LEMMA HeartbeatStep ==
    ASSUME IInv, NEW w \in Workers, NEW lag \in Lags, Heartbeat(w, lag)
    PROVE  IInv'
  <1> USE DEF IInv
  <1> DEFINE t == proc[w].token
             s == SourceOf(t)
  <1>1. t \in DOMAIN runs /\ runs[t] \in Run /\ lag \in Nat /\ LeaseTTL \in Nat
    <2>1. proc[w].pc = "executing"
      BY DEF Heartbeat
    <2>2. t \in DOMAIN runs
      BY <2>1, TypeParts DEF ProcOK
    <2> QED
      BY <2>2, RunFacts, ConstantFacts DEF Lags
  <1>2. s \in Sources
    BY <1>1, ConstantFacts DEF Run, SourceOf
  <1> HIDE DEF t, s
  <1>3. runs' = [runs EXCEPT ![t].age = lag] /\ runs \in [DOMAIN runs -> Run]
    BY RunFacts, LenProperties DEF Heartbeat, t, TypeOK
  <1>4. [runs[t] EXCEPT !.age = lag] \in Run
    BY <1>1 DEF Run
  <1>5. runs' \in [DOMAIN runs -> Run]
    BY <1>1, <1>3, <1>4
  <1>6. RunsOK' /\ Len(runs') = Len(runs) /\ DOMAIN runs' = DOMAIN runs
    BY <1>5, RunTable DEF RunsOK, TypeOK
  <1>7. lease' = [lease EXCEPT ![s].left = LeaseTTL - lag]
    BY DEF Heartbeat, s, t
  <1>8. LeaseOK' /\ \A x \in Sources : lease'[x].token = lease[x].token
    <2> DEFINE row == [token |-> lease[s].token, left |-> LeaseTTL - lag]
    <2>1. LeaseOK
      BY TypeParts
    <2>2. /\ lease[s].token \in Nat /\ lease[s].token \in 0..Len(runs)
          /\ lease[s] = [token |-> lease[s].token, left |-> lease[s].left]
      BY <1>2, <2>1 DEF LeaseOK
    <2>3. row \in [token : Nat, left : Int] /\ row.token = lease[s].token
          /\ row.token \in 0..Len(runs')
      BY <1>1, <1>6, <2>2
    <2>4. [lease[s] EXCEPT !.left = LeaseTTL - lag] = row
      BY <2>2
    <2> HIDE DEF row
    <2>5. lease' = [lease EXCEPT ![s] = row]
      BY <1>7, <2>4
    <2>6. LeaseOK' /\ lease'[s] = row /\ \A x \in Sources : x # s => lease'[x] = lease[x]
      BY <1>2, <1>6, <2>1, <2>3, <2>5, OneLeaseChanges
    <2> QED
      BY <2>3, <2>6
  <1>9. TypeOK'
    BY <1>6, <1>8, SameLength, TypePartsNext, TypeParts DEF Heartbeat, SignalOK
  <1>10. \A u \in DOMAIN runs : /\ runs'[u].job = runs[u].job
                                /\ runs'[u].attempt = runs[u].attempt
                                /\ runs'[u].status = runs[u].status
                                /\ runs'[u].retryable = runs[u].retryable
    BY <1>1, <1>3, RunFacts DEF Run
  <1>11. UNCHANGED jobs
    BY DEF Heartbeat
  <1>12. AttemptHistory' /\ LeaseGuardsNewestRun'
    BY <1>6, <1>8, <1>10, <1>11, SameHistory
  <1> QED
    BY <1>9, <1>12

LEMMA TickStep ==
    ASSUME IInv, Tick
    PROVE  IInv'
  <1> USE DEF IInv
  <1>1. \A t \in DOMAIN runs : runs'[t] \in Run /\ runs'[t].job = runs[t].job
          /\ runs'[t].attempt = runs[t].attempt /\ runs'[t].status = runs[t].status
          /\ runs'[t].retryable = runs[t].retryable
    <2> SUFFICES ASSUME NEW t \in DOMAIN runs
                 PROVE  runs'[t] \in Run /\ runs'[t].job = runs[t].job
          /\ runs'[t].attempt = runs[t].attempt /\ runs'[t].status = runs[t].status
          /\ runs'[t].retryable = runs[t].retryable
      OBVIOUS
    <2> DEFINE age == Min({runs[t].age + 1, StaleAfter + MaxLag})
               left == Elapse(runs[t].left, -MaxLag)
    <2>1. runs[t] \in Run
      BY RunFacts
    <2>2. age \in Nat
      <3>1. runs[t].age + 1 \in Nat /\ StaleAfter + MaxLag \in Nat
        BY <2>1, ConstantFacts DEF Run
      <3> QED
        BY <3>1, MinOfTwo
    <2>3. left \in Int
      BY <2>1, ConstantFacts DEF Run, Elapse
    <2>4. runs'[t] = IF runs[t].status # "running" THEN runs[t]
                     ELSE [runs[t] EXCEPT !.age = age, !.left = left]
      BY DEF Tick
    <2> HIDE DEF age, left
    <2>5. CASE runs[t].status # "running"
      BY <2>1, <2>4, <2>5
    <2>6. CASE runs[t].status = "running"
      <3>1. runs'[t] = [job |-> runs[t].job, attempt |-> runs[t].attempt,
                        worker |-> runs[t].worker, status |-> runs[t].status,
                        age |-> age, left |-> left, retryable |-> runs[t].retryable]
        BY <2>1, <2>4, <2>6, RunFields
      <3> QED
        BY <2>1, <2>2, <2>3, <3>1 DEF Run
    <2> QED
      BY <2>5, <2>6
  <1>2. runs' \in [DOMAIN runs -> Run]
    BY <1>1 DEF Tick
  <1>3. RunsOK' /\ Len(runs') = Len(runs) /\ DOMAIN runs' = DOMAIN runs
    BY <1>2, RunTable DEF RunsOK, TypeOK
  <1>4. \A n \in Nat : Elapse(n, 0) \in Nat
    BY DEF Elapse
  <1>5. \A n \in Int : Elapse(n, -MaxLag) \in Int
    BY ConstantFacts DEF Elapse
  <1>6. JobsOK' /\ \A j \in Jobs : /\ jobs'[j].status = jobs[j].status
                                   /\ jobs'[j].latest = jobs[j].latest
    <2> DEFINE g == [j \in Jobs |-> [status |-> jobs[j].status,
                                     wait |-> Elapse(jobs[j].wait, 0),
                                     latest |-> jobs[j].latest]]
    <2>1. JobsOK /\ jobs' = [j \in Jobs |-> [jobs[j] EXCEPT !.wait = Elapse(@, 0)]]
      BY TypeParts DEF Tick
    <2>2. ASSUME NEW j \in Jobs
          PROVE  /\ [jobs[j] EXCEPT !.wait = Elapse(@, 0)] = g[j]
                 /\ g[j] \in [status : JobStatus, wait : Nat, latest : Nat]
                 /\ g[j].latest \in 0..Len(runs')
                 /\ g[j].status = jobs[j].status /\ g[j].latest = jobs[j].latest
      <3>1. /\ jobs[j].status \in JobStatus /\ jobs[j].wait \in Nat
            /\ jobs[j].latest \in Nat /\ jobs[j].latest \in 0..Len(runs)
            /\ jobs[j] = [status |-> jobs[j].status, wait |-> jobs[j].wait,
                          latest |-> jobs[j].latest]
        BY <2>1, JobFacts
      <3>2. Elapse(jobs[j].wait, 0) \in Nat
        BY <3>1, <1>4
      <3> QED
        BY <1>3, <3>1, <3>2
    <2>3. jobs' = [j \in Jobs |-> g[j]]
      BY <2>1, <2>2
    <2> HIDE DEF g
    <2>4. JobsOK'
      BY <2>2, <2>3, JobsIntro
    <2>5. \A j \in Jobs : jobs'[j] = g[j]
      BY <2>3
    <2> QED
      BY <2>2, <2>4, <2>5
  <1>7. LeaseOK' /\ \A s \in Sources : lease'[s].token = lease[s].token
    <2>1. LeaseOK
      BY TypeParts
    <2>2. ASSUME NEW s \in Sources
          PROVE  /\ lease'[s] \in [token : Nat, left : Int]
                 /\ lease'[s].token = lease[s].token
                 /\ lease[s].token \in 0..Len(runs)
      <3>1. /\ lease[s].token \in Nat /\ lease[s].left \in Int
            /\ lease[s].token \in 0..Len(runs)
            /\ lease[s] = [token |-> lease[s].token, left |-> lease[s].left]
        BY <2>1 DEF LeaseOK
      <3>2. Elapse(lease[s].left, -MaxLag) \in Int
        BY <1>5, <3>1
      <3>3. lease'[s] = IF lease[s].token = 0 THEN lease[s]
                        ELSE [lease[s] EXCEPT !.left = Elapse(lease[s].left, -MaxLag)]
        BY DEF Tick
      <3> QED
        BY <3>1, <3>2, <3>3
    <2>3. lease' = [s \in Sources |-> lease'[s]]
      BY DEF Tick
    <2> QED
      BY <1>3, <2>2, <2>3 DEF LeaseOK
  <1>8. ProcOK'
    <2>1. ProcOK
      BY TypeParts
    <2>2. ASSUME NEW w \in Workers
          PROVE  /\ proc'[w] \in [pc : {"idle", "claimed", "executing", "failing"},
                                  token : Nat, deadline : Nat, error : Errors]
                 /\ proc'[w].pc = proc[w].pc /\ proc'[w].token = proc[w].token
      <3>1. proc[w] \in [pc : {"idle", "claimed", "executing", "failing"},
                         token : Nat, deadline : Nat, error : Errors]
        BY <2>1 DEF ProcOK
      <3>2. Elapse(proc[w].deadline, 0) \in Nat
        BY <1>4, <3>1
      <3>3. proc'[w] = [proc[w] EXCEPT !.deadline = Elapse(proc[w].deadline, 0)]
        BY DEF Tick
      <3> QED
        BY <3>1, <3>2, <3>3
    <2>3. proc' = [w \in Workers |-> proc'[w]]
      BY DEF Tick
    <2>4. \A w \in Workers : proc[w].pc # "idle" => proc[w].token \in DOMAIN runs
      BY <2>1 DEF ProcOK
    <2> QED
      BY <1>3, <2>2, <2>3, <2>4 DEF ProcOK
  <1>9. TypeOK'
    BY <1>3, <1>6, <1>7, <1>8, SameLength, TypePartsNext DEF Tick, SignalOK, TypeOK
  <1>10. AttemptHistory' /\ LeaseGuardsNewestRun'
    BY <1>1, <1>3, <1>6, <1>7, SameHistory
  <1> QED
    BY <1>9, <1>10

\* A claim: the new run is the newest of its source and the latest of its job.
LEMMA ClaimStep ==
    ASSUME IInv, NEW w \in Workers, NEW j \in Jobs, NEW lag \in Lags,
           Claim(w, j, lag)
    PROVE  IInv'
  <1> USE DEF IInv
  <1> DEFINE n == Len(runs) + 1
             s == JobSource[j]
             new == [job |-> j, attempt |-> AttemptsOf(j) + 1,
                     worker |-> WorkerId[w], status |-> "running", age |-> lag,
                     left |-> Timeout - lag, retryable |-> FALSE]
  <1>1. /\ jobs[j].status \in {"queued", "retry_scheduled"}
        /\ runs' = Append(runs, new)
        /\ lease' = [lease EXCEPT ![s] = [token |-> n, left |-> LeaseTTL - lag]]
        /\ jobs' = [jobs EXCEPT ![j].status = "running", ![j].latest = n]
        /\ UNCHANGED <<pub, signal>>
    BY DEF Claim, Runnable
  <1>2. AttemptsOf(j) \in Nat /\ AttemptsOf(j) + 1 <= MaxAttempts
    <2>1. CASE jobs[j].latest = 0
      BY <2>1, ConstantFacts DEF AttemptsOf
    <2>2. CASE jobs[j].latest # 0
      <3>1. jobs[j].status = "retry_scheduled" /\ StatusMatches(j)
        BY <1>1, <2>2 DEF AttemptHistory
      <3>2. jobs[j].latest \in DOMAIN runs
        BY <2>2, RunFacts DEF TypeOK
      <3>3. runs[jobs[j].latest].attempt \in Nat
        BY <3>2, RunFacts DEF Run
      <3> QED
        BY <2>2, <3>1, <3>3, ConstantFacts DEF StatusMatches, AttemptsOf
    <2> QED
      BY <2>1, <2>2
  <1>3. new \in Run /\ n \in Nat /\ s \in Sources
    BY <1>2, RunFacts, ConstantFacts DEF Run, RunStatus, Lags
  <1>4. /\ runs' \in Seq(Run) /\ Len(runs') = n /\ DOMAIN runs' = 1..n
        /\ runs'[n] = new
        /\ \A t \in DOMAIN runs : runs'[t] = runs[t]
        /\ DOMAIN runs' = DOMAIN runs \cup {n} /\ n \notin DOMAIN runs
        /\ \A t \in DOMAIN runs : t < n
    <2> HIDE DEF new
    <2>1. runs \in Seq(Run) /\ DOMAIN runs = 1..Len(runs) /\ Len(runs) \in Nat
      BY RunFacts DEF TypeOK
    <2>2. /\ runs' \in Seq(Run) /\ Len(runs') = n
          /\ \A t \in 1..Len(runs) : runs'[t] = runs[t]
          /\ runs'[n] = new
      BY <1>1, <1>3, <2>1, AppendProperties
    <2>3. DOMAIN runs' = 1..n
      BY <2>2, LenProperties
    <2> QED
      BY <2>1, <2>2, <2>3
  <1> HIDE DEF new
  <1>5. n = Len(runs) + 1 /\ Len(runs) \in Nat /\ n \in 0..Len(runs')
        /\ \A m \in 0..Len(runs) : m \in 0..Len(runs')
    BY <1>4, RunFacts
  <1> HIDE DEF n, s
  <1>6. /\ JobsOK'
         /\ jobs'[j].latest = n /\ jobs'[j].status = "running"
         /\ \A i \in Jobs : i # j => jobs'[i] = jobs[i]
    <2> DEFINE row == [status |-> "running", wait |-> jobs[j].wait, latest |-> n]
    <2>1. JobsOK
      BY TypeParts
    <2>2. /\ jobs[j].wait \in Nat
          /\ jobs[j] = [status |-> jobs[j].status, wait |-> jobs[j].wait,
                        latest |-> jobs[j].latest]
      BY <2>1, JobFacts
    <2>3. row \in [status : JobStatus, wait : Nat, latest : Nat]
          /\ row.latest = n /\ row.status = "running"
      BY <1>5, <2>2 DEF JobStatus
    <2>4. ASSUME NEW q, q = [jobs[j] EXCEPT !.status = "running", !.latest = n]
          PROVE  q = row
      BY <2>2, <2>4
    <2>5. jobs' = [jobs EXCEPT ![j] = [jobs[j] EXCEPT !.status = "running", !.latest = n]]
      <3>1. jobs \in [Jobs -> [status : JobStatus, wait : Nat, latest : Nat]]
        BY <2>1 DEF JobsOK
      <3> QED
        BY <1>1, <3>1
    <2> HIDE DEF row
    <2>6. jobs' = [jobs EXCEPT ![j] = row]
      BY <2>4, <2>5
    <2>7. JobsOK' /\ jobs'[j] = row /\ \A i \in Jobs : i # j => jobs'[i] = jobs[i]
      BY <1>5, <2>1, <2>3, <2>6, OneJobChanges
    <2> QED
      BY <2>3, <2>7
  <1>7. /\ LeaseOK' /\ lease'[s].token = n
         /\ \A x \in Sources : x # s => lease'[x] = lease[x]
    <2> DEFINE row == [token |-> n, left |-> LeaseTTL - lag]
    <2>1. LeaseOK /\ s \in Sources
      BY <1>3, TypeParts
    <2>2. row \in [token : Nat, left : Int] /\ row.token = n
      BY <1>5, ConstantFacts DEF Lags
    <2>3. lease' = [lease EXCEPT ![s] = row]
      BY <1>1
    <2> HIDE DEF row
    <2>4. LeaseOK' /\ lease'[s] = row /\ \A x \in Sources : x # s => lease'[x] = lease[x]
      BY <1>5, <2>1, <2>2, <2>3, OneLeaseChanges
    <2> QED
      BY <2>2, <2>4
  <1> USE DEF new, n, s
  <1>8. AttemptHistory'
    <2>1. \A t \in DOMAIN runs : runs[t].job = j =>
             /\ runs[t].status \in FailedRunStatus
             /\ runs[t].attempt < AttemptsOf(j) + 1
      <3> SUFFICES ASSUME NEW t \in DOMAIN runs, runs[t].job = j
                   PROVE  /\ runs[t].status \in FailedRunStatus
                          /\ runs[t].attempt < AttemptsOf(j) + 1
        OBVIOUS
      <3>1. t <= jobs[j].latest /\ jobs[j].latest \in DOMAIN runs
        BY RunFacts DEF AttemptHistory, TypeOK
      <3>2. jobs[j].latest # 0 /\ jobs[j].status = "retry_scheduled" /\ StatusMatches(j)
        BY <1>1, <3>1, RunFacts DEF AttemptHistory
      <3>3. runs[jobs[j].latest].job = j /\ AttemptsOf(j) = runs[jobs[j].latest].attempt
        BY <3>2 DEF StatusMatches, AttemptsOf
      <3>4. t # jobs[j].latest => runs[t].attempt < runs[jobs[j].latest].attempt
        BY <3>1, <3>3, RunFacts DEF AttemptHistory
      <3>5. runs[t].status \in FailedRunStatus
        BY <3>2 DEF StatusMatches, AttemptHistory
      <3>6. runs[t].attempt \in Nat /\ runs[jobs[j].latest].attempt \in Nat
        BY <3>1, RunFacts DEF Run
      <3> QED
        BY <3>3, <3>4, <3>5, <3>6
    <2>2. /\ jobs'[j].latest = n /\ jobs'[j].status = "running"
          /\ \A i \in Jobs : i # j => jobs'[i] = jobs[i]
      BY <1>6
    <2>3. \A t \in DOMAIN runs' : /\ runs'[t].attempt <= MaxAttempts
                                  /\ t <= jobs'[runs'[t].job].latest
                                  /\ t # jobs'[runs'[t].job].latest =>
                                       runs'[t].status \in FailedRunStatus
      <3> TAKE t \in DOMAIN runs'
      <3>1. CASE t = n
        BY <3>1, <1>2, <1>3, <1>4, <2>2
      <3>2. CASE t \in DOMAIN runs /\ runs[t].job = j
        BY <3>2, <1>3, <1>4, <2>1, <2>2 DEF AttemptHistory
      <3>3. CASE t \in DOMAIN runs /\ runs[t].job # j
        <4>1. runs'[t] = runs[t] /\ runs[t].job \in Jobs
          BY <3>3, <1>4, RunFacts DEF Run
        <4>2. jobs'[runs[t].job] = jobs[runs[t].job]
          BY <3>3, <4>1, <2>2
        <4>3. /\ runs[t].attempt <= MaxAttempts
              /\ t <= jobs[runs[t].job].latest
              /\ t # jobs[runs[t].job].latest => runs[t].status \in FailedRunStatus
          BY <3>3 DEF AttemptHistory
        <4> QED
          BY <4>1, <4>2, <4>3
      <3> QED
        BY <1>4, <3>1, <3>2, <3>3
    <2>4. \A t, u \in DOMAIN runs' : u < t /\ runs'[u].job = runs'[t].job =>
             runs'[u].attempt < runs'[t].attempt
      <3> SUFFICES ASSUME NEW t \in DOMAIN runs', NEW u \in DOMAIN runs', u < t,
                          runs'[u].job = runs'[t].job
                   PROVE  runs'[u].attempt < runs'[t].attempt
        OBVIOUS
      <3>1. u \in DOMAIN runs
        BY <1>3, <1>4, RunFacts
      <3>2. CASE t = n
        BY <3>1, <3>2, <1>4, <2>1
      <3>3. CASE t \in DOMAIN runs
        BY <3>1, <3>3, <1>4 DEF AttemptHistory
      <3> QED
        BY <1>4, <3>2, <3>3
    <2>5. \A i \in Jobs : /\ jobs'[i].latest = 0 <=> jobs'[i].status \in {"absent", "queued"}
                          /\ jobs'[i].latest # 0 => StatusMatches(i)'
      <3> TAKE i \in Jobs
      <3>1. CASE i = j
        BY <3>1, <2>2, <1>3, <1>4, RunFacts DEF StatusMatches, TerminalJob
      <3>2. CASE i # j
        <4>1. jobs[i].latest # 0 => jobs[i].latest \in DOMAIN runs
          BY RunFacts DEF TypeOK
        <4>2. jobs'[i] = jobs[i] /\ (jobs[i].latest # 0 => runs'[jobs[i].latest] = runs[jobs[i].latest])
          BY <3>2, <4>1, <2>2, <1>4
        <4>3. /\ jobs[i].latest = 0 <=> jobs[i].status \in {"absent", "queued"}
              /\ jobs[i].latest # 0 => StatusMatches(i)
          BY DEF AttemptHistory
        <4> QED
          BY <4>2, <4>3 DEF StatusMatches
      <3> QED
        BY <3>1, <3>2
    <2> QED
      BY <2>3, <2>4, <2>5 DEF AttemptHistory
  <1>9. LeaseGuardsNewestRun'
    <2>1. \A x \in Sources : TokensOf(x)' = IF x = s THEN TokensOf(x) \cup {n}
                                                     ELSE TokensOf(x)
      <3> SUFFICES ASSUME NEW x \in Sources
                   PROVE  TokensOf(x)' = IF x = s THEN TokensOf(x) \cup {n} ELSE TokensOf(x)
        OBVIOUS
      <3> HIDE DEF new, n
      <3>1. TokensOf(x)' = {t \in DOMAIN runs \cup {n} : JobSource[runs'[t].job] = x}
        BY <1>4 DEF TokensOf, SourceOf
      <3>2. JobSource[runs'[n].job] = s
        BY <1>4 DEF new
      <3>3. TokensOf(x) = {t \in DOMAIN runs : JobSource[runs'[t].job] = x}
        BY <1>4 DEF TokensOf, SourceOf
      <3> HIDE DEF s
      <3> QED
        BY <3>1, <3>2, <3>3
    <2>2. lease'[s].token = n /\ \A x \in Sources : x # s => lease'[x] = lease[x]
      BY <1>7
    <2>3. \A x \in Sources : TokensOf(x) \subseteq DOMAIN runs
      BY DEF TokensOf
    <2> HIDE DEF new
    <2>4. runs'[n].status = "running"
      BY <1>4 DEF new
    <2> SUFFICES ASSUME NEW x \in Sources, lease'[x].token # 0
                 PROVE  /\ lease'[x].token \in TokensOf(x)'
                        /\ runs'[lease'[x].token].status = "running"
                        /\ \A t \in TokensOf(x)' : t <= lease'[x].token
      BY DEF LeaseGuardsNewestRun
    <2>5. CASE x = s
      BY <2>1, <2>2, <2>3, <2>4, <2>5, <1>3, <1>4, RunFacts
    <2>6. CASE x # s
      BY <2>1, <2>2, <2>3, <2>6, <1>4 DEF LeaseGuardsNewestRun
    <2> QED
      BY <2>5, <2>6
  <1>10. TypeOK'
    <2> HIDE DEF new, n, s
    <2>1. n = Len(runs) + 1 /\ Len(runs) \in Nat
      BY RunFacts DEF n
    <2>2. JobsOK'
      BY <1>6
    <2>3. LeaseOK'
      BY <1>7
    <2>4. PubOK'
      BY <1>1, <1>4, <2>1 DEF PubOK, TypeOK
    <2>5. ProcOK'
      BY <1>4, <2>1 DEF ProcOK, TypeOK, Claim, IdleProc, n
    <2> QED
      BY <1>1, <1>4, <2>2, <2>3, <2>4, <2>5, TypePartsNext DEF RunsOK, SignalOK, TypeOK
  <1> QED
    BY <1>8, <1>9, <1>10

\* Failures, by the worker or by the sweep: only latest attempts are open, so a
\* job is told the outcome of the attempt that decides its status.
LEMMA RecordFailuresStep ==
    ASSUME IInv, NEW T \in SUBSET DOMAIN runs, NEW e \in Errors,
           RecordFailures(T, e)
    PROVE  /\ JobsOK' /\ RunsOK' /\ LeaseOK' /\ SignalOK' /\ Len(runs') = Len(runs)
           /\ AttemptHistory' /\ LeaseGuardsNewestRun'
  <1> USE DEF IInv
  <1>1. /\ JobsOK' /\ RunsOK' /\ LeaseOK' /\ SignalOK' /\ Len(runs') = Len(runs)
        /\ DOMAIN runs' = DOMAIN runs
    <2>1. \A t \in DOMAIN runs : runs[t].attempt \in 1..MaxAttempts
      BY RunFacts, ConstantFacts DEF AttemptHistory, Run
    <2>2. DOMAIN runs' = DOMAIN runs
      BY DEF RecordFailures
    <2> QED
      BY <2>1, <2>2, RecordFailuresType
  <1>2. \A t \in Open(T) : /\ t \in DOMAIN runs /\ runs[t].status = "running"
                           /\ runs[t].job \in Jobs /\ t = jobs[runs[t].job].latest
    BY RunFacts DEF Open, AttemptHistory, FailedRunStatus, Run
  <1>3. \A t \in DOMAIN runs : /\ runs'[t].job = runs[t].job
                               /\ runs'[t].attempt = runs[t].attempt
                               /\ t \notin Open(T) => runs'[t] = runs[t]
                               /\ t \in Open(T) =>
                                    /\ runs'[t].status \in FailedRunStatus
                                    /\ runs'[t].retryable <=> Allows(e, runs[t].attempt)
    <2> SUFFICES ASSUME NEW t \in DOMAIN runs
                 PROVE  /\ runs'[t].job = runs[t].job
                        /\ runs'[t].attempt = runs[t].attempt
                        /\ t \notin Open(T) => runs'[t] = runs[t]
                        /\ t \in Open(T) =>
                             /\ runs'[t].status \in FailedRunStatus
                             /\ runs'[t].retryable <=> Allows(e, runs[t].attempt)
      OBVIOUS
    <2>1. runs'[t] = IF t \in Open(T) THEN FailedRun(t, e) ELSE runs[t]
      BY DEF RecordFailures
    <2>2. runs[t] \in Run
      BY RunFacts
    <2> DEFINE allowed == Allows(e, runs[t].attempt)
               st == IF e = "timeout" THEN "timed_out" ELSE "failed"
    <2> HIDE DEF allowed, st
    <2>3. FailedRun(t, e) = [runs[t] EXCEPT !.status = st, !.retryable = allowed,
                                            !.age = 0, !.left = 0]
      BY DEF FailedRun, allowed, st
    <2>4. /\ FailedRun(t, e).job = runs[t].job
          /\ FailedRun(t, e).attempt = runs[t].attempt
          /\ FailedRun(t, e).status = st
          /\ FailedRun(t, e).retryable = allowed
      BY <2>2, <2>3, RunFields
    <2>5. st \in FailedRunStatus
      BY DEF st, FailedRunStatus
    <2> QED
      BY <2>1, <2>4, <2>5 DEF allowed
  <1>4. ASSUME NEW j \in Jobs
        PROVE  /\ jobs'[j].latest = jobs[j].latest
               /\ \/ /\ jobs'[j] = jobs[j]
                     /\ \A t \in Open(T) : runs[t].job # j
                  \/ /\ jobs[j].latest \in Open(T)
                     /\ runs[jobs[j].latest].job = j
                     /\ jobs'[j].status = IF Allows(e, runs[jobs[j].latest].attempt)
                                          THEN "retry_scheduled" ELSE "failed"
    <2> DEFINE ofJob == {t \in Open(T) : runs[t].job = j}
    <2>1. CASE ofJob = {}
      BY <2>1 DEF RecordFailures
    <2>2. CASE ofJob # {}
      <3> DEFINE l == jobs[j].latest
      <3>1. (CHOOSE t \in ofJob : TRUE) \in ofJob /\ \A t \in ofJob : t = l
        BY <2>2, <1>2
      <3>2. jobs'[j] = FailedJob(l, e) /\ l \in Open(T) /\ runs[l].job = j
        BY <2>2, <3>1 DEF RecordFailures
      <3>3. jobs[j] \in [status : JobStatus, wait : Nat, latest : Nat]
        BY DEF TypeOK
      <3> QED
        BY <3>2, <3>3 DEF FailedJob
    <2> QED
      BY <2>1, <2>2
  <1>5. AttemptHistory'
    <2>1. \A t \in DOMAIN runs : runs[t].job \in Jobs
      BY RunFacts DEF Run
    <2>2. \A t \in DOMAIN runs' :
             /\ runs'[t].attempt <= MaxAttempts
             /\ t <= jobs'[runs'[t].job].latest
             /\ t # jobs'[runs'[t].job].latest => runs'[t].status \in FailedRunStatus
             /\ \A u \in DOMAIN runs' : u < t /\ runs'[u].job = runs'[t].job =>
                   runs'[u].attempt < runs'[t].attempt
      BY <1>1, <1>3, <1>4, <2>1 DEF AttemptHistory
    <2>3. ASSUME NEW j \in Jobs
          PROVE  /\ jobs'[j].latest = 0 <=> jobs'[j].status \in {"absent", "queued"}
                 /\ jobs'[j].latest # 0 => StatusMatches(j)'
      <3> DEFINE l == jobs[j].latest
      <3>1. CASE jobs'[j] = jobs[j] /\ \A t \in Open(T) : runs[t].job # j
        <4>1. l # 0 => StatusMatches(j) /\ l \in DOMAIN runs
          BY RunFacts DEF AttemptHistory, TypeOK
        <4>2. l # 0 => runs'[l] = runs[l]
          BY <3>1, <4>1, <1>3 DEF StatusMatches
        <4> QED
          BY <3>1, <4>1, <4>2 DEF StatusMatches, AttemptHistory
      <3>2. CASE /\ l \in Open(T) /\ runs[l].job = j
                 /\ jobs'[j].status = IF Allows(e, runs[l].attempt)
                                      THEN "retry_scheduled" ELSE "failed"
        <4>1. l \in DOMAIN runs /\ l # 0 /\ jobs'[j].latest = l
          BY <3>2, <1>2, <1>4, RunFacts
        <4> QED
          BY <3>2, <4>1, <1>3 DEF StatusMatches, TerminalJob, Allows
      <3> QED
        BY <1>4, <3>1, <3>2
    <2> QED
      BY <2>2, <2>3 DEF AttemptHistory
  <1>6. LeaseGuardsNewestRun'
    <2>1. \A s \in Sources : TokensOf(s)' = TokensOf(s)
      BY <1>1, <1>3 DEF TokensOf, SourceOf
    <2>2. \A s \in Sources : lease'[s].token # 0 =>
             lease'[s] = lease[s] /\ lease[s].token \notin Open(T)
      BY DEF RecordFailures, ReleaseLeases, NoLease
    <2> QED
      BY <2>1, <2>2, <1>3 DEF LeaseGuardsNewestRun, TokensOf
  <1> QED
    BY <1>1, <1>5, <1>6

LEMMA SucceededRun ==
    ASSUME NEW r \in Run, NEW q,
           q = [r EXCEPT !.status = "succeeded", !.age = 0, !.left = 0]
    PROVE  q = [job |-> r.job, attempt |-> r.attempt, worker |-> r.worker,
                status |-> "succeeded", age |-> 0, left |-> 0,
                retryable |-> r.retryable]
  BY DEF Run

\* A success closes the open, latest attempt of its job and releases its lease.
LEMMA CompleteSuccessStep ==
    ASSUME IInv, NEW w \in Workers, NEW lag \in Lags, NEW staged \in BOOLEAN,
           CompleteSuccess(w, lag, staged)
    PROVE  IInv'
  <1> USE DEF IInv
  <1> DEFINE t == proc[w].token
             j == runs[t].job
  <1>1. /\ t \in DOMAIN runs /\ runs[t] \in Run /\ j \in Jobs /\ t # 0
        /\ runs[t].status = "running"
    <2>1. proc[w].pc = "executing" /\ runs[t].status = "running"
      BY DEF CompleteSuccess
    <2>2. t \in DOMAIN runs
      BY <2>1 DEF TypeOK
    <2>3. runs[t] \in Run /\ t # 0
      BY <2>2, RunFacts
    <2> QED
      BY <2>1, <2>2, <2>3 DEF Run
  <1>2. t = jobs[j].latest /\ StatusMatches(j)
    <2>1. t # jobs[j].latest => runs[t].status \in FailedRunStatus
      BY <1>1 DEF AttemptHistory
    <2>2. t = jobs[j].latest
      BY <1>1, <2>1 DEF FailedRunStatus
    <2> QED
      BY <1>1, <2>2 DEF AttemptHistory
  <1>3. SourceOf(t) \in Sources
    BY <1>1, ConstantFacts DEF SourceOf
  <1>4. /\ runs' = [runs EXCEPT ![t].status = "succeeded", ![t].age = 0, ![t].left = 0]
        /\ jobs' = [jobs EXCEPT ![j].status = "succeeded", ![j].wait = 0]
        /\ ReleaseLeases({t})
        /\ proc' = [proc EXCEPT ![w] = IdleProc]
    BY DEF CompleteSuccess
  <1>5. SignalOK'
    BY DEF CompleteSuccess, SignalOK, SignalStatus, TypeOK
  <1>6. ASSUME staged PROVE PublishStaging(t)
    BY <1>6 DEF CompleteSuccess
  <1>7. ASSUME ~staged PROVE UNCHANGED pub
    BY <1>7 DEF CompleteSuccess
  <1> HIDE DEF t, j
  <1>8. /\ DOMAIN runs' = DOMAIN runs
        /\ \A u \in DOMAIN runs : u # t => runs'[u] = runs[u]
        /\ runs'[t] = [job |-> runs[t].job, attempt |-> runs[t].attempt,
                       worker |-> runs[t].worker, status |-> "succeeded",
                       age |-> 0, left |-> 0, retryable |-> runs[t].retryable]
    <2>1. runs \in [DOMAIN runs -> Run]
      BY LenProperties DEF TypeOK
    <2>2. runs' = [runs EXCEPT ![t] = [runs[t] EXCEPT !.status = "succeeded",
                                                     !.age = 0, !.left = 0]]
      BY <1>1, <1>4, <2>1
    <2>3. [runs[t] EXCEPT !.status = "succeeded", !.age = 0, !.left = 0] =
             [job |-> runs[t].job, attempt |-> runs[t].attempt,
              worker |-> runs[t].worker, status |-> "succeeded",
              age |-> 0, left |-> 0, retryable |-> runs[t].retryable]
      <3> SUFFICES ASSUME NEW q, q = [runs[t] EXCEPT !.status = "succeeded",
                                                     !.age = 0, !.left = 0]
                   PROVE  q = [job |-> runs[t].job, attempt |-> runs[t].attempt,
                               worker |-> runs[t].worker, status |-> "succeeded",
                               age |-> 0, left |-> 0,
                               retryable |-> runs[t].retryable]
        OBVIOUS
      <3> QED
        BY <1>1, SucceededRun
    <2> QED
      BY <1>1, <2>1, <2>2, <2>3
  <1>9. runs'[t] \in Run
    BY <1>1, <1>8 DEF Run, RunStatus
  <1>10. runs' \in [DOMAIN runs -> Run]
    <2>1. \A u \in DOMAIN runs : runs'[u] \in Run
      BY <1>8, <1>9, RunFacts
    <2>2. runs \in [DOMAIN runs -> Run]
      BY LenProperties DEF TypeOK
    <2>3. runs' = [u \in DOMAIN runs |-> runs'[u]]
      BY <1>4, <2>2
    <2> QED
      BY <2>1, <2>3
  <1>11. RunsOK' /\ Len(runs') = Len(runs)
    BY <1>10, RunTable DEF RunsOK, TypeOK
  <1>12. /\ jobs'[j].status = "succeeded" /\ jobs'[j].latest = t
         /\ \A i \in Jobs : i # j => jobs'[i] = jobs[i]
         /\ JobsOK'
    <2> DEFINE row == [status |-> "succeeded", wait |-> 0, latest |-> jobs[j].latest]
    <2>1. JobsOK
      BY TypeParts
    <2>2. /\ jobs[j].latest \in Nat /\ jobs[j].latest \in 0..Len(runs)
          /\ jobs[j] = [status |-> jobs[j].status, wait |-> jobs[j].wait,
                        latest |-> jobs[j].latest]
      BY <1>1, <2>1, JobFacts
    <2>3. row \in [status : JobStatus, wait : Nat, latest : Nat]
          /\ row.latest \in 0..Len(runs') /\ row.status = "succeeded" /\ row.latest = t
      BY <1>2, <1>11, <2>2 DEF JobStatus
    <2>4. ASSUME NEW q, q = [jobs[j] EXCEPT !.status = "succeeded", !.wait = 0]
          PROVE  q = row
      BY <2>2, <2>4
    <2>5. jobs' = [jobs EXCEPT ![j] = [jobs[j] EXCEPT !.status = "succeeded", !.wait = 0]]
      <3>1. jobs \in [Jobs -> [status : JobStatus, wait : Nat, latest : Nat]]
        BY <2>1 DEF JobsOK
      <3> QED
        BY <1>1, <1>4, <3>1
    <2> HIDE DEF row
    <2>6. jobs' = [jobs EXCEPT ![j] = row]
      BY <2>4, <2>5
    <2>7. JobsOK' /\ jobs'[j] = row /\ \A i \in Jobs : i # j => jobs'[i] = jobs[i]
      BY <1>1, <1>11, <2>1, <2>3, <2>6, OneJobChanges
    <2> QED
      BY <2>3, <2>7
  <1>13. JobsOK'
    BY <1>12
  <1>14. LeaseOK'
    BY <1>4, <1>11, RunFacts DEF LeaseOK, TypeOK, ReleaseLeases, NoLease
  <1>15. PubOK'
    <2>1. CASE staged
      <3> DEFINE s == SourceOf(t)
      <3>1. pub' = [pub EXCEPT ![s] = [active |-> t, rollback |-> pub[s].active,
                      generation |-> pub[s].generation + 1, last |-> t]]
        BY <1>6, <2>1 DEF PublishStaging
      <3>2. t \in Nat /\ t \in 0..Len(runs)
        BY <1>1, RunFacts
      <3>3. pub[s] \in [active : Nat, rollback : Nat, generation : Nat, last : Nat]
        BY <1>3 DEF TypeOK
      <3>6. s \in Sources
        BY <1>3
      <3> HIDE DEF s
      <3> DEFINE row == [active |-> t, rollback |-> pub[s].active,
                         generation |-> pub[s].generation + 1, last |-> t]
      <3>4. row \in [active : Nat, rollback : Nat, generation : Nat, last : Nat]
            /\ row.last \in 0..Len(runs) /\ pub' = [pub EXCEPT ![s] = row]
        BY <3>1, <3>2, <3>3
      <3>5. PubOK
        BY TypeParts
      <3> HIDE DEF row
      <3> QED
        BY <1>11, <3>4, <3>5, <3>6, OnePointerChanges
    <2>2. CASE ~staged
      BY <1>7, <2>2, <1>11 DEF PubOK, TypeOK
    <2> QED
      BY <2>1, <2>2
  <1>16. ProcOK'
    BY <1>4, <1>8 DEF ProcOK, TypeOK, IdleProc, Errors, HandlerErrors
  <1>17. AttemptHistory'
    <2>1. \A u \in DOMAIN runs : /\ runs'[u].job = runs[u].job
                                 /\ runs'[u].attempt = runs[u].attempt
                                 /\ runs[u].job \in Jobs
      BY <1>8, RunFacts DEF Run
    <2>2. \A i \in Jobs : jobs'[i].latest = jobs[i].latest
      BY <1>2, <1>12 DEF j
    <2>3. \A u \in DOMAIN runs' :
             /\ runs'[u].attempt <= MaxAttempts
             /\ u <= jobs'[runs'[u].job].latest
             /\ u # jobs'[runs'[u].job].latest => runs'[u].status \in FailedRunStatus
             /\ \A v \in DOMAIN runs' : v < u /\ runs'[v].job = runs'[u].job =>
                   runs'[v].attempt < runs'[u].attempt
      <3>1. runs[t].job = j /\ t = jobs[j].latest
        BY <1>2 DEF j
      <3> QED
        BY <1>8, <2>1, <2>2, <3>1 DEF AttemptHistory
    <2>4. ASSUME NEW i \in Jobs
          PROVE  /\ jobs'[i].latest = 0 <=> jobs'[i].status \in {"absent", "queued"}
                 /\ jobs'[i].latest # 0 => StatusMatches(i)'
      <3>1. CASE i = j
        BY <3>1, <1>1, <1>8, <1>12 DEF StatusMatches, TerminalJob, j
      <3>2. CASE i # j
        <4>1. jobs'[i] = jobs[i]
          BY <3>2, <1>12
        <4>2. jobs[i].latest # 0 => /\ StatusMatches(i) /\ jobs[i].latest \in DOMAIN runs
                                    /\ jobs[i].latest # t
          <5>1. jobs[i].latest # 0 => StatusMatches(i)
            BY DEF AttemptHistory
          <5>2. jobs[i].latest \in 0..Len(runs)
            BY TypeParts, JobFacts
          <5>3. jobs[i].latest # 0 => jobs[i].latest \in DOMAIN runs
            BY <5>2, RunFacts
          <5>4. jobs[i].latest # 0 => runs[jobs[i].latest].job = i
            BY <5>1 DEF StatusMatches
          <5> QED
            BY <3>2, <5>1, <5>3, <5>4 DEF j
        <4>3. jobs[i].latest = 0 <=> jobs[i].status \in {"absent", "queued"}
          BY DEF AttemptHistory
        <4> QED
          BY <4>1, <4>2, <4>3, <1>8 DEF StatusMatches
      <3> QED
        BY <3>1, <3>2
    <2> QED
      BY <2>3, <2>4 DEF AttemptHistory
  <1>18. LeaseGuardsNewestRun'
    <2>1. \A s \in Sources : TokensOf(s)' = TokensOf(s)
      BY <1>8 DEF TokensOf, SourceOf
    <2>2. \A s \in Sources : lease'[s].token # 0 =>
             lease'[s] = lease[s] /\ lease[s].token # t
      BY <1>4 DEF ReleaseLeases, NoLease
    <2> QED
      BY <2>1, <2>2, <1>8 DEF LeaseGuardsNewestRun, TokensOf
  <1>19. TypeOK'
    BY <1>5, <1>11, <1>13, <1>14, <1>15, <1>16, TypePartsNext
  <1> QED
    BY <1>17, <1>18, <1>19

\* Tables that a step leaves alone stay well-typed.
LEMMA SameTables ==
    ASSUME TypeOK, UNCHANGED runs
    PROVE  /\ UNCHANGED pub => PubOK'
           /\ UNCHANGED signal => SignalOK'
           /\ UNCHANGED proc => ProcOK'
  BY DEF TypeOK, PubOK, SignalOK, ProcOK

\* A rollback moves the pointer and its generation, never the fence.
LEMMA RollbackKeepsFence ==
    ASSUME PubOK, NEW s \in Sources, NEW g \in 1..MaxGeneration,
           RollbackPointer(s, g), runs' = runs
    PROVE  PubOK' /\ \A x \in Sources : pub'[x].last = pub[x].last
  <1> DEFINE row == [active |-> pub[s].rollback, rollback |-> pub[s].active,
                     generation |-> g + 1, last |-> pub[s].last]
  <1>1. pub[s] \in [active : Nat, rollback : Nat, generation : Nat, last : Nat]
        /\ pub[s].last \in 0..Len(runs)
        /\ pub \in [Sources -> [active : Nat, rollback : Nat, generation : Nat, last : Nat]]
    BY DEF PubOK
  <1>2. row \in [active : Nat, rollback : Nat, generation : Nat, last : Nat]
        /\ row.last = pub[s].last
    BY <1>1
  <1> DEFINE a == [pub[s] EXCEPT !.active = pub[s].rollback]
             b == [a EXCEPT !.rollback = pub[s].active]
             c == [b EXCEPT !.generation = g + 1]
  <1>3. a = [active |-> pub[s].rollback, rollback |-> pub[s].rollback,
             generation |-> pub[s].generation, last |-> pub[s].last]
    BY <1>1, SMTT(30)
  <1>4. pub' = [pub EXCEPT ![s] = c]
    BY <1>1 DEF RollbackPointer
  <1>5. c = row
    <2> HIDE DEF a
    <2>1. b = [active |-> pub[s].rollback, rollback |-> pub[s].active,
               generation |-> pub[s].generation, last |-> pub[s].last]
      BY <1>3
    <2> HIDE DEF b
    <2> QED
      BY <2>1
  <1> HIDE DEF row, c
  <1>6. pub' = [pub EXCEPT ![s] = row]
    BY <1>4, <1>5
  <1>7. PubOK'
    BY <1>1, <1>2, <1>6, OnePointerChanges
  <1> QED
    BY <1>1, <1>2, <1>6, <1>7

LEMMA RollbackStep ==
    ASSUME IInv, NEW s \in Sources, NEW g \in 1..MaxGeneration,
           RollbackPointer(s, g)
    PROVE  IInv'
  <1> USE DEF IInv
  <1>1. PubOK /\ runs' = runs
    BY TypeParts DEF RollbackPointer
  <1>2. PubOK' /\ \A x \in Sources : pub'[x].last = pub[x].last
    BY <1>1, RollbackKeepsFence
  <1> QED
    BY <1>2, SameTables, QuietStep DEF RollbackPointer

\* Every step of a process that moves only what it holds in memory.
LEMMA ProcessStep ==
    ASSUME IInv, NEW w \in Workers,
           \/ StartExecution(w)
           \/ \E e \in HandlerErrors : HandlerRaises(w, e)
           \/ DeadlineExceeded(w)
           \/ \E lag \in Lags : LeaseLost(w, lag)
           \/ Crash(w)
    PROVE  IInv'
  <1> USE DEF IInv
  <1>1. UNCHANGED <<jobs, runs, lease, pub, signal>>
    BY DEF StartExecution, HandlerRaises, DeadlineExceeded, LeaseLost, Crash
  <1>2. ASSUME NEW e \in Errors, HandlerRaises(w, e)
        PROVE  ProcOK'
    <2>1. proc[w].pc # "idle"
      BY <1>2 DEF HandlerRaises
    <2> QED
      BY <1>1, <1>2, <2>1 DEF HandlerRaises, ProcOK, TypeOK
  <1>3. ASSUME \/ \E e \in HandlerErrors : HandlerRaises(w, e)
               \/ DeadlineExceeded(w)
               \/ \E lag \in Lags : LeaseLost(w, lag)
        PROVE  ProcOK'
    BY <1>2, <1>3 DEF DeadlineExceeded, LeaseLost, Errors, HandlerErrors
  <1>4. ASSUME StartExecution(w) PROVE ProcOK'
    BY <1>1, <1>4, ConstantFacts, ZenonT(60) DEF StartExecution, ProcOK, TypeOK
  <1>5. ASSUME Crash(w) PROVE ProcOK'
    BY <1>1, <1>5 DEF Crash, ProcOK, TypeOK, IdleProc, Errors, HandlerErrors
  <1>6. ProcOK'
    BY <1>3, <1>4, <1>5
  <1> QED
    BY <1>1, <1>6, SameTables, QuietStep

LEMMA CompleteFailureStep ==
    ASSUME IInv, NEW w \in Workers, CompleteFailure(w)
    PROVE  IInv'
  <1> USE DEF IInv
  <1>1. proc[w].token \in DOMAIN runs /\ proc[w].error \in Errors
    BY DEF CompleteFailure, TypeOK
  <1>2. RecordFailures({proc[w].token}, proc[w].error)
    BY DEF CompleteFailure
  <1>3. /\ JobsOK' /\ RunsOK' /\ LeaseOK' /\ SignalOK' /\ Len(runs') = Len(runs)
        /\ AttemptHistory' /\ LeaseGuardsNewestRun'
    BY <1>1, <1>2, RecordFailuresStep
  <1>4. PubOK'
    BY <1>3, SameLength DEF CompleteFailure
  <1>5. DOMAIN runs' = DOMAIN runs
    BY <1>2 DEF RecordFailures
  <1>6. ProcOK'
    BY <1>5 DEF CompleteFailure, ProcOK, TypeOK, IdleProc, Errors, HandlerErrors
  <1> QED
    BY <1>3, <1>4, <1>6, TypePartsNext

LEMMA RecoverStep ==
    ASSUME IInv, NEW T \in SUBSET DOMAIN runs, RecoverStaleRuns(T)
    PROVE  IInv'
  <1> USE DEF IInv
  <1>1. RecordFailures(T, "timeout") /\ "timeout" \in Errors /\ UNCHANGED <<pub, proc>>
    BY DEF RecoverStaleRuns, Errors, HandlerErrors
  <1>2. /\ JobsOK' /\ RunsOK' /\ LeaseOK' /\ SignalOK' /\ Len(runs') = Len(runs)
        /\ AttemptHistory' /\ LeaseGuardsNewestRun'
    BY <1>1, RecordFailuresStep
  <1> QED
    BY <1>1, <1>2, SameLength, TypePartsNext

LEMMA ExecuteStep ==
    ASSUME IInv, NEW w \in Workers, Execute(w)
    PROVE  IInv'
  <1>1. ASSUME NEW lag \in Lags, Heartbeat(w, lag) PROVE IInv'
    BY <1>1, HeartbeatStep
  <1>2. ASSUME NEW lag \in Lags, NEW staged \in BOOLEAN,
               CompleteSuccess(w, lag, staged)
        PROVE  IInv'
    BY <1>2, CompleteSuccessStep
  <1>3. ASSUME CompleteFailure(w) PROVE IInv'
    BY <1>3, CompleteFailureStep
  <1>4. ASSUME \/ StartExecution(w)
               \/ \E e \in HandlerErrors : HandlerRaises(w, e)
               \/ DeadlineExceeded(w)
               \/ \E lag \in Lags : LeaseLost(w, lag)
               \/ Crash(w)
        PROVE  IInv'
    BY <1>4, ProcessStep
  <1> QED
    BY <1>1, <1>2, <1>3, <1>4 DEF Execute

LEMMA NextIInv == IInv /\ [Next]_vars => IInv'
  <1> SUFFICES ASSUME IInv, [Next]_vars PROVE IInv'
    OBVIOUS
  <1>1. ASSUME NEW j \in Jobs, CreateJob(j) PROVE IInv'
    BY <1>1, CreateJobStep
  <1>2. ASSUME NEW j \in Jobs, RetryJobNow(j) PROVE IInv'
    BY <1>2, RetryJobNowStep
  <1>3. ASSUME NEW x \in Signals, ResetFailedSignal(x) PROVE IInv'
    <2>1. SignalOK'
      BY <1>3 DEF IInv, TypeOK, ResetFailedSignal, SignalOK, SignalStatus
    <2>2. UNCHANGED <<jobs, runs, lease, pub, proc>>
      BY <1>3 DEF ResetFailedSignal
    <2> QED
      BY <2>1, <2>2, SameTables, QuietStep DEF IInv
  <1>4. ASSUME NEW s \in Sources, NEW g \in 1..MaxGeneration,
               RollbackPointer(s, g)
        PROVE  IInv'
    BY <1>4, RollbackStep
  <1>5. ASSUME NEW w \in Workers, NEW j \in Jobs, NEW lag \in Lags,
               Claim(w, j, lag)
        PROVE  IInv'
    BY <1>5, ClaimStep
  <1>6. ASSUME NEW w \in Workers, Execute(w) PROVE IInv'
    BY <1>6, ExecuteStep
  <1>7. ASSUME NEW T \in SUBSET DOMAIN runs, RecoverStaleRuns(T) PROVE IInv'
    BY <1>7, RecoverStep
  <1>8. ASSUME Tick PROVE IInv'
    BY <1>8, TickStep
  <1>9. CASE UNCHANGED vars
    <2>1. UNCHANGED <<jobs, runs, lease, pub, signal, proc>>
      BY <1>9 DEF vars
    <2> QED
      BY <2>1, SameTables, QuietStep DEF IInv
  <1> QED
    BY <1>1, <1>2, <1>3, <1>4, <1>5, <1>6, <1>7, <1>8, <1>9 DEF Next

-----------------------------------------------------------------------------
(* Theorems.                                                               *)

THEOREM Inductive == Spec => []IInv
  BY InitIInv, NextIInv, PTL DEF Spec

\* The tables of the worker foundation and what its processes hold stay
\* well-formed.
THEOREM TypeCorrectness == Spec => []TypeOK
  <1>1. IInv => TypeOK
    BY DEF IInv
  <1> QED
    BY <1>1, Inductive, PTL

\* A lease row always belongs to an open run, the newest of its source.
THEOREM LeaseSafety == Spec => []LeaseGuardsNewestRun
  <1>1. IInv => LeaseGuardsNewestRun
    BY DEF IInv
  <1> QED
    BY <1>1, Inductive, PTL

\* The attempts of a job and its status always tell the same story.
THEOREM HistorySafety ==
    Spec => [](AttemptHistory /\ JobRunAgreement)
  <1>1. IInv => AttemptHistory /\ JobRunAgreement
    <2> SUFFICES ASSUME IInv PROVE JobRunAgreement
      BY DEF IInv
    <2> USE DEF IInv
    <2>1. ASSUME NEW t \in DOMAIN runs, runs[t].status = "running"
          PROVE  /\ jobs[runs[t].job].status = "running"
                 /\ jobs[runs[t].job].latest = t
      <3>1. t # 0 /\ runs[t].job \in Jobs
        BY RunFacts DEF Run
      <3>2. t = jobs[runs[t].job].latest
        BY <2>1 DEF AttemptHistory, FailedRunStatus
      <3>3. StatusMatches(runs[t].job)
        BY <3>1, <3>2 DEF AttemptHistory
      <3> QED
        BY <2>1, <3>2, <3>3 DEF StatusMatches, FailedRunStatus, TerminalJob
    <2>2. ASSUME NEW j \in Jobs, jobs[j].status = "running"
          PROVE  /\ jobs[j].latest \in DOMAIN runs
                 /\ runs[jobs[j].latest].job = j
                 /\ runs[jobs[j].latest].status = "running"
      <3>1. jobs[j].latest # 0
        BY <2>2 DEF AttemptHistory
      <3>2. StatusMatches(j) /\ jobs[j].latest \in DOMAIN runs
        BY <3>1, RunFacts DEF AttemptHistory, TypeOK
      <3> QED
        BY <2>2, <3>2 DEF StatusMatches
    <2> QED
      BY <2>1, <2>2 DEF JobRunAgreement
  <1> QED
    BY <1>1, Inductive, PTL

\* The consequences of the history that an operator relies on.
LEMMA HistoryConsequences ==
    ASSUME IInv
    PROVE  OneSuccessPerJob /\ AttemptsBounded /\ RetryFollowsPolicy
  <1> USE DEF IInv
  <1>1. AttemptsBounded
    BY DEF AttemptsBounded, AttemptHistory
  <1>2. OneSuccessPerJob
    <2> SUFFICES ASSUME NEW t \in DOMAIN runs, runs[t].status = "succeeded"
                 PROVE  /\ jobs[runs[t].job].status = "succeeded"
                        /\ jobs[runs[t].job].latest = t
      BY DEF OneSuccessPerJob
    <2>1. t # 0 /\ runs[t].job \in Jobs
      BY RunFacts DEF Run
    <2>2. t = jobs[runs[t].job].latest
      BY DEF AttemptHistory, FailedRunStatus
    <2>3. StatusMatches(runs[t].job)
      BY <2>1, <2>2 DEF AttemptHistory
    <2> QED
      BY <2>2, <2>3 DEF StatusMatches, FailedRunStatus, TerminalJob
  <1>3. RetryFollowsPolicy
    BY DEF RetryFollowsPolicy, AttemptHistory, StatusMatches
  <1> QED
    BY <1>1, <1>2, <1>3

\* At most one attempt of a job succeeds, and it is the last
\* (complete_run_success under the lock of the run).
THEOREM OneSuccess == Spec => []OneSuccessPerJob
  <1>1. IInv => OneSuccessPerJob
    BY HistoryConsequences
  <1> QED
    BY <1>1, Inductive, PTL

\* Attempts are numbered in the order of their tokens and bounded by
\* max_attempts (claim_next_job, complete_run_failure).
THEOREM AttemptsStayBounded == Spec => []AttemptsBounded
  <1>1. IInv => AttemptsBounded
    BY HistoryConsequences
  <1> QED
    BY <1>1, Inductive, PTL

\* A job waits for a retry exactly when the policy granted one
\* (complete_run_failure, retry_job_now).
THEOREM RetrySafety == Spec => []RetryFollowsPolicy
  <1>1. IInv => RetryFollowsPolicy
    BY HistoryConsequences
  <1> QED
    BY <1>1, Inductive, PTL

\* Only a completion moves the fence of a pointer, and it holds the lease of
\* the newest run.
LEMMA PublishersHoldNewestLease ==
    ASSUME IInv, NEW w \in Workers, NEW lag \in Lags, NEW staged \in BOOLEAN,
           CompleteSuccess(w, lag, staged), NEW s \in Sources,
           pub'[s].last # pub[s].last
    PROVE  /\ pub'[s].last > pub[s].last
           /\ \A t \in TokensOf(s) : t <= pub'[s].last
  <1> USE DEF IInv
  <1> DEFINE u == proc[w].token
  <1>1. staged /\ pub[SourceOf(u)].last <= u /\ PublishStaging(u)
    BY DEF CompleteSuccess
  <1>2. pub[s] \in [active : Nat, rollback : Nat, generation : Nat, last : Nat]
        /\ pub \in [Sources -> [active : Nat, rollback : Nat, generation : Nat, last : Nat]]
    <2>1. PubOK
      BY TypeParts
    <2> QED
      BY <2>1 DEF PubOK
  <1>3. s = SourceOf(u) /\ pub'[s].last = u
    <2> DEFINE row == [active |-> u, rollback |-> pub[SourceOf(u)].active,
                       generation |-> pub[SourceOf(u)].generation + 1, last |-> u]
    <2>1. pub' = [pub EXCEPT ![SourceOf(u)] = row]
      BY <1>1 DEF PublishStaging
    <2>2. row.last = u
      OBVIOUS
    <2> HIDE DEF row
    <2>3. s = SourceOf(u)
      BY <1>2, <2>1
    <2> QED
      BY <1>2, <2>1, <2>2, <2>3
  <1>4. u \in DOMAIN runs /\ u \in Nat \ {0} /\ lease[s].token = u
    <2>1. proc[w].pc = "executing" /\ LeaseValid(u, lag)
      BY DEF CompleteSuccess
    <2>2. u \in DOMAIN runs
      BY <2>1, TypeParts DEF ProcOK
    <2>3. lease[s].token = u
      BY <1>3, <2>1 DEF LeaseValid
    <2> QED
      BY <2>2, <2>3, RunFacts
  <1>5. \A t \in TokensOf(s) : t <= u
    BY <1>4 DEF LeaseGuardsNewestRun
  <1>6. pub[s].last \in Nat /\ pub[s].last <= u /\ pub[s].last # u
    BY <1>1, <1>2, <1>3
  <1> QED
    BY <1>3, <1>4, <1>5, <1>6

\* A process that was superseded, by a restart or by the sweep, never moves the
\* publication of its source.
THEOREM Fencing == Spec => FencedPublication
  <1> DEFINE Fenced == \A s \in Sources : pub'[s].last # pub[s].last =>
                          /\ pub'[s].last > pub[s].last
                          /\ \A t \in TokensOf(s) : t <= pub'[s].last
  <1>1. ASSUME IInv, [Next]_vars PROVE Fenced
    <2>1. ASSUME NEW w \in Workers, NEW lag \in Lags, NEW staged \in BOOLEAN,
                 CompleteSuccess(w, lag, staged)
          PROVE  Fenced
      BY <1>1, <2>1, PublishersHoldNewestLease
    <2>2. ASSUME NEW s \in Sources, NEW g \in 1..MaxGeneration,
                 RollbackPointer(s, g)
          PROVE  Fenced
      <3>1. PubOK /\ runs' = runs
        BY <1>1, <2>2, TypeParts DEF RollbackPointer, IInv
      <3> QED
        BY <2>2, <3>1, RollbackKeepsFence
    <2>3. CASE UNCHANGED pub
      BY <2>3
    <2>4. ASSUME NEW w \in Workers, Execute(w) PROVE Fenced
      <3>1. \/ \E lag \in Lags, staged \in BOOLEAN : CompleteSuccess(w, lag, staged)
            \/ UNCHANGED pub
        BY <2>4 DEF Execute, StartExecution, Heartbeat, HandlerRaises,
                    DeadlineExceeded, LeaseLost, CompleteFailure, Crash
      <3> QED
        BY <2>1, <2>3, <3>1
    <2>5. \/ \E s \in Sources, g \in 1..MaxGeneration : RollbackPointer(s, g)
          \/ \E w \in Workers : Execute(w)
          \/ UNCHANGED pub
      BY <1>1 DEF Next, vars, CreateJob, RetryJobNow, ResetFailedSignal, Claim,
                  RecoverStaleRuns, Tick
    <2> QED
      BY <2>2, <2>3, <2>4, <2>5
  <1> QED
    BY <1>1, Inductive, PTL DEF Spec, FencedPublication

-----------------------------------------------------------------------------
(* What has ended stays as it ended.                                       *)

\* A job that has ended waits for nothing.
SettledWait == \A j \in Jobs : jobs[j].status \in TerminalJob => jobs[j].wait = 0

\* What every step keeps of the runs, and of the jobs that have ended.
RunsStay ==
    /\ DOMAIN runs \subseteq DOMAIN runs'
    /\ \A t \in DOMAIN runs : /\ runs'[t].job = runs[t].job
                              /\ runs[t].status # "running" => runs'[t] = runs[t]
JobsStay == \A j \in Jobs : jobs[j].status \in TerminalJob => jobs'[j] = jobs[j]

\* A run that is open belongs to a job that is running.
LEMMA OpenRunFacts ==
    ASSUME IInv, NEW t \in DOMAIN runs, runs[t].status = "running"
    PROVE  runs[t].job \in Jobs /\ jobs[runs[t].job].status = "running"
  <1> USE DEF IInv
  <1>1. t # 0 /\ runs[t].job \in Jobs
    BY RunFacts DEF Run
  <1>2. t = jobs[runs[t].job].latest
    BY DEF AttemptHistory, FailedRunStatus
  <1>3. StatusMatches(runs[t].job)
    BY <1>1, <1>2 DEF AttemptHistory
  <1> QED
    BY <1>1, <1>2, <1>3 DEF StatusMatches, FailedRunStatus, TerminalJob

LEMMA FailuresStay ==
    ASSUME IInv, SettledWait, ScheduledSignalHasLiveJob,
           NEW T \in SUBSET DOMAIN runs, NEW e \in Errors, RecordFailures(T, e)
    PROVE  RunsStay /\ JobsStay /\ SettledWait' /\ ScheduledSignalHasLiveJob'
  <1> USE DEF IInv
  <1> DEFINE ofJob(j) == {t \in Open(T) : runs[t].job = j}
             chosen(j) == CHOOSE t \in ofJob(j) : TRUE
  <1>1. \A j \in Jobs : ofJob(j) # {} =>
          /\ chosen(j) \in Open(T) /\ runs[chosen(j)].job = j
          /\ chosen(j) \in DOMAIN runs /\ jobs[j].status = "running"
    BY OpenRunFacts DEF Open
  <1>2. \A j \in Jobs : jobs'[j] = IF ofJob(j) = {} THEN jobs[j]
                                   ELSE FailedJob(chosen(j), e)
    BY DEF RecordFailures
  <1>3. \A t \in DOMAIN runs : runs'[t] = IF t \in Open(T) THEN FailedRun(t, e) ELSE runs[t]
    BY DEF RecordFailures
  <1>4. RunsStay
    <2>1. \A t \in DOMAIN runs : FailedRun(t, e).job = runs[t].job
      BY RunFacts DEF FailedRun, Run
    <2>2. DOMAIN runs' = DOMAIN runs
      BY DEF RecordFailures
    <2> QED
      BY <1>3, <2>1, <2>2 DEF RunsStay, Open
  <1>5. \A j \in Jobs : ofJob(j) # {} =>
          \/ jobs'[j].status = "retry_scheduled" /\ Allows(e, runs[chosen(j)].attempt)
          \/ jobs'[j].status = "failed" /\ jobs'[j].wait = 0
               /\ ~Allows(e, runs[chosen(j)].attempt)
    <2> SUFFICES ASSUME NEW j \in Jobs, ofJob(j) # {}
                 PROVE \/ jobs'[j].status = "retry_scheduled"
                            /\ Allows(e, runs[chosen(j)].attempt)
                       \/ jobs'[j].status = "failed" /\ jobs'[j].wait = 0
                            /\ ~Allows(e, runs[chosen(j)].attempt)
      OBVIOUS
    <2>1. jobs[j] \in [status : JobStatus, wait : Nat, latest : Nat]
      BY DEF TypeOK
    <2>2. jobs'[j] = FailedJob(chosen(j), e) /\ runs[chosen(j)].job = j
      BY <1>1, <1>2
    <2> HIDE DEF chosen
    <2>3. CASE Allows(e, runs[chosen(j)].attempt)
      BY <2>1, <2>2, <2>3 DEF FailedJob
    <2>4. CASE ~Allows(e, runs[chosen(j)].attempt)
      BY <2>1, <2>2, <2>4 DEF FailedJob
    <2> QED
      BY <2>3, <2>4
  <1> HIDE DEF ofJob, chosen
  <1>6. JobsStay
    BY <1>1, <1>2 DEF JobsStay, TerminalJob
  <1>7. SettledWait'
    BY <1>2, <1>5 DEF SettledWait, TerminalJob
  <1>8. ScheduledSignalHasLiveJob'
    <2> SUFFICES ASSUME NEW x \in Signals, signal'[x] = "scheduled"
                 PROVE  \E j \in Jobs : /\ x \in JobSignals[j]
                                        /\ jobs'[j].status \notin TerminalJob \cup {"absent"}
      BY DEF ScheduledSignalHasLiveJob
    <2>1. signal[x] = "scheduled"
          /\ ~ \E t \in Open(T) : ~Allows(e, runs[t].attempt) /\ x \in JobSignals[runs[t].job]
      BY DEF RecordFailures, FailSignals
    <2>2. PICK j \in Jobs : /\ x \in JobSignals[j]
                            /\ jobs[j].status \notin TerminalJob \cup {"absent"}
      BY <2>1 DEF ScheduledSignalHasLiveJob
    <2>3. CASE ofJob(j) = {}
      BY <1>2, <2>2, <2>3
    <2>4. CASE ofJob(j) # {}
      BY <1>1, <1>5, <2>1, <2>2, <2>4 DEF TerminalJob
    <2> QED
      BY <2>3, <2>4
  <1> QED
    BY <1>4, <1>6, <1>7, <1>8

LEMMA SuccessStays ==
    ASSUME IInv, SettledWait, ScheduledSignalHasLiveJob, NEW w \in Workers,
           NEW lag \in Lags, NEW staged \in BOOLEAN, CompleteSuccess(w, lag, staged)
    PROVE  /\ RunsStay /\ JobsStay /\ SettledWait' /\ ScheduledSignalHasLiveJob'
           /\ proc[w].token \in DOMAIN runs /\ runs'[proc[w].token].status = "succeeded"
  <1> USE DEF IInv
  <1> DEFINE t == proc[w].token
             k == runs[t].job
  <1>1. t \in DOMAIN runs /\ runs[t].status = "running"
    BY DEF CompleteSuccess, TypeOK
  <1>2. k \in Jobs /\ jobs[k].status = "running"
    BY <1>1, OpenRunFacts
  <1>3. runs[t] \in Run
    BY <1>1, RunFacts
  <1>4. /\ runs' = [runs EXCEPT ![t].status = "succeeded", ![t].age = 0, ![t].left = 0]
        /\ jobs' = [jobs EXCEPT ![k].status = "succeeded", ![k].wait = 0]
        /\ signal' = [x \in Signals |->
              IF x \in JobSignals[k] THEN "complete" ELSE signal[x]]
    BY DEF CompleteSuccess
  <1> HIDE DEF t, k
  <1>5. DOMAIN runs' = DOMAIN runs /\ (\A u \in DOMAIN runs : u # t => runs'[u] = runs[u])
        /\ runs'[t].status = "succeeded" /\ runs'[t].job = runs[t].job
    BY <1>1, <1>3, <1>4 DEF Run
  <1>6. RunsStay
    BY <1>1, <1>5 DEF RunsStay
  <1>7. \A j \in Jobs : j # k => jobs'[j] = jobs[j]
    BY <1>4 DEF TypeOK
  <1>8. jobs'[k].status = "succeeded" /\ jobs'[k].wait = 0
    <2>1. jobs[k] \in [status : JobStatus, wait : Nat, latest : Nat]
      BY <1>2 DEF TypeOK
    <2> QED
      BY <1>2, <1>4, <2>1 DEF TypeOK
  <1>9. JobsStay /\ SettledWait'
    BY <1>2, <1>7, <1>8 DEF JobsStay, SettledWait, TerminalJob
  <1>10. ScheduledSignalHasLiveJob'
    BY <1>4, <1>7 DEF ScheduledSignalHasLiveJob
  <1> QED
    BY <1>1, <1>5, <1>6, <1>9, <1>10 DEF t

\* A step that moves no pointer keeps what the pointers name.
LEMMA PointersKept ==
    ASSUME IInv, PointersNameSuccesses, RunsStay, UNCHANGED pub
    PROVE  PointersNameSuccesses'
  BY DEF PointersNameSuccesses, RunsStay, TokensOf, SourceOf

\* The inductive strengthening: nothing that has ended waits.
EndedInv == /\ IInv /\ SettledWait
            /\ PointersNameSuccesses /\ ScheduledSignalHasLiveJob

LEMMA EndedStep ==
    ASSUME EndedInv, [Next]_vars
    PROVE  /\ RunsStay /\ JobsStay /\ SettledWait'
           /\ PointersNameSuccesses' /\ ScheduledSignalHasLiveJob'
  <1> USE DEF EndedInv
  <1> DEFINE Goal == /\ RunsStay /\ JobsStay /\ SettledWait'
                     /\ PointersNameSuccesses' /\ ScheduledSignalHasLiveJob'
  <1>0. IInv => \A j \in Jobs : jobs[j] \in [status : JobStatus, wait : Nat, latest : Nat]
    BY DEF IInv, TypeOK
  <1>1. ASSUME UNCHANGED <<jobs, runs, pub>>,
               \A x \in Signals : signal'[x] = "scheduled" => signal[x] = "scheduled"
        PROVE  Goal
    <2>1. RunsStay /\ JobsStay /\ SettledWait' /\ ScheduledSignalHasLiveJob'
      BY <1>1 DEF RunsStay, JobsStay, SettledWait, ScheduledSignalHasLiveJob
    <2> QED
      BY <1>1, <2>1, PointersKept
  <1>2. ASSUME NEW k \in Jobs, CreateJob(k) PROVE Goal
    <2>1. \A j \in Jobs : j # k => jobs'[j] = jobs[j]
      BY <1>2 DEF CreateJob, IInv, TypeOK
    <2>2. jobs[k].status = "absent" /\ jobs'[k].status = "queued"
      BY <1>0, <1>2 DEF CreateJob, IInv, TypeOK
    <2>3. RunsStay /\ JobsStay /\ SettledWait'
      BY <1>2, <2>1, <2>2 DEF CreateJob, RunsStay, JobsStay, SettledWait, TerminalJob
    <2>4. ScheduledSignalHasLiveJob'
      <3> SUFFICES ASSUME NEW x \in Signals, signal'[x] = "scheduled"
                   PROVE  \E j \in Jobs : /\ x \in JobSignals[j]
                                          /\ jobs'[j].status \notin TerminalJob \cup {"absent"}
        BY DEF ScheduledSignalHasLiveJob
      <3>1. CASE x \in JobSignals[k]
        BY <2>2, <3>1 DEF TerminalJob
      <3>2. CASE x \notin JobSignals[k]
        <4>1. signal[x] = "scheduled"
          BY <1>2, <3>2 DEF CreateJob
        <4>2. PICK j \in Jobs : x \in JobSignals[j]
                                /\ jobs[j].status \notin TerminalJob \cup {"absent"}
          BY <4>1 DEF ScheduledSignalHasLiveJob
        <4> QED
          BY <2>1, <3>2, <4>2
      <3> QED
        BY <3>1, <3>2
    <2> QED
      BY <1>2, <2>3, <2>4, PointersKept DEF CreateJob
  <1>3. ASSUME NEW k \in Jobs, RetryJobNow(k) PROVE Goal
    <2>1. \A j \in Jobs : j # k => jobs'[j] = jobs[j]
      BY <1>3 DEF RetryJobNow, IInv, TypeOK
    <2>2. jobs[k].status = "retry_scheduled" /\ jobs'[k].status = "retry_scheduled"
      BY <1>0, <1>3 DEF RetryJobNow, IInv, TypeOK
    <2>3. RunsStay /\ JobsStay /\ SettledWait' /\ ScheduledSignalHasLiveJob'
      BY <1>3, <2>1, <2>2 DEF RetryJobNow, RunsStay, JobsStay, SettledWait,
         ScheduledSignalHasLiveJob, TerminalJob
    <2> QED
      BY <1>3, <2>3, PointersKept DEF RetryJobNow
  <1>4. ASSUME NEW x \in Signals, ResetFailedSignal(x) PROVE Goal
    BY <1>1, <1>4 DEF ResetFailedSignal, IInv, TypeOK
  <1>5. ASSUME NEW s \in Sources, NEW g \in 1..MaxGeneration, RollbackPointer(s, g)
        PROVE  Goal
    <2>1. RunsStay /\ JobsStay /\ SettledWait' /\ ScheduledSignalHasLiveJob'
      BY <1>5 DEF RollbackPointer, RunsStay, JobsStay, SettledWait,
         ScheduledSignalHasLiveJob
    <2>2. pub[s] \in [active : Nat, rollback : Nat, generation : Nat, last : Nat]
          /\ \A x \in Sources : x # s => pub'[x] = pub[x]
      BY <1>5 DEF RollbackPointer, IInv, TypeOK
    <2>3. pub'[s].active = pub[s].rollback /\ pub'[s].rollback = pub[s].active
      BY <1>5, <2>2 DEF RollbackPointer, IInv, TypeOK
    <2>4. \A x \in Sources :
            {pub'[x].active, pub'[x].rollback} = {pub[x].active, pub[x].rollback}
      BY <2>2, <2>3
    <2>5. \A x \in Sources : TokensOf(x)' = TokensOf(x)
      BY <1>5 DEF RollbackPointer, TokensOf, SourceOf
    <2>6. PointersNameSuccesses'
      BY <1>5, <2>4, <2>5 DEF RollbackPointer, PointersNameSuccesses
    <2> QED
      BY <2>1, <2>6
  <1>6. ASSUME NEW w \in Workers, NEW k \in Jobs, NEW lag \in Lags, Claim(w, k, lag)
        PROVE  Goal
    <2> DEFINE run == [job |-> k, attempt |-> AttemptsOf(k) + 1,
                       worker |-> WorkerId[w], status |-> "running",
                       age |-> lag, left |-> Timeout - lag, retryable |-> FALSE]
    <2>1. runs' = Append(runs, run) /\ runs \in Seq(Run) /\ k \in Runnable(w)
      BY <1>6 DEF Claim, IInv, TypeOK
    <2> HIDE DEF run
    <2>2. DOMAIN runs \subseteq DOMAIN runs' /\ \A t \in DOMAIN runs : runs'[t] = runs[t]
      <3>1. Len(runs) \in Nat /\ DOMAIN runs = 1..Len(runs)
        BY <2>1, LenProperties
      <3> QED
        BY <2>1, <3>1
    <2>3. \A j \in Jobs : j # k => jobs'[j] = jobs[j]
      BY <1>6 DEF Claim, IInv, TypeOK
    <2>4. jobs[k].status \in {"queued", "retry_scheduled"} /\ jobs'[k].status = "running"
      BY <1>0, <1>6, <2>1 DEF Claim, Runnable, IInv, TypeOK
    <2>5. RunsStay /\ JobsStay /\ SettledWait' /\ ScheduledSignalHasLiveJob'
      BY <1>6, <2>2, <2>3, <2>4 DEF Claim, RunsStay, JobsStay, SettledWait,
         ScheduledSignalHasLiveJob, TerminalJob
    <2> QED
      BY <1>6, <2>5, PointersKept DEF Claim
  <1>7. ASSUME NEW w \in Workers, Execute(w) PROVE Goal
    <2>1. ASSUME NEW lag \in Lags, Heartbeat(w, lag) PROVE Goal
      <3>1. proc[w].token \in DOMAIN runs /\ runs[proc[w].token] \in Run
        BY <2>1, RunFacts DEF Heartbeat, IInv, TypeOK
      <3>2. RunsStay
        BY <2>1, <3>1 DEF Heartbeat, RunsStay, Run
      <3>3. JobsStay /\ SettledWait' /\ ScheduledSignalHasLiveJob'
        BY <2>1 DEF Heartbeat, JobsStay, SettledWait, ScheduledSignalHasLiveJob
      <3> QED
        BY <2>1, <3>2, <3>3, PointersKept DEF Heartbeat
    <2>2. ASSUME NEW lag \in Lags, NEW staged \in BOOLEAN, CompleteSuccess(w, lag, staged)
          PROVE  Goal
      <3> DEFINE t == proc[w].token
      <3>1. /\ RunsStay /\ JobsStay /\ SettledWait' /\ ScheduledSignalHasLiveJob'
            /\ t \in DOMAIN runs /\ runs'[t].status = "succeeded"
        BY <2>2, SuccessStays
      <3>2. CASE UNCHANGED pub
        BY <3>1, <3>2, PointersKept
      <3>3. CASE PublishStaging(t)
        <4>1. SourceOf(t) \in Sources
          BY <3>1, RunFacts, ConstantFacts DEF SourceOf, Run, IInv
        <4>2. /\ \A x \in Sources : x # SourceOf(t) => pub'[x] = pub[x]
              /\ pub'[SourceOf(t)].active = t
              /\ pub'[SourceOf(t)].rollback = pub[SourceOf(t)].active
          BY <3>3, <4>1 DEF PublishStaging, IInv, TypeOK
        <4>3. PointersNameSuccesses'
          <5>1. \A k \in DOMAIN runs : k \in DOMAIN runs' /\ SourceOf(k)' = SourceOf(k)
            BY <3>1 DEF RunsStay, SourceOf
          <5>2. \A k \in DOMAIN runs :
                  runs[k].status = "succeeded" => runs'[k].status = "succeeded"
            BY <3>1 DEF RunsStay
          <5>3. ASSUME NEW x \in Sources,
                       NEW k \in {pub[x].active, pub[x].rollback} \ {0}
                PROVE  k \in TokensOf(x)' /\ runs'[k].status = "succeeded"
            <6>1. k \in TokensOf(x) /\ runs[k].status = "succeeded"
              BY <5>3 DEF PointersNameSuccesses
            <6> QED
              BY <5>1, <5>2, <6>1 DEF TokensOf
          <5>4. ASSUME NEW x \in Sources,
                       NEW k \in {pub'[x].active, pub'[x].rollback} \ {0}
                PROVE  k \in TokensOf(x)' /\ runs'[k].status = "succeeded"
            <6>1. CASE k = t /\ x = SourceOf(t)
              <7>1. k \in DOMAIN runs /\ SourceOf(k) = x /\ runs'[k].status = "succeeded"
                BY <3>1, <6>1
              <7> QED
                BY <5>1, <7>1 DEF TokensOf
            <6>2. CASE k \in {pub[x].active, pub[x].rollback} \ {0}
              BY <5>3, <6>2
            <6> QED
              BY <4>2, <5>4, <6>1, <6>2
          <5> QED
            BY <5>4 DEF PointersNameSuccesses
        <4> QED
          BY <3>1, <4>3
      <3> QED
        BY <2>2, <3>2, <3>3 DEF CompleteSuccess
    <2>3. ASSUME CompleteFailure(w) PROVE Goal
      <3>1. {proc[w].token} \subseteq DOMAIN runs /\ proc[w].error \in Errors
        BY <2>3 DEF CompleteFailure, IInv, TypeOK
      <3> QED
        BY <2>3, <3>1, FailuresStay, PointersKept DEF CompleteFailure
    <2>4. ASSUME UNCHANGED <<jobs, runs, pub, signal>> PROVE Goal
      BY <1>1, <2>4
    <2> QED
      BY <1>7, <2>1, <2>2, <2>3, <2>4 DEF Execute, StartExecution, HandlerRaises,
         DeadlineExceeded, LeaseLost, Crash
  <1>8. ASSUME NEW T \in SUBSET DOMAIN runs, RecoverStaleRuns(T) PROVE Goal
    <2>1. "timeout" \in Errors
      BY DEF Errors, HandlerErrors
    <2> QED
      BY <1>8, <2>1, FailuresStay, PointersKept DEF RecoverStaleRuns
  <1>9. ASSUME Tick PROVE Goal
    <2>1. RunsStay
      <3>1. DOMAIN runs' = DOMAIN runs
        BY <1>9 DEF Tick
      <3>2. ASSUME NEW t \in DOMAIN runs
            PROVE  /\ runs'[t].job = runs[t].job
                   /\ runs[t].status # "running" => runs'[t] = runs[t]
        <4> DEFINE age == Min({runs[t].age + 1, StaleAfter + MaxLag})
                   left == Elapse(runs[t].left, -MaxLag)
        <4>1. runs[t] \in Run
          BY RunFacts DEF IInv
        <4>2. runs'[t] = IF runs[t].status # "running" THEN runs[t]
                         ELSE [runs[t] EXCEPT !.age = age, !.left = left]
          BY <1>9 DEF Tick
        <4> HIDE DEF age, left
        <4> QED
          BY <4>1, <4>2 DEF Run
      <3> QED
        BY <3>1, <3>2 DEF RunsStay
    <2>2. ASSUME NEW j \in Jobs
          PROVE  /\ jobs'[j].status = jobs[j].status
                 /\ jobs[j].wait = 0 => jobs'[j] = jobs[j]
      <3> DEFINE wait == Elapse(jobs[j].wait, 0)
      <3>1. jobs[j] \in [status : JobStatus, wait : Nat, latest : Nat]
        BY <1>0
      <3>2. jobs'[j] = [jobs[j] EXCEPT !.wait = wait]
        BY <1>9 DEF Tick
      <3>3. jobs[j].wait = 0 => wait = 0
        BY DEF Elapse
      <3> HIDE DEF wait
      <3> QED
        BY <3>1, <3>2, <3>3
    <2>3. JobsStay /\ SettledWait' /\ ScheduledSignalHasLiveJob'
      BY <1>9, <2>2 DEF Tick, JobsStay, SettledWait, ScheduledSignalHasLiveJob
    <2> QED
      BY <1>9, <2>1, <2>3, PointersKept DEF Tick
  <1>10. CASE UNCHANGED vars
    BY <1>1, <1>10 DEF vars
  <1> QED
    BY <1>2, <1>3, <1>4, <1>5, <1>6, <1>7, <1>8, <1>9, <1>10 DEF Next

LEMMA EndedInductive == Spec => []EndedInv
  <1>1. Init => EndedInv
    <2> SUFFICES ASSUME Init PROVE EndedInv
      OBVIOUS
    <2>1. SettledWait /\ PointersNameSuccesses /\ ScheduledSignalHasLiveJob
      BY DEF Init, SettledWait, PointersNameSuccesses, ScheduledSignalHasLiveJob, TerminalJob
    <2> QED
      BY <2>1, InitIInv DEF EndedInv
  <1>2. EndedInv /\ [Next]_vars => EndedInv'
    BY EndedStep, NextIInv DEF EndedInv
  <1> QED
    BY <1>1, <1>2, PTL DEF Spec

\* Both pointers of a source name runs of that source that succeeded
\* (_publish_staging, rollback_publication_pointer).
THEOREM PointersSafety == Spec => []PointersNameSuccesses
  <1>1. EndedInv => PointersNameSuccesses
    BY DEF EndedInv
  <1> QED
    BY <1>1, EndedInductive, PTL

\* While a replay signal is scheduled there is a job that can settle it
\* (create_job, complete_run_success, complete_run_failure).
THEOREM SignalsSafety == Spec => []ScheduledSignalHasLiveJob
  <1>1. EndedInv => ScheduledSignalHasLiveJob
    BY DEF EndedInv
  <1> QED
    BY <1>1, EndedInductive, PTL

\* The outcome of an attempt and the end of a job are final: a worker that
\* comes back after the sweep changes neither.
THEOREM Finality == Spec => OutcomesAreFinal
  <1> DEFINE Final ==
        /\ \A t \in DOMAIN runs : runs[t].status # "running" => runs'[t] = runs[t]
        /\ \A j \in Jobs : jobs[j].status \in TerminalJob => jobs'[j] = jobs[j]
  <1>1. EndedInv /\ [Next]_vars => [Final]_vars
    BY EndedStep DEF RunsStay, JobsStay
  <1> QED
    BY <1>1, EndedInductive, PTL DEF Spec, OutcomesAreFinal

-----------------------------------------------------------------------------
(* The queue implements JobService: the step of the service that each step *)
(* of the queue is, or that it is none.                                    *)

SeenOutcome == [j \in Jobs |-> OutcomeSeen(j)]
SeenCurrent == [s \in Sources |-> JobServed(pub[s].active)]
SeenPrevious == [s \in Sources |-> JobServed(pub[s].rollback)]
SeenGeneration == [s \in Sources |-> pub[s].generation]
SeenPointers == <<SeenCurrent, SeenPrevious, SeenGeneration>>

\* What a pointer names is what its run was created for, for as long as the
\* rows last.
LEMMA ServedJobs ==
    ASSUME EndedInv, RunsStay, NEW s \in Sources,
           NEW p \in {pub[s].active, pub[s].rollback}
    PROVE  /\ JobServed(p)' = JobServed(p)
           /\ p # 0 => JobServed(p) \in Jobs
  <1>1. p # 0 => p \in DOMAIN runs
    BY DEF EndedInv, PointersNameSuccesses, TokensOf
  <1>2. p # 0 => JobServed(p) \in Jobs
    BY <1>1, RunFacts DEF EndedInv, IInv, JobServed, Run
  <1>3. JobServed(p)' = JobServed(p)
    BY <1>1 DEF JobServed, RunsStay
  <1> QED
    BY <1>2, <1>3

LEMMA PointersSeenSame ==
    ASSUME EndedInv, RunsStay, UNCHANGED pub
    PROVE  UNCHANGED SeenPointers
  <1>1. \A s \in Sources : /\ JobServed(pub[s].active)' = JobServed(pub[s].active)
                           /\ JobServed(pub[s].rollback)' = JobServed(pub[s].rollback)
    BY ServedJobs
  <1>2. SeenCurrent' = SeenCurrent
    BY <1>1 DEF SeenCurrent
  <1>3. SeenPrevious' = SeenPrevious
    BY <1>1 DEF SeenPrevious
  <1>4. SeenGeneration' = SeenGeneration
    BY DEF SeenGeneration
  <1> QED
    BY <1>2, <1>3, <1>4 DEF SeenPointers

\* A step that moves no pointer and leaves every outcome as its submitter sees
\* it is none of the service.
LEMMA ServiceStutters ==
    ASSUME EndedInv, RunsStay, UNCHANGED pub,
           \A j \in Jobs : OutcomeSeen(j)' = OutcomeSeen(j)
    PROVE  UNCHANGED Service!serviceVars
  <1>1. SeenOutcome' = SeenOutcome
    BY DEF SeenOutcome
  <1>2. UNCHANGED SeenPointers
    BY PointersSeenSame
  <1> QED
    BY <1>1, <1>2 DEF Service!serviceVars, SeenOutcome, SeenPointers, SeenCurrent,
       SeenPrevious, SeenGeneration

\* A pointer that moves shows its new job, and the one it showed before as
\* what a rollback would restore.
LEMMA MoveSeen ==
    ASSUME EndedInv, RunsStay, NEW s \in Sources, NEW t \in Nat, NEW k,
           pub'[s].active = t, pub'[s].rollback = pub[s].active,
           pub'[s].generation = pub[s].generation + 1,
           \A x \in Sources : x # s => pub'[x] = pub[x],
           JobServed(t)' = k
    PROVE  /\ SeenCurrent' = [SeenCurrent EXCEPT ![s] = k]
           /\ SeenPrevious' = [SeenPrevious EXCEPT ![s] = SeenCurrent[s]]
           /\ SeenGeneration' = [SeenGeneration EXCEPT ![s] = @ + 1]
  <1>1. JobServed(pub[s].active)' = k
    BY DEF JobServed
  <1>2. ASSUME NEW x \in Sources, NEW p \in {pub[x].active, pub[x].rollback}
        PROVE  (IF p = 0 THEN 0 ELSE runs'[p].job) = JobServed(p)
    BY <1>2, ServedJobs DEF JobServed
  <1>3. SeenCurrent' = [SeenCurrent EXCEPT ![s] = k]
    <2>1. \A x \in Sources : x # s => JobServed(pub[x].active)' = JobServed(pub[x].active)
      BY <1>2 DEF JobServed
    <2> QED
      BY <1>1, <2>1 DEF SeenCurrent
  <1>4. SeenPrevious' = [SeenPrevious EXCEPT ![s] = SeenCurrent[s]]
    <2>1. \A x \in Sources : x # s =>
            JobServed(pub[x].rollback)' = JobServed(pub[x].rollback)
      BY <1>2 DEF JobServed
    <2>2. JobServed(pub[s].rollback)' = JobServed(pub[s].active)
      BY <1>2 DEF JobServed
    <2> QED
      BY <2>1, <2>2 DEF SeenPrevious, SeenCurrent
  <1>5. SeenGeneration' = [SeenGeneration EXCEPT ![s] = @ + 1]
    BY DEF SeenGeneration
  <1> QED
    BY <1>3, <1>4, <1>5

LEMMA RollbackSeen ==
    ASSUME EndedInv, RunsStay, NEW s \in Sources, NEW g \in 1..MaxGeneration,
           RollbackPointer(s, g)
    PROVE  Service!Rollback(s)
  <1>1. pub[s] \in [active : Nat, rollback : Nat, generation : Nat, last : Nat]
    BY DEF EndedInv, IInv, TypeOK
  <1>2. /\ pub'[s].active = pub[s].rollback /\ pub'[s].rollback = pub[s].active
        /\ pub'[s].generation = pub[s].generation + 1
        /\ \A x \in Sources : x # s => pub'[x] = pub[x]
    BY <1>1 DEF RollbackPointer, EndedInv, IInv, TypeOK
  <1>3. /\ pub[s].rollback # 0 /\ pub[s].rollback \in Nat
        /\ JobServed(pub[s].rollback) # 0
    BY <1>1, ServedJobs, ConstantFacts DEF RollbackPointer, Jobs
  <1>4. \A p \in {pub[s].rollback} : JobServed(p)' = JobServed(p)
    BY ServedJobs
  <1>5. /\ SeenCurrent' = [SeenCurrent EXCEPT ![s] = SeenPrevious[s]]
        /\ SeenPrevious' = [SeenPrevious EXCEPT ![s] = SeenCurrent[s]]
        /\ SeenGeneration' = [SeenGeneration EXCEPT ![s] = @ + 1]
    BY <1>2, <1>3, <1>4, MoveSeen DEF SeenPrevious
  <1>6. SeenOutcome' = SeenOutcome
    BY DEF RollbackPointer, SeenOutcome, OutcomeSeen
  <1> QED
    BY <1>3, <1>5, <1>6 DEF Service!Rollback, Service!Move, SeenOutcome, SeenCurrent,
       SeenPrevious, SeenGeneration

\* A success is the one step in which a job is applied.
LEMMA SuccessSeen ==
    ASSUME EndedInv, NEW w \in Workers, NEW lag \in Lags, NEW staged \in BOOLEAN,
           CompleteSuccess(w, lag, staged)
    PROVE  \E j \in Jobs : Service!Apply(j)
  <1> DEFINE t == proc[w].token
             k == runs[t].job
  <1>1. /\ RunsStay /\ t \in DOMAIN runs /\ runs[t].status = "running"
    BY SuccessStays DEF EndedInv, CompleteSuccess
  <1>2. k \in Jobs /\ jobs[k].status = "running"
    BY <1>1, OpenRunFacts DEF EndedInv
  <1>3. jobs' = [jobs EXCEPT ![k].status = "succeeded", ![k].wait = 0]
    BY DEF CompleteSuccess
  <1>4. t \in Nat /\ t # 0 /\ runs'[t].job = k
    BY <1>1, RunFacts DEF EndedInv, IInv, RunsStay
  <1>5. CompleteSuccess(w, lag, staged) => \/ UNCHANGED pub \/ PublishStaging(t)
    BY DEF CompleteSuccess
  <1> HIDE DEF t, k
  <1>6. /\ jobs[k] \in [status : JobStatus, wait : Nat, latest : Nat]
        /\ jobs'[k].status = "succeeded" /\ \A j \in Jobs : j # k => jobs'[j] = jobs[j]
    BY <1>2, <1>3 DEF EndedInv, IInv, TypeOK
  <1>7. SeenOutcome[k] = "accepted" /\ SeenOutcome' = [SeenOutcome EXCEPT ![k] = "applied"]
    BY <1>2, <1>6 DEF SeenOutcome, OutcomeSeen
  <1>8. CASE UNCHANGED pub
    <2>1. UNCHANGED SeenPointers
      BY <1>1, <1>8, PointersSeenSame
    <2> QED
      BY <1>2, <1>7, <2>1 DEF Service!Apply, SeenOutcome, SeenPointers, SeenCurrent,
         SeenPrevious, SeenGeneration
  <1>9. CASE PublishStaging(t)
    <2>1. SourceOf(t) = JobSource[k] /\ SourceOf(t) \in Sources
      BY <1>2, ConstantFacts DEF SourceOf, t, k
    <2>2. /\ pub'[SourceOf(t)].active = t
          /\ pub'[SourceOf(t)].rollback = pub[SourceOf(t)].active
          /\ pub'[SourceOf(t)].generation = pub[SourceOf(t)].generation + 1
          /\ \A x \in Sources : x # SourceOf(t) => pub'[x] = pub[x]
      BY <1>9, <2>1 DEF PublishStaging, EndedInv, IInv, TypeOK
    <2>3. \A p \in {t} : JobServed(p)' = k
      BY <1>4 DEF JobServed
    <2>4. /\ SeenCurrent' = [SeenCurrent EXCEPT ![JobSource[k]] = k]
          /\ SeenPrevious' = [SeenPrevious EXCEPT ![JobSource[k]] = SeenCurrent[JobSource[k]]]
          /\ SeenGeneration' = [SeenGeneration EXCEPT ![JobSource[k]] = @ + 1]
      BY <1>1, <1>4, <2>1, <2>2, <2>3, MoveSeen
    <2> QED
      BY <1>2, <1>7, <2>4 DEF Service!Apply, Service!Move, SeenOutcome, SeenCurrent,
         SeenPrevious, SeenGeneration
  <1> QED
    BY <1>5, <1>8, <1>9

\* What a recorded failure makes of a job.
LEMMA FailureFates ==
    ASSUME IInv, NEW T \in SUBSET DOMAIN runs, NEW e \in Errors, RecordFailures(T, e)
    PROVE  \A j \in Jobs : \/ jobs'[j] = jobs[j]
                          \/ /\ jobs[j].status = "running"
                             /\ jobs'[j].status \in {"retry_scheduled", "failed"}
  <1> SUFFICES ASSUME NEW j \in Jobs
               PROVE  \/ jobs'[j] = jobs[j]
                      \/ /\ jobs[j].status = "running"
                         /\ jobs'[j].status \in {"retry_scheduled", "failed"}
    OBVIOUS
  <1> DEFINE ofJob == {t \in Open(T) : runs[t].job = j}
             chosen == CHOOSE t \in ofJob : TRUE
  <1>1. jobs[j] \in [status : JobStatus, wait : Nat, latest : Nat]
    BY DEF IInv, TypeOK
  <1>2. jobs'[j] = IF ofJob = {} THEN jobs[j] ELSE FailedJob(chosen, e)
    BY DEF RecordFailures
  <1>3. ofJob # {} => /\ chosen \in DOMAIN runs /\ runs[chosen].status = "running"
                      /\ runs[chosen].job = j
    BY DEF Open
  <1>4. ofJob # {} => jobs[j].status = "running"
    BY <1>3, OpenRunFacts
  <1> HIDE DEF ofJob, chosen
  <1>5. ofJob # {} => FailedJob(chosen, e).status \in {"retry_scheduled", "failed"}
    <2> SUFFICES ASSUME ofJob # {}
                 PROVE  FailedJob(chosen, e).status \in {"retry_scheduled", "failed"}
      OBVIOUS
    <2>1. CASE Allows(e, runs[chosen].attempt)
      BY <1>1, <1>3, <2>1 DEF FailedJob
    <2>2. CASE ~Allows(e, runs[chosen].attempt)
      BY <1>1, <1>3, <2>2 DEF FailedJob
    <2> QED
      BY <2>1, <2>2
  <1> QED
    BY <1>2, <1>4, <1>5

\* Failures abandon the jobs whose policy allows no further attempt, together,
\* and nothing else is seen of them.
LEMMA FailuresSeen ==
    ASSUME EndedInv, NEW T \in SUBSET DOMAIN runs, NEW e \in Errors,
           RecordFailures(T, e), UNCHANGED pub
    PROVE  \E J \in SUBSET Jobs : Service!Abandon(J)
  <1> DEFINE J == {j \in Jobs : jobs[j].status = "running" /\ jobs'[j].status = "failed"}
  <1>1. RunsStay
    BY FailuresStay DEF EndedInv
  <1>2. UNCHANGED SeenPointers
    BY <1>1, PointersSeenSame
  <1>3. \A j \in Jobs : \/ jobs'[j] = jobs[j]
                       \/ /\ jobs[j].status = "running"
                          /\ jobs'[j].status \in {"retry_scheduled", "failed"}
    BY FailureFates DEF EndedInv
  <1>4. SeenOutcome' = [j \in Jobs |-> IF j \in J THEN "abandoned" ELSE SeenOutcome[j]]
    BY <1>3 DEF SeenOutcome, OutcomeSeen
  <1>5. \A j \in J : SeenOutcome[j] = "accepted"
    BY DEF SeenOutcome, OutcomeSeen
  <1> HIDE DEF J
  <1>6. J \in SUBSET Jobs
    BY DEF J
  <1>7. Service!Abandon(J)
    BY <1>2, <1>4, <1>5 DEF Service!Abandon, SeenOutcome, SeenPointers, SeenCurrent,
       SeenPrevious, SeenGeneration
  <1> QED
    BY <1>6, <1>7

\* Every other step is invisible to the service: a claim, a retry, a heartbeat
\* and the clock change no outcome.
LEMMA ClaimSeen ==
    ASSUME EndedInv, RunsStay, NEW w \in Workers, NEW k \in Jobs, NEW lag \in Lags,
           Claim(w, k, lag)
    PROVE  UNCHANGED Service!serviceVars
  <1>1. /\ jobs' = [jobs EXCEPT ![k].status = "running", ![k].latest = Len(runs) + 1]
        /\ jobs[k].status \in {"queued", "retry_scheduled"} /\ UNCHANGED pub
    BY DEF Claim, Runnable
  <1>2. jobs[k] \in [status : JobStatus, wait : Nat, latest : Nat]
    BY DEF EndedInv, IInv, TypeOK
  <1>3. jobs'[k].status = "running" /\ \A j \in Jobs : j # k => jobs'[j] = jobs[j]
    BY <1>1, <1>2 DEF EndedInv, IInv, TypeOK
  <1>4. \A j \in Jobs : OutcomeSeen(j)' = OutcomeSeen(j)
    BY <1>1, <1>3 DEF OutcomeSeen
  <1> QED
    BY <1>1, <1>4, ServiceStutters

LEMMA CreateJobSeen ==
    ASSUME EndedInv, RunsStay, NEW k \in Jobs, CreateJob(k)
    PROVE  Service!Accept(k)
  <1>1. /\ jobs' = [jobs EXCEPT ![k].status = "queued"]
        /\ jobs[k].status = "absent" /\ UNCHANGED pub
    BY DEF CreateJob
  <1>2. jobs[k] \in [status : JobStatus, wait : Nat, latest : Nat]
    BY DEF EndedInv, IInv, TypeOK
  <1>3. jobs'[k].status = "queued" /\ \A j \in Jobs : j # k => jobs'[j] = jobs[j]
    BY <1>1, <1>2 DEF EndedInv, IInv, TypeOK
  <1>4. SeenOutcome[k] = "absent" /\ SeenOutcome' = [SeenOutcome EXCEPT ![k] = "accepted"]
    BY <1>1, <1>3 DEF SeenOutcome, OutcomeSeen
  <1>5. UNCHANGED SeenPointers
    BY <1>1, PointersSeenSame
  <1> QED
    BY <1>4, <1>5 DEF Service!Accept, SeenOutcome, SeenPointers, SeenCurrent,
       SeenPrevious, SeenGeneration

LEMMA ExecuteSeen ==
    ASSUME EndedInv, RunsStay, NEW w \in Workers, Execute(w)
    PROVE  Service!ServiceNext \/ UNCHANGED Service!serviceVars
  <1>1. ASSUME NEW lag \in Lags, NEW staged \in BOOLEAN, CompleteSuccess(w, lag, staged)
        PROVE  Service!ServiceNext
    BY <1>1, SuccessSeen DEF Service!ServiceNext
  <1>2. ASSUME CompleteFailure(w) PROVE Service!ServiceNext
    <2>1. /\ {proc[w].token} \subseteq DOMAIN runs /\ proc[w].error \in Errors
          /\ RecordFailures({proc[w].token}, proc[w].error) /\ UNCHANGED pub
      BY <1>2 DEF CompleteFailure, EndedInv, IInv, TypeOK
    <2> QED
      BY <2>1, FailuresSeen DEF Service!ServiceNext
  <1>3. ASSUME UNCHANGED <<jobs, pub>> PROVE UNCHANGED Service!serviceVars
    <2>1. \A j \in Jobs : OutcomeSeen(j)' = OutcomeSeen(j)
      BY <1>3 DEF OutcomeSeen
    <2> QED
      BY <1>3, <2>1, ServiceStutters
  <1> QED
    BY <1>1, <1>2, <1>3 DEF Execute, StartExecution, Heartbeat, HandlerRaises,
       DeadlineExceeded, LeaseLost, Crash

LEMMA ServiceStep ==
    ASSUME EndedInv, [Next]_vars
    PROVE  Service!ServiceNext \/ UNCHANGED Service!serviceVars
  <1>0. RunsStay
    BY EndedStep
  <1>1. ASSUME UNCHANGED pub, \A j \in Jobs : jobs'[j].status = jobs[j].status
        PROVE  UNCHANGED Service!serviceVars
    <2>1. \A j \in Jobs : OutcomeSeen(j)' = OutcomeSeen(j)
      BY <1>1 DEF OutcomeSeen
    <2> QED
      BY <1>0, <1>1, <2>1, ServiceStutters
  <1>2. ASSUME NEW j \in Jobs, CreateJob(j) PROVE Service!ServiceNext
    BY <1>0, <1>2, CreateJobSeen DEF Service!ServiceNext
  <1>3. ASSUME NEW k \in Jobs, RetryJobNow(k) PROVE UNCHANGED Service!serviceVars
    <2>1. jobs[k] \in [status : JobStatus, wait : Nat, latest : Nat]
      BY DEF EndedInv, IInv, TypeOK
    <2>2. UNCHANGED pub /\ \A j \in Jobs : jobs'[j].status = jobs[j].status
      BY <1>3, <2>1 DEF RetryJobNow, EndedInv, IInv, TypeOK
    <2> QED
      BY <1>1, <2>2
  <1>4. ASSUME NEW x \in Signals, ResetFailedSignal(x)
        PROVE  UNCHANGED Service!serviceVars
    BY <1>1, <1>4 DEF ResetFailedSignal
  <1>5. ASSUME NEW s \in Sources, NEW g \in 1..MaxGeneration, RollbackPointer(s, g)
        PROVE  Service!ServiceNext
    BY <1>0, <1>5, RollbackSeen DEF Service!ServiceNext
  <1>6. ASSUME NEW w \in Workers, NEW j \in Jobs, NEW lag \in Lags, Claim(w, j, lag)
        PROVE  UNCHANGED Service!serviceVars
    BY <1>0, <1>6, ClaimSeen
  <1>7. ASSUME NEW w \in Workers, Execute(w)
        PROVE  Service!ServiceNext \/ UNCHANGED Service!serviceVars
    BY <1>0, <1>7, ExecuteSeen
  <1>8. ASSUME NEW T \in SUBSET DOMAIN runs, RecoverStaleRuns(T)
        PROVE  Service!ServiceNext
    <2>1. RecordFailures(T, "timeout") /\ UNCHANGED pub /\ "timeout" \in Errors
      BY <1>8 DEF RecoverStaleRuns, Errors, HandlerErrors
    <2> QED
      BY <2>1, FailuresSeen DEF Service!ServiceNext
  <1>9. ASSUME Tick PROVE UNCHANGED Service!serviceVars
    <2>1. \A j \in Jobs : jobs[j] \in [status : JobStatus, wait : Nat, latest : Nat]
      BY DEF EndedInv, IInv, TypeOK
    <2>2. UNCHANGED pub /\ \A j \in Jobs : jobs'[j].status = jobs[j].status
      BY <1>9, <2>1 DEF Tick
    <2> QED
      BY <1>1, <2>2
  <1>10. CASE UNCHANGED vars
    BY <1>1, <1>10 DEF vars
  <1> QED
    BY <1>2, <1>3, <1>4, <1>5, <1>6, <1>7, <1>8, <1>9, <1>10 DEF Next

\* Through retries, deaths, stalls, sweeps and rollbacks, a submitted job is
\* applied at most once, in one step with the pointer it moves, or abandoned
\* without an effect: every behaviour of the queue is one of JobService
\* (create_job, complete_run_success, complete_run_failure,
\* rollback_publication_pointer).
THEOREM QueueImplementsService == Spec => ImplementsJobService
  <1>1. Init => Service!ServiceInit
    <2> SUFFICES ASSUME Init PROVE Service!ServiceInit
      OBVIOUS
    <2>1. SeenOutcome = [j \in Jobs |-> "absent"]
      BY DEF Init, SeenOutcome, OutcomeSeen
    <2>2. /\ SeenCurrent = [s \in Sources |-> 0]
          /\ SeenPrevious = [s \in Sources |-> 0]
          /\ SeenGeneration = [s \in Sources |-> 0]
      BY DEF Init, SeenCurrent, SeenPrevious, SeenGeneration, JobServed
    <2> QED
      BY <2>1, <2>2 DEF Service!ServiceInit, SeenOutcome, SeenCurrent, SeenPrevious,
         SeenGeneration
  <1>2. EndedInv /\ [Next]_vars => [Service!ServiceNext]_(Service!serviceVars)
    BY ServiceStep
  <1> QED
    BY <1>1, <1>2, EndedInductive, PTL DEF Spec, ImplementsJobService, Service!ServiceSpec
=============================================================================
