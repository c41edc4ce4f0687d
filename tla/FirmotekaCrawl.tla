--------------------------- MODULE FirmotekaCrawl ---------------------------
(***************************************************************************)
(* The crawl of the Firmoteka catalogue (app/ingestion/firmoteka_worker.py): *)
(* a crawl discovers catalogue pages, pages list pages and companies, and  *)
(* each page and company is a checkpoint that jobs of the worker work off  *)
(* in batches.  The publication of a batch creates the next job; when that *)
(* chain breaks because a job failed, the scheduler takes the crawl up     *)
(* again.  The daemon and the admin panel may both schedule.               *)
(*                                                                         *)
(* Abstractions.  A job runs under the lease of the source, one at a time, *)
(* and an attempt that raises, times out or loses its lease fails.  The    *)
(* sizes of batches depend on settings and measurements: any prefix of the *)
(* pending checkpoints up to BatchLimit.  So does the decision to take     *)
(* companies in.  What a page lists stays the same.  A crawl is paused by  *)
(* nothing in the code.                                                    *)
(***************************************************************************)
EXTENDS Naturals, Sequences, FiniteSets, Functions

CONSTANTS
    Schedulers,     \* processes that schedule a check of the source
    Pages, Inns,    \* catalogue pages and companies
    Lists,          \* what the sitemap and each page list, in order
    BatchLimit,     \* checkpoints in a batch
    MaxTries,       \* attempts of a job
    MaxCrawls,      \* bound: crawls that are begun
    MaxTroubles     \* bound: requests and attempts that fail

Tasks == Pages \cup Inns

ASSUME CrawlAssumption ==
    /\ Pages \cap Inns = {} /\ "sitemap" \notin Tasks /\ IsFiniteSet(Tasks)
    /\ Lists \in [{"sitemap"} \cup Pages -> Seq(Tasks)]
    /\ BatchLimit \in Nat \ {0} /\ MaxTries \in Nat \ {0}
    /\ MaxCrawls \in Nat /\ MaxTroubles \in Nat

VARIABLES
    crawls,         \* the crawls with their checkpoints, oldest first
    crawlJobs,      \* the jobs of the source, oldest first
    current,        \* companies that have a current snapshot
    session,        \* the transaction of each scheduler
    troubles        \* counter of the bound

crawlVars == <<crawls, crawlJobs, current, session, troubles>>

PointStatuses == {"none", "pending", "running", "succeeded", "quarantined"}
Phases == {"discovery", "catalog", "companies", "complete"}
LiveStatuses == {"queued", "running", "retry_scheduled"}

\* A checkpoint: its attempt_count and the job that claims it, 0 for none.
Unlisted == [status |-> "none", tries |-> 0, by |-> 0]
NotScheduling == [at |-> "idle"]

CrawlTypeOK ==
    /\ \A c \in DOMAIN crawls :
         /\ crawls[c].status \in {"running", "completed"}
         /\ crawls[c].daily \in BOOLEAN
         /\ crawls[c].phase \in Phases
         /\ crawls[c].position \in [Tasks -> Nat]
         /\ crawls[c].points \in
              [Tasks -> [status : PointStatuses, tries : Nat,
                         by : 0..Len(crawlJobs)]]
    /\ \A j \in DOMAIN crawlJobs :
         /\ crawlJobs[j].crawl \in DOMAIN crawls
         /\ crawlJobs[j].kind \in Phases
         /\ crawlJobs[j].tasks \subseteq Tasks
         /\ crawlJobs[j].status \in LiveStatuses \cup {"succeeded", "failed"}
         /\ crawlJobs[j].tries \in 0..MaxTries
    /\ current \subseteq Inns
    /\ session \in [Schedulers -> {NotScheduling, [at |-> "opens"]}
                        \cup [at : {"resumes"}, crawl : DOMAIN crawls]]

LiveJobsOf(js, c) ==
    {j \in DOMAIN js : js[j].crawl = c /\ js[j].status \in LiveStatuses}

\* The lock on the row of crawl c, held by a scheduler to its commit.
CrawlFree(c) == \A s \in Schedulers : session[s] # [at |-> "resumes", crawl |-> c]

Ends(s) == session' = [session EXCEPT ![s] = NotScheduling]

-----------------------------------------------------------------------------
(* The next job of a crawl (_create_next_job).                             *)

\* Claims of jobs that failed are given back, one attempt later.
Requeued(crawl, js) ==
    [crawl EXCEPT !.points = [t \in Tasks |->
        IF @[t].status = "running" /\ js[@[t].by].status = "failed"
        THEN [status |-> "pending", tries |-> @[t].tries + 1, by |-> 0]
        ELSE @[t]]]

\* Mutant: the key names the checkpoints only.
JobKeyOfTasks(c, kind, held) == <<c, kind, DOMAIN held>>

\* The idempotency key names the checkpoints and, through the digest of the
\* resume suffix, how often each was attempted.
JobKey(c, kind, held) == <<c, kind, held>>

\* create_job: the jobs afterwards, and which of them has the key.
WithJob(js, c, kind, held) ==
    LET key  == JobKey(c, kind, held)
        same == {j \in DOMAIN js : js[j].key = key}
    IN IF same # {}
       THEN [jobs |-> js, job |-> CHOOSE j \in same : TRUE]
       ELSE [jobs |-> Append(js, [crawl |-> c, kind |-> kind, key |-> key,
                                  tasks |-> DOMAIN held, status |-> "queued",
                                  tries |-> 0]),
             job |-> Len(js) + 1]

Pending(crawl, tasks) == {t \in tasks : crawl.points[t].status = "pending"}

\* The first of these tasks, in the order in which they were listed.
Heads(crawl, tasks) ==
    {head \in SUBSET tasks :
        /\ Cardinality(head) \in 1..BatchLimit
        /\ \A t \in head, u \in tasks \ head : crawl.position[t] < crawl.position[u]}

\* Companies first, if the factory takes them in; else pages.
Batches(crawl, intake) ==
    IF intake /\ Pending(crawl, Inns) # {}
    THEN [kind : {"companies"}, tasks : Heads(crawl, Pending(crawl, Inns))]
    ELSE [kind : {"catalog"}, tasks : Heads(crawl, Pending(crawl, Pages))]

\* The tables after batch b of crawl c, which is "crawl" by now, was handed out.
HandedOut(c, crawl, js, b) ==
    LET made == WithJob(js, c, b.kind,
                        [t \in b.tasks |-> crawl.points[t].tries])
    IN [jobs  |-> made.jobs,
        crawl |-> [crawl EXCEPT
            !.phase = b.kind,
            !.points = [t \in Tasks |->
                IF t \in b.tasks
                THEN [@[t] EXCEPT !.status = "running", !.by = made.job]
                ELSE @[t]]]]

Continuations(c, crawl, js, intake) ==
    {HandedOut(c, Requeued(crawl, js), js, b) :
        b \in Batches(Requeued(crawl, js), intake)}

-----------------------------------------------------------------------------
(* The scheduler (schedule_firmoteka_check).                               *)

Unfinished == {c \in DOMAIN crawls : crawls[c].status = "running"}

\* It locks the newest crawl that runs, if there is one ...
ScheduleReads(s) ==
    /\ session[s] = NotScheduling
    /\ Unfinished # {}
    /\ LET id == CHOOSE id \in Unfinished : \A d \in Unfinished : d <= id
       IN /\ CrawlFree(id)
          /\ session' = [session EXCEPT ![s] = [at |-> "resumes", crawl |-> id]]
    /\ UNCHANGED <<crawls, crawlJobs, current, troubles>>

\* ... or finds none, and nothing keeps another scheduler from finding none.
ScheduleFindsNone(s) ==
    /\ session[s] = NotScheduling
    /\ Unfinished = {}
    /\ Len(crawls) < MaxCrawls
    /\ session' = [session EXCEPT ![s] = [at |-> "opens"]]
    /\ UNCHANGED <<crawls, crawlJobs, current, troubles>>

\* A new crawl with its discovery job.  After a completed one it is a daily
\* crawl, which begins with companies whose snapshots are past the horizon, the
\* oldest snapshot first.
OpenCrawl(s) ==
    /\ session[s].at = "opens"
    /\ Len(crawls) < MaxCrawls
    /\ \E stale \in SUBSET current : \E order \in Bijection(stale, 1..Cardinality(stale)) :
         LET daily == \E c \in DOMAIN crawls : crawls[c].status = "completed"
             seeds == IF daily THEN stale ELSE {}
             made  == WithJob(crawlJobs, Len(crawls) + 1, "discovery", << >>)
         IN /\ stale = seeds
            /\ crawls' = Append(crawls,
                 [status |-> "running", daily |-> daily, phase |-> "discovery",
                  position |-> [t \in Tasks |-> IF t \in seeds THEN order[t] ELSE 0],
                  points |-> [t \in Tasks |->
                     IF t \in seeds THEN [Unlisted EXCEPT !.status = "pending"]
                     ELSE Unlisted]])
            /\ crawlJobs' = made.jobs
    /\ Ends(s)
    /\ UNCHANGED <<current, troubles>>

\* A crawl that has a job is left alone.
ScheduleReturns(s) ==
    /\ session[s].at = "resumes"
    /\ LiveJobsOf(crawlJobs, session[s].crawl) # {}
    /\ Ends(s)
    /\ UNCHANGED <<crawls, crawlJobs, current, troubles>>

\* A crawl whose job failed gets another one.
ScheduleResumes(s) ==
    /\ session[s].at = "resumes"
    /\ LET id == session[s].crawl
       IN /\ LiveJobsOf(crawlJobs, id) = {}
          /\ crawls[id].phase # "discovery"
          /\ \E intake \in BOOLEAN :
               \E next \in Continuations(id, crawls[id], crawlJobs, intake) :
                  /\ crawls' = [crawls EXCEPT ![id] = next.crawl]
                  /\ crawlJobs' = next.jobs
    /\ Ends(s)
    /\ UNCHANGED <<current, troubles>>

\* "has no runnable checkpoint", or the discovery job, which has one key for
\* the whole crawl, has ended: an error of the schedule, and nothing changes.
ScheduleRefuses(s) ==
    /\ session[s].at = "resumes"
    /\ LET id == session[s].crawl
       IN /\ LiveJobsOf(crawlJobs, id) = {}
          /\ \/ crawls[id].phase = "discovery"
             \/ \E intake \in BOOLEAN :
                   Continuations(id, crawls[id], crawlJobs, intake) = {}
    /\ Ends(s)
    /\ UNCHANGED <<crawls, crawlJobs, current, troubles>>

-----------------------------------------------------------------------------
(* The worker.                                                             *)

ClaimJob(j) ==
    /\ crawlJobs[j].status \in {"queued", "retry_scheduled"}
    /\ \A k \in DOMAIN crawlJobs : crawlJobs[k].status # "running"
    /\ crawlJobs' = [crawlJobs EXCEPT ![j].status = "running", ![j].tries = @ + 1]
    /\ UNCHANGED <<crawls, current, session, troubles>>

\* Every request fails, or the publication is refused, or the process dies.
FailJob(j) ==
    /\ crawlJobs[j].status = "running"
    /\ troubles < MaxTroubles
    /\ troubles' = troubles + 1
    /\ \/ crawlJobs' = [crawlJobs EXCEPT ![j].status = "failed"]
       \/ /\ crawlJobs[j].tries < MaxTries
          /\ crawlJobs' = [crawlJobs EXCEPT ![j].status = "retry_scheduled"]
    /\ UNCHANGED <<crawls, current, session>>

\* What the lanes of the handler bring back of each checkpoint.  A batch of
\* which no request succeeded is a failure of the job.
CatalogAnswers == {"ok", "failed"}
CompanyAnswers == {"ok", "rejected", "failed"}
Answers(tasks) ==
    {answer \in [tasks -> CompanyAnswers] :
        /\ \A t \in tasks \cap Pages : answer[t] \in CatalogAnswers
        /\ tasks # {} => \E t \in tasks : answer[t] # "failed"}

\* The checkpoint of an answer, claimed by job j.
Answered(point, answer, j) ==
    CASE answer = "ok"       -> [status |-> "succeeded", tries |-> point.tries + 1, by |-> j]
      [] answer = "rejected" -> [status |-> "quarantined", tries |-> point.tries + 1, by |-> j]
      [] answer = "failed"   -> [status |-> "pending", tries |-> point.tries + 1, by |-> 0]

\* Where the pages that were read name t: in which page, and on which line.
Mentions(crawl, read, t) ==
    UNION {{<<IF p \in Pages THEN crawl.position[p] ELSE 0, i>> :
              i \in {k \in DOMAIN Lists[p] : Lists[p][k] = t}} : p \in read}

Precedes(m, n) == m[1] < n[1] \/ (m[1] = n[1] /\ m[2] < n[2])

\* Pages and companies that were found are listed after what is there, in the
\* order in which they were found.  A daily crawl does not ask again for a
\* company that has a snapshot.
Listing(crawl, read) ==
    LET found == {t \in Tasks : /\ crawl.points[t].status = "none"
                               /\ Mentions(crawl, read, t) # {}}
        last == Cardinality({t \in Tasks : crawl.points[t].status # "none"})
        sooner(t) == {u \in found : \E m \in Mentions(crawl, read, u) :
                        \A n \in Mentions(crawl, read, t) : Precedes(m, n)}
    IN [crawl EXCEPT
          !.position = [t \in Tasks |->
             IF t \in found THEN last + Cardinality(sooner(t)) + 1 ELSE @[t]],
          !.points = [t \in Tasks |->
             IF t \in found
             THEN [@[t] EXCEPT !.status =
                     IF crawl.daily /\ t \in current THEN "succeeded" ELSE "pending"]
             ELSE @[t]]]

\* The crawl after the answers to job j.
Progressed(crawl, j, answer) ==
    LET read == IF crawlJobs[j].kind = "discovery" THEN {"sitemap"}
                ELSE {p \in DOMAIN answer \cap Pages : answer[p] = "ok"}
    IN Listing([crawl EXCEPT !.points = [t \in Tasks |->
                   IF t \in DOMAIN answer THEN Answered(@[t], answer[t], j)
                   ELSE @[t]]],
               read)

\* publish_firmoteka_result, in the transaction that completes the job: the
\* answers are recorded and the next job is created, or the crawl is done.
PublishBatch(j) ==
    /\ crawlJobs[j].status = "running"
    /\ CrawlFree(crawlJobs[j].crawl)
    /\ \E answer \in Answers(crawlJobs[j].tasks), intake \in BOOLEAN :
         LET id   == crawlJobs[j].crawl
             done == [crawlJobs EXCEPT ![j].status = "succeeded"]
             then == Progressed(crawls[id], j, answer)
             next == Continuations(id, then, done, intake)
         IN /\ \A t \in DOMAIN answer : crawls[id].points[t].by \in {0, j}
            /\ troubles' = troubles
                 + Cardinality({t \in DOMAIN answer : answer[t] # "ok"})
            /\ troubles' <= MaxTroubles
            /\ current' = current \cup {t \in DOMAIN answer \cap Inns : answer[t] = "ok"}
            /\ \/ /\ next = {}
                  /\ crawls' = [crawls EXCEPT ![id] =
                       [Requeued(then, done) EXCEPT !.status = "completed",
                                                    !.phase = "complete"]]
                  /\ crawlJobs' = done
               \/ \E n \in next :
                    /\ crawls' = [crawls EXCEPT ![id] = n.crawl]
                    /\ crawlJobs' = n.jobs
    /\ UNCHANGED session

CrawlInit ==
    /\ crawls = << >> /\ crawlJobs = << >>
    /\ current = {}
    /\ session = [s \in Schedulers |-> NotScheduling]
    /\ troubles = 0

CrawlNext ==
    \/ \E s \in Schedulers :
         \/ ScheduleReads(s) \/ ScheduleFindsNone(s) \/ OpenCrawl(s)
         \/ ScheduleReturns(s) \/ ScheduleResumes(s) \/ ScheduleRefuses(s)
    \/ \E j \in DOMAIN crawlJobs : ClaimJob(j) \/ FailJob(j) \/ PublishBatch(j)

CrawlSpec == CrawlInit /\ [][CrawlNext]_crawlVars

-----------------------------------------------------------------------------
(* Properties.                                                             *)

\* A checkpoint is only ever handed to a job that will still run, the only one
\* of its crawl: the key of a batch that is asked again is never that of a job
\* that has ended, for create_job would return that job and nobody would come
\* back for its checkpoints; and a scheduler that meets a publication does not
\* start a second chain of jobs.
ClaimsAreLive ==
    [][\A c \in DOMAIN crawls, t \in Tasks :
         LET point == crawls'[c].points[t]
         IN point # crawls[c].points[t] /\ point.status = "running" =>
               /\ crawls'[c].status = "running"
               /\ LiveJobsOf(crawlJobs', c) = {point.by}]_crawlVars

\* A completed crawl has asked for everything it listed.  When resources are
\* short the intake of companies "pauses" (docs/DATA_SCALE_03_FACTORY.md); a
\* pause does not end a crawl.
CompletedIsDrained ==
    \A c \in DOMAIN crawls : crawls[c].status = "completed" =>
        \A t \in Tasks : crawls[c].points[t].status \notin {"pending", "running"}
=============================================================================
