----------------------- MODULE WorkspaceServicesProofs -----------------------
(***************************************************************************)
(* Theorems about two services of a workspace: about the bulk check        *)
(* (BulkCheck) for files of any length, any chunk size and any number of   *)
(* overlapping calls and releases, and about monitoring (Monitoring) for   *)
(* every set of workspaces and of facts, and every bound.                  *)
(***************************************************************************)
EXTENDS BulkCheck, Monitoring, TLAPS

-----------------------------------------------------------------------------
(* The bulk check.  The call that holds the job row knows what it may rely *)
(* on: its rows are still pending, and its release is the one that the job *)
(* names or will name.                                                     *)

\* What a call that has read its chunk relies on.
Working(c) ==
    work[c] # NoWork =>
        /\ jobLock = c
        /\ work[c].release # NoPin
        /\ work[c].chunk \subseteq With(items, "PENDING")
        /\ job.release # NoPin => work[c].release = job.release

\* The inductive invariant.
BulkInv ==
    /\ BulkTypeOK
    /\ OnePinnedRelease
    /\ NoRowStranded
    /\ \A c \in Calls : Working(c)

\* The status that is resolved strands no row.
LEMMA ResolvedStatusRight ==
    ASSUME NEW rows, NEW processing \in BOOLEAN
    PROVE  LET became == ResolvedStatus(rows, processing) IN
           /\ became \in {"READY", "RUNNING"} \cup TerminalJobStatus
           /\ With(rows, "PENDING") # {} <=> became \notin TerminalJobStatus
           /\ became = "CANCELLED" <=>
                With(rows, "PENDING") = {} /\ With(rows, "CANCELLED") # {}
           /\ became = "COMPLETED" =>
                With(rows, "CANCELLED") \cup With(rows, "PROCESSING_ERROR") = {}
<1> USE DEF TerminalJobStatus
<1>1. CASE With(rows, "PENDING") # {}
  BY <1>1 DEF ResolvedStatus
<1>2. CASE With(rows, "PENDING") = {} /\ With(rows, "CANCELLED") # {}
  BY <1>2 DEF ResolvedStatus
<1>3. CASE With(rows, "PENDING") \cup With(rows, "CANCELLED") = {}
           /\ With(rows, "PROCESSING_ERROR") # {}
  BY <1>3 DEF ResolvedStatus
<1>4. CASE With(rows, "PENDING") \cup With(rows, "CANCELLED") = {}
           /\ With(rows, "PROCESSING_ERROR") = {}
  BY <1>4 DEF ResolvedStatus
<1> QED
  BY <1>1, <1>2, <1>3, <1>4

LEMMA BulkInitInv == BulkInit => BulkInv
<1> SUFFICES ASSUME BulkInit PROVE BulkInv
  OBVIOUS
<1> USE BulkAssumption
<1>1. PICK upload \in Uploads :
        /\ items = [r \in Rows |-> [status |-> upload[r], release |-> NoPin]]
        /\ job = [status |-> IF \E r \in Rows : upload[r] = "PENDING"
                             THEN "READY" ELSE "COMPLETED",
                  release |-> NoPin]
  BY DEF BulkInit
<1>2. upload \in [Rows -> ParsedStatus]
  OBVIOUS
<1>3. 0 \in ReleaseIds /\ 0 \in 0..MaxErrors /\ 0 \in 0..MaxEdits
  BY DEF ReleaseIds
<1>4. /\ jobLock = Nobody /\ work = [c \in Calls |-> NoWork] /\ published = 0
      /\ errors = 0 /\ edits = 0
  BY DEF BulkInit
<1> HIDE BulkAssumption
<1>5. BulkTypeOK
  <2>1. items \in [Rows -> [status : ItemStatus, release : ReleaseIds]]
    BY <1>1, <1>2, <1>3 DEF ItemStatus, NoPin
  <2>2. job \in [status : {"READY", "RUNNING"} \cup TerminalJobStatus, release : ReleaseIds]
    BY <1>1, <1>3 DEF TerminalJobStatus, NoPin
  <2>3. work \in [Calls -> [chunk : SUBSET Rows, release : ReleaseIds]]
    BY <1>3, <1>4 DEF NoWork, NoPin
  <2> QED
    BY <1>3, <1>4, <2>1, <2>2, <2>3 DEF BulkTypeOK
<1>6. \A r \in Rows : items[r].status \in {"PENDING", "INVALID_INN", "DUPLICATE"}
                      /\ items[r].status = upload[r]
  BY <1>1, <1>2 DEF ParsedStatus
<1>7. OnePinnedRelease
  BY <1>6 DEF OnePinnedRelease
<1>8. NoRowStranded
  <2>1. /\ With(items, "PENDING") = {r \in Rows : upload[r] = "PENDING"}
        /\ With(items, "CANCELLED") = {} /\ With(items, "PROCESSING_ERROR") = {}
    BY <1>6 DEF With
  <2>2. job.status = IF \E r \in Rows : upload[r] = "PENDING" THEN "READY" ELSE "COMPLETED"
    BY <1>1
  <2> QED
    BY <2>1, <2>2 DEF NoRowStranded, TerminalJobStatus
<1>9. \A c \in Calls : Working(c)
  BY <1>4 DEF Working
<1> QED
  BY <1>5, <1>7, <1>8, <1>9 DEF BulkInv

\* A call that ends.
LEMMA ReleaseFacts ==
    ASSUME BulkInv, NEW c \in Calls, work[c] # NoWork, Release(c)
    PROVE  /\ work' = [d \in Calls |-> NoWork]
           /\ jobLock' = Nobody
<1>1. \A d \in Calls : d # c => work[d] = NoWork
  BY DEF BulkInv, Working
<1>2. jobLock = c
  BY DEF BulkInv, Working
<1> QED
  BY <1>1, <1>2 DEF Release, BulkInv, BulkTypeOK

LEMMA LoadChunkInv ==
    ASSUME BulkInv, NEW c \in Calls, LoadChunk(c)
    PROVE  BulkInv'
<1> DEFINE read == [chunk |-> NextChunk(Chunk), release |-> Pinned]
<1>1. /\ work' = [work EXCEPT ![c] = read] /\ jobLock' = c /\ jobLock = Nobody
      /\ Pinned # NoPin
      /\ UNCHANGED <<items, job, published, errors, edits>>
  BY DEF LoadChunk, JobFree
<1>2. NextChunk(Chunk) \subseteq With(items, "PENDING")
      /\ With(items, "PENDING") \subseteq Rows
  BY DEF NextChunk, With
<1>3. Pinned \in ReleaseIds /\ (job.release # NoPin => Pinned = job.release)
  BY DEF Pinned, BulkInv, BulkTypeOK
<1>4. read \in [chunk : SUBSET Rows, release : ReleaseIds]
  BY <1>2, <1>3
<1>5. \A d \in Calls : work[d] = NoWork
  BY <1>1, BulkAssumption DEF BulkInv, Working
<1>6. /\ work'[c].chunk = NextChunk(Chunk) /\ work'[c].release = Pinned
      /\ \A d \in Calls : d # c => work'[d] = NoWork
      /\ work' \in [Calls -> [chunk : SUBSET Rows, release : ReleaseIds]]
  BY <1>1, <1>4, <1>5 DEF BulkInv, BulkTypeOK
<1>7. BulkTypeOK'
  BY <1>1, <1>6 DEF BulkInv, BulkTypeOK
<1>8. With(items, "PENDING")' = With(items, "PENDING")
  BY <1>1 DEF With
<1>9. (\A d \in Calls : Working(d))'
  BY <1>1, <1>2, <1>3, <1>6, <1>8 DEF Working
<1>10. OnePinnedRelease' /\ NoRowStranded'
  BY <1>1 DEF BulkInv, OnePinnedRelease, NoRowStranded, With
<1> QED
  BY <1>7, <1>9, <1>10 DEF BulkInv

\* The rows that a chunk settles.
LEMMA ChunkSettledInv ==
    ASSUME BulkInv, NEW c \in Calls, work[c] # NoWork, NEW outcome,
           outcome \in [work[c].chunk -> RowOutcomes(work[c].release)],
           Settle(c, outcome), errors' \in 0..MaxErrors
    PROVE  BulkInv'
<1>1. /\ items' = [r \in Rows |-> IF r \in work[c].chunk THEN outcome[r] ELSE items[r]]
      /\ job' = [status |-> ResolvedStatus(items', TRUE), release |-> work[c].release]
      /\ Release(c) /\ UNCHANGED <<published, edits>>
  BY DEF Settle
<1>2. /\ work' = [d \in Calls |-> NoWork] /\ jobLock' = Nobody
  BY <1>1, ReleaseFacts
<1>3. /\ work[c].release \in ReleaseIds /\ work[c].release # NoPin
      /\ work[c].chunk \subseteq Rows /\ 0 \in ReleaseIds
      /\ job.release # NoPin => work[c].release = job.release
  BY BulkAssumption DEF BulkInv, BulkTypeOK, Working, ReleaseIds
<1>4. \A r \in work[c].chunk : /\ outcome[r] \in [status : ItemStatus, release : ReleaseIds]
                               /\ outcome[r].status = "READY" =>
                                     outcome[r].release = work[c].release
  BY <1>3 DEF RowOutcomes, ItemStatus, NoPin
<1>5. ResolvedStatus(items', TRUE) \in {"READY", "RUNNING"} \cup TerminalJobStatus
  BY ResolvedStatusRight
<1>6. BulkTypeOK'
  <2>1. items' \in [Rows -> [status : ItemStatus, release : ReleaseIds]]
    BY <1>1, <1>4 DEF BulkInv, BulkTypeOK
  <2>2. job' \in [status : {"READY", "RUNNING"} \cup TerminalJobStatus, release : ReleaseIds]
    BY <1>1, <1>3, <1>5
  <2>3. work' \in [Calls -> [chunk : SUBSET Rows, release : ReleaseIds]]
    BY <1>2, <1>3 DEF NoWork, NoPin
  <2> QED
    BY <1>1, <1>2, <2>1, <2>2, <2>3 DEF BulkInv, BulkTypeOK
<1>7. OnePinnedRelease'
  BY <1>1, <1>3, <1>4 DEF BulkInv, OnePinnedRelease
<1>8. NoRowStranded'
  <2>1. job'.status = ResolvedStatus(items', TRUE)
    BY <1>1
  <2> QED
    BY <2>1, ResolvedStatusRight DEF NoRowStranded
<1>9. (\A d \in Calls : Working(d))'
  BY <1>2 DEF Working
<1> QED
  BY <1>6, <1>7, <1>8, <1>9 DEF BulkInv

\* The rows of one status are moved to another, which is no result.
LEMMA EditInv ==
    ASSUME BulkInv, NEW from \in ItemStatus, NEW to \in ItemStatus \ {"READY"},
           jobLock = Nobody, Edited(Moved(from, to)), edits' \in 0..MaxEdits
    PROVE  BulkInv'
<1>1. /\ items' = Moved(from, to)
      /\ job' = [job EXCEPT !.status = ResolvedStatus(Moved(from, to), FALSE)]
      /\ UNCHANGED <<jobLock, work, published, errors>>
  BY DEF Edited
<1>2. job \in [status : {"READY", "RUNNING"} \cup TerminalJobStatus, release : ReleaseIds]
      /\ 0 \in ReleaseIds
  BY BulkAssumption DEF BulkInv, BulkTypeOK, ReleaseIds
<1>3. job'.status = ResolvedStatus(items', FALSE) /\ job'.release = job.release
      /\ job' \in [status : {"READY", "RUNNING"} \cup TerminalJobStatus, release : ReleaseIds]
  BY <1>1, <1>2, ResolvedStatusRight
<1>4. \A r \in Rows : items'[r] = IF items[r].status = from
                                  THEN [status |-> to, release |-> NoPin] ELSE items[r]
  BY <1>1 DEF Moved
<1>5. BulkTypeOK'
  <2>1. items' \in [Rows -> [status : ItemStatus, release : ReleaseIds]]
    BY <1>1, <1>2 DEF Moved, BulkInv, BulkTypeOK, NoPin
  <2> QED
    BY <1>1, <1>3, <2>1 DEF BulkInv, BulkTypeOK
<1>6. OnePinnedRelease'
  BY <1>3, <1>4 DEF BulkInv, OnePinnedRelease
<1>7. NoRowStranded'
  BY <1>3, ResolvedStatusRight DEF NoRowStranded
<1>8. \A c \in Calls : work[c] = NoWork
  BY BulkAssumption DEF BulkInv, Working
<1>9. (\A c \in Calls : Working(c))'
  BY <1>1, <1>8 DEF Working
<1> QED
  BY <1>5, <1>6, <1>7, <1>9 DEF BulkInv

LEMMA BulkStepInv ==
    ASSUME BulkInv, [BulkNext]_bulkVars
    PROVE  BulkInv'
<1>1. ASSUME NEW c \in Calls, LoadChunk(c) PROVE BulkInv'
  BY <1>1, LoadChunkInv
<1>2. ASSUME NEW c \in Calls, CommitChunk(c) PROVE BulkInv'
  <2>1. errors' \in 0..MaxErrors
    BY <1>2 DEF CommitChunk, BulkInv, BulkTypeOK
  <2> QED
    BY <1>2, <2>1, ChunkSettledInv DEF CommitChunk
<1>3. ASSUME NEW c \in Calls, CommitUnreadableChunk(c) PROVE BulkInv'
  <2>1. errors' \in 0..MaxErrors
    BY <1>3, BulkAssumption DEF CommitUnreadableChunk, BulkInv, BulkTypeOK
  <2>2. \A release : OutcomesWithoutBatch \subseteq RowOutcomes(release)
    BY DEF OutcomesWithoutBatch, RowOutcomes
  <2>3. PICK outcome \in [work[c].chunk -> OutcomesWithoutBatch] : Settle(c, outcome)
    BY <1>3 DEF CommitUnreadableChunk
  <2>4. outcome \in [work[c].chunk -> RowOutcomes(work[c].release)]
    BY <2>2, <2>3
  <2> QED
    BY <1>3, <2>1, <2>3, <2>4, ChunkSettledInv DEF CommitUnreadableChunk
<1>4. ASSUME NEW c \in Calls, LoseChunk(c) PROVE BulkInv'
  <2>1. /\ work' = [d \in Calls |-> NoWork] /\ jobLock' = Nobody
        /\ UNCHANGED <<items, job, published, edits>>
    BY <1>4, ReleaseFacts DEF LoseChunk
  <2>2. errors' \in 0..MaxErrors /\ 0 \in ReleaseIds
    BY <1>4, BulkAssumption DEF LoseChunk, BulkInv, BulkTypeOK, ReleaseIds
  <2>3. BulkTypeOK'
    BY <2>1, <2>2 DEF BulkInv, BulkTypeOK, NoWork, NoPin
  <2> QED
    BY <2>1, <2>3 DEF BulkInv, OnePinnedRelease, NoRowStranded, Working, With
<1>5. ASSUME CancelJob PROVE BulkInv'
  <2>1. edits' \in 0..MaxEdits
    BY <1>5, BulkAssumption DEF CancelJob, BulkInv, BulkTypeOK
  <2> QED
    BY <1>5, <2>1, EditInv DEF CancelJob, ItemStatus, ParsedStatus
<1>6. ASSUME ResumeJob PROVE BulkInv'
  <2>1. edits' \in 0..MaxEdits
    BY <1>6 DEF ResumeJob, BulkInv, BulkTypeOK
  <2> QED
    BY <1>6, <2>1, EditInv DEF ResumeJob, ItemStatus, ParsedStatus
<1>7. ASSUME RetryJob PROVE BulkInv'
  <2>1. edits' \in 0..MaxEdits
    BY <1>7, BulkAssumption DEF RetryJob, BulkInv, BulkTypeOK
  <2> QED
    BY <1>7, <2>1, EditInv DEF RetryJob, ItemStatus, ParsedStatus
<1>8. ASSUME PublishNext PROVE BulkInv'
  <2>1. published' \in ReleaseIds
    BY <1>8, BulkAssumption DEF PublishNext, BulkInv, BulkTypeOK, ReleaseIds
  <2> QED
    BY <1>8, <2>1 DEF PublishNext, BulkInv, BulkTypeOK, OnePinnedRelease, NoRowStranded,
       Working, With
<1>9. CASE UNCHANGED bulkVars
  BY <1>9 DEF bulkVars, BulkInv, BulkTypeOK, OnePinnedRelease, NoRowStranded, Working, With
<1> QED
  BY <1>1, <1>2, <1>3, <1>4, <1>5, <1>6, <1>7, <1>8, <1>9 DEF BulkNext

-----------------------------------------------------------------------------
(* Theorems.                                                               *)

THEOREM BulkInvariant == BulkSpec => []BulkInv
<1>1. BulkInv /\ [BulkNext]_bulkVars => BulkInv'
  BY BulkStepInv
<1> QED
  BY <1>1, BulkInitInv, PTL DEF BulkSpec

\* Rows, job and calls keep their shape.
THEOREM BulkTypes == BulkSpec => []BulkTypeOK
<1>1. BulkInv => BulkTypeOK
  BY DEF BulkInv
<1> QED
  BY <1>1, BulkInvariant, PTL

\* Every result of a job comes from the release that the job names
\* (process_bulk_job_chunk, _pin_release).
THEOREM PinHolds == BulkSpec => []OnePinnedRelease
<1>1. BulkInv => OnePinnedRelease
  BY DEF BulkInv
<1> QED
  BY <1>1, BulkInvariant, PTL

\* No row is left behind by the status of its job (_resolve_bulk_job_status).
THEOREM RowsReachable == BulkSpec => []NoRowStranded
<1>1. BulkInv => NoRowStranded
  BY DEF BulkInv
<1> QED
  BY <1>1, BulkInvariant, PTL

\* A row that has its answer keeps it (process_bulk_job_chunk,
\* retry_bulk_job, cancel_bulk_job, resume_bulk_job).
THEOREM AnswersRemain == BulkSpec => AnsweredRowsRemain
<1> DEFINE Answered == {"READY", "NOT_RESOLVED", "NOT_READY", "INVALID_INN", "DUPLICATE"}
           Remain == \A r \in Rows : items[r].status \in Answered => items'[r] = items[r]
<1>1. BulkInv /\ [BulkNext]_bulkVars => [Remain]_bulkVars
  <2> SUFFICES ASSUME BulkInv, BulkNext PROVE Remain
    OBVIOUS
  <2>1. ASSUME NEW c \in Calls, work[c] # NoWork, NEW outcome, Settle(c, outcome) PROVE Remain
    <3>1. work[c].chunk \subseteq With(items, "PENDING")
      BY <2>1 DEF BulkInv, Working
    <3> QED
      BY <2>1, <3>1 DEF Settle, With
  <2>2. ASSUME NEW from \in {"PENDING", "CANCELLED", "PROCESSING_ERROR"}, NEW to,
               Edited(Moved(from, to))
        PROVE  Remain
    BY <2>2 DEF Edited, Moved
  <2>3. ASSUME UNCHANGED items PROVE Remain
    BY <2>3
  <2>4. ASSUME NEW c \in Calls,
               LoadChunk(c) \/ CommitChunk(c) \/ CommitUnreadableChunk(c) \/ LoseChunk(c)
        PROVE  Remain
    BY <2>1, <2>3, <2>4 DEF LoadChunk, CommitChunk, CommitUnreadableChunk, LoseChunk
  <2>5. CASE CancelJob \/ ResumeJob \/ RetryJob
    BY <2>2, <2>5 DEF CancelJob, ResumeJob, RetryJob
  <2>6. CASE PublishNext
    BY <2>3, <2>6 DEF PublishNext
  <2> QED
    BY <2>4, <2>5, <2>6 DEF BulkNext
<1> QED
  BY <1>1, BulkInvariant, PTL DEF BulkSpec, AnsweredRowsRemain

-----------------------------------------------------------------------------
(* Monitoring: what a feed shows is what ChangeFeed promises, its reader   *)
(* is up to date, and what is monitored is saved.                          *)

-----------------------------------------------------------------------------
(* Snapshots.                                                              *)

\* What is known after an observation, apart from the rest of the snapshot.
LEMMA SnapshotFacts ==
    ASSUME fact \in Observations, NEW previous \in Snapshots
    PROVE  /\ Snapshot(previous) \in Snapshots
           /\ fact.kind = "business" => /\ fact.fact \in Facts
                                        /\ Snapshot(previous).known = fact.fact
                                        /\ ~Snapshot(previous).blocked
           /\ fact.kind # "business" /\ Snapshot(previous).blocked =>
                 Snapshot(previous).known = Unknown
           /\ fact.kind # "business" /\ ~Snapshot(previous).blocked =>
                 Snapshot(previous).known = previous.known /\ ~previous.blocked
           /\ Snapshot(previous).blocked <=> Blocks(previous)
  <1>1. CASE fact.kind = "business"
    <2>1. fact.fact \in Facts
      BY <1>1 DEF Observations
    <2>2. Blocks(previous) = FALSE /\ Known(previous) = fact.fact
      BY <1>1 DEF Blocks, Known
    <2> QED
      BY <1>1, <2>1, <2>2 DEF Snapshot, Snapshots
  <1>2. CASE fact.kind # "business" /\ Blocks(previous)
    <2>1. Known(previous) = Unknown
      BY <1>2 DEF Known
    <2> QED
      BY <1>2, <2>1 DEF Snapshot, Snapshots
  <1>3. CASE fact.kind # "business" /\ ~Blocks(previous)
    <2>1. Known(previous) = previous.known
      BY <1>3 DEF Known
    <2> QED
      BY <1>3, <2>1 DEF Snapshot, Snapshots, Blocks
  <1> QED
    BY <1>1, <1>2, <1>3

LEMMA ValueFacts ==
    /\ \A f \in Facts : ValueOf(f) = f.value /\ f.value # Unknown
    /\ ValueOf(Unknown) = Unknown
    /\ \A k \in Facts \cup {Unknown} : ValueOf(k) \in Values \cup {Unknown}
  BY MonitoringAssumption DEF ValueOf, Values

-----------------------------------------------------------------------------
(* The inductive invariant.                                                *)

\* A workspace that never subscribed has learnt nothing; a blocked coordinate
\* forgot its fact; and an unsave that holds the lock of the saved company
\* found no active subscription, so none begins before it ends.
BaselinesAgree ==
    \A w \in Workspaces :
        /\ status[w] = "NONE" => baseline[w] = NoSnapshot
        /\ baseline[w].blocked => baseline[w].known = Unknown
        /\ unsaving[w] = "locked" => status[w] # "ACTIVE"

MonitoringInv == /\ MonitoringTypeOK /\ BaselinesAgree
                 /\ ReaderIsUpToDate /\ MonitoredIsSaved

LEMMA MonitoringInitInv == MonitoringInit => MonitoringInv
  <1> SUFFICES ASSUME MonitoringInit PROVE MonitoringInv
    OBVIOUS
  <1>1. MonitoringTypeOK
    BY MonitoringAssumption DEF MonitoringInit, MonitoringTypeOK, Observations, Snapshots,
       NoSnapshot
  <1>2. BaselinesAgree /\ ReaderIsUpToDate /\ MonitoredIsSaved
    BY DEF MonitoringInit, BaselinesAgree, ReaderIsUpToDate, MonitoredIsSaved, NoSnapshot
  <1> QED
    BY <1>1, <1>2 DEF MonitoringInv

\* Operations that touch neither a snapshot nor a feed.
LEMMA MaterialiseStep ==
    ASSUME MonitoringInv, Materialise
    PROVE  MonitoringInv'
  BY MonitoringAssumption DEF MonitoringInv, MonitoringTypeOK, BaselinesAgree,
     ReaderIsUpToDate, MonitoredIsSaved, Materialise

LEMMA SaveStep ==
    ASSUME MonitoringInv, NEW w \in Workspaces, Save(w) \/ SwitchEntitlement(w)
    PROVE  MonitoringInv'
  <1>1. CASE Save(w)
    BY <1>1 DEF MonitoringInv, MonitoringTypeOK, BaselinesAgree,
       ReaderIsUpToDate, MonitoredIsSaved, Save
  <1>2. CASE SwitchEntitlement(w)
    BY <1>2, MonitoringAssumption DEF MonitoringInv, MonitoringTypeOK, BaselinesAgree,
       ReaderIsUpToDate, MonitoredIsSaved, SwitchEntitlement
  <1> QED
    BY <1>1, <1>2

LEMMA UnsaveStep ==
    ASSUME MonitoringInv, NEW w \in Workspaces, BeginUnsave(w) \/ EndUnsave(w)
    PROVE  MonitoringInv'
  <1>1. CASE BeginUnsave(w)
    BY <1>1, MonitoringAssumption DEF MonitoringInv, MonitoringTypeOK, BaselinesAgree,
       ReaderIsUpToDate, MonitoredIsSaved, BeginUnsave
  <1>2. CASE EndUnsave(w)
    BY <1>2 DEF MonitoringInv, MonitoringTypeOK, BaselinesAgree,
       ReaderIsUpToDate, MonitoredIsSaved, EndUnsave
  <1> QED
    BY <1>1, <1>2

LEMMA PauseStep ==
    ASSUME MonitoringInv, NEW w \in Workspaces, Pause(w)
    PROVE  MonitoringInv'
  BY MonitoringAssumption DEF MonitoringInv, MonitoringTypeOK, BaselinesAgree,
     ReaderIsUpToDate, MonitoredIsSaved, Pause

\* A subscription that begins or resumes takes its baseline anew.
LEMMA FollowStep ==
    ASSUME MonitoringInv, NEW w \in Workspaces, NEW previous \in Snapshots,
           HasSaved(w), status' = [status EXCEPT ![w] = "ACTIVE"],
           baseline' = [baseline EXCEPT ![w] = Snapshot(previous)],
           told' = [told EXCEPT ![w] = ValueOf(Snapshot(previous).known)],
           UNCHANGED <<fact, saved, unsaving, entitled, feed, repeated, torn,
                       materialised, acts>>
    PROVE  MonitoringInv'
  <1> USE DEF MonitoringInv
  <1> DEFINE new == Snapshot(previous)
  <1>1. new \in Snapshots /\ (new.blocked => new.known = Unknown)
    BY SnapshotFacts DEF MonitoringTypeOK
  <1> HIDE DEF new
  <1>2. ValueOf(new.known) \in Values \cup {Unknown}
    BY <1>1, ValueFacts DEF Snapshots
  <1>3. MonitoringTypeOK'
    BY <1>1, <1>2 DEF MonitoringTypeOK, new
  <1>4. BaselinesAgree'
    BY <1>1 DEF MonitoringTypeOK, BaselinesAgree, HasSaved, new
  <1>5. ReaderIsUpToDate' /\ MonitoredIsSaved'
    BY DEF MonitoringTypeOK, ReaderIsUpToDate, MonitoredIsSaved, HasSaved, new
  <1> QED
    BY <1>3, <1>4, <1>5

\* What a scan does to one workspace.
ScanServes(w) ==
    LET current == Snapshot(baseline[w])
        changed == w \in Served /\ Changed(baseline[w], current)
        met == Seen(feed[w], Event(baseline[w]))
    IN /\ baseline'[w] = IF w \in Served THEN current ELSE baseline[w]
       /\ feed'[w] = IF changed /\ ~met THEN Append(feed[w], Event(baseline[w]))
                     ELSE feed[w]
       /\ changed /\ ~met => told'[w] = fact.fact.value
       /\ ~(changed /\ ~met) /\ w \in Served /\ (baseline[w].blocked \/ current.blocked)
             => told'[w] = ValueOf(current.known)
       /\ ~(changed /\ ~met) /\ ~(w \in Served /\ (baseline[w].blocked \/ current.blocked))
             => told'[w] = told[w]
       /\ w \in repeated' <=> w \in repeated \/ (changed /\ met)

LEMMA ScanEach ==
    ASSUME MonitoringInv, Scan, NEW w \in Workspaces
    PROVE  ScanServes(w)
  <1>1. Served \subseteq Workspaces
    BY DEF Served, MonitoringInv, MonitoringTypeOK
  <1> DEFINE current == Snapshot(baseline[w])
             changed == w \in Served /\ Changed(baseline[w], current)
             met == Seen(feed[w], Event(baseline[w]))
  <1>2. baseline'[w] = IF w \in Served THEN current ELSE baseline[w]
    BY DEF Scan
  <1>3. feed'[w] = IF changed /\ ~met THEN Append(feed[w], Event(baseline[w])) ELSE feed[w]
    BY <1>1 DEF Scan
  <1>4. told'[w] =
          CASE changed /\ ~met -> fact.fact.value
            [] w \in Served /\ (baseline[w].blocked \/ current.blocked)
                 -> ValueOf(current.known)
            [] OTHER -> told[w]
    BY <1>1 DEF Scan
  <1>5. w \in repeated' <=> w \in repeated \/ (changed /\ met)
    BY <1>1 DEF Scan
  <1>6. /\ changed /\ ~met => told'[w] = fact.fact.value
        /\ ~(changed /\ ~met) /\ w \in Served /\ (baseline[w].blocked \/ current.blocked)
              => told'[w] = ValueOf(current.known)
        /\ ~(changed /\ ~met) /\ ~(w \in Served /\ (baseline[w].blocked \/ current.blocked))
              => told'[w] = told[w]
    <2>1. changed => ~baseline[w].blocked /\ ~current.blocked
      BY DEF Changed
    <2> HIDE DEF current, changed, met
    <2> QED
      BY <1>4, <2>1
  <1> QED
    BY <1>2, <1>3, <1>5, <1>6 DEF ScanServes

LEMMA ScanStep ==
    ASSUME MonitoringInv, Scan
    PROVE  MonitoringInv'
  <1> USE DEF MonitoringInv
  <1>0. /\ UNCHANGED <<fact, saved, unsaving, entitled, status, torn, materialised, acts>>
        /\ DOMAIN baseline' = Workspaces /\ DOMAIN told' = Workspaces
        /\ DOMAIN feed' = Workspaces /\ Served \subseteq Workspaces
    BY DEF Scan, Served, MonitoringTypeOK
  <1>1. ASSUME NEW w \in Workspaces
        PROVE  /\ baseline'[w] \in Snapshots
               /\ baseline'[w].blocked => baseline'[w].known = Unknown
               /\ feed'[w] \in Seq((Facts \cup {Unknown}) \X Facts)
               /\ told'[w] \in Values \cup {Unknown}
               /\ status[w] = "NONE" => baseline'[w] = NoSnapshot
               /\ status[w] = "ACTIVE" /\ w \notin repeated' =>
                     told'[w] = ValueOf(baseline'[w].known)
    <2> DEFINE current == Snapshot(baseline[w])
               changed == w \in Served /\ Changed(baseline[w], current)
               met == Seen(feed[w], Event(baseline[w]))
    <2>1. baseline[w] \in Snapshots /\ fact \in Observations
      BY DEF MonitoringTypeOK
    <2>2. /\ current \in Snapshots
          /\ current.blocked => current.known = Unknown
          /\ fact.kind = "business" => /\ fact.fact \in Facts
                                       /\ current.known = fact.fact
          /\ fact.kind # "business" /\ ~current.blocked => current.known = baseline[w].known
      BY <2>1, SnapshotFacts
    <2>3. /\ baseline'[w] = IF w \in Served THEN current ELSE baseline[w]
          /\ feed'[w] = IF changed /\ ~met THEN Append(feed[w], Event(baseline[w]))
                        ELSE feed[w]
          /\ changed /\ ~met => told'[w] = fact.fact.value
          /\ ~(changed /\ ~met) /\ w \in Served /\ (baseline[w].blocked \/ current.blocked)
                => told'[w] = ValueOf(current.known)
          /\ ~(changed /\ ~met) /\ ~(w \in Served /\ (baseline[w].blocked \/ current.blocked))
                => told'[w] = told[w]
          /\ w \in repeated' <=> w \in repeated \/ (changed /\ met)
      BY ScanEach DEF ScanServes
    <2>4. changed => /\ w \in Served /\ fact.kind = "business"
                     /\ ~baseline[w].blocked /\ ~current.blocked
      BY DEF Changed
    <2>5. /\ w \in Served /\ ~baseline[w].blocked /\ ~current.blocked /\ ~changed
          /\ fact.kind = "business"
          => ValueOf(baseline[w].known) = fact.fact.value
      BY DEF Changed
    <2>6. w \in Served => status[w] = "ACTIVE"
      BY DEF Served
    <2> HIDE DEF current, changed, met
    <2>7. baseline'[w] \in Snapshots /\ (baseline'[w].blocked => baseline'[w].known = Unknown)
      BY <2>1, <2>2, <2>3 DEF BaselinesAgree
    <2>8. feed'[w] \in Seq((Facts \cup {Unknown}) \X Facts)
      <3>1. changed => Event(baseline[w]) \in (Facts \cup {Unknown}) \X Facts
        BY <2>1, <2>2, <2>4 DEF Event, Snapshots
      <3>2. feed[w] \in Seq((Facts \cup {Unknown}) \X Facts)
        BY DEF MonitoringTypeOK
      <3> QED
        BY <2>3, <3>1, <3>2
    <2>9. told'[w] \in Values \cup {Unknown}
      <3>1. told[w] \in Values \cup {Unknown}
        BY DEF MonitoringTypeOK
      <3>2. fact.kind = "business" => fact.fact.value \in Values
        BY <2>2 DEF Values
      <3>3. ValueOf(current.known) \in Values \cup {Unknown}
        BY <2>2, ValueFacts DEF Snapshots
      <3> QED
        BY <2>3, <2>4, <3>1, <3>2, <3>3
    <2>10. status[w] = "NONE" => baseline'[w] = NoSnapshot
      BY <2>3, <2>6 DEF BaselinesAgree
    <2>11. status[w] = "ACTIVE" /\ w \notin repeated' =>
              told'[w] = ValueOf(baseline'[w].known)
      <3> SUFFICES ASSUME status[w] = "ACTIVE", w \notin repeated'
                   PROVE  told'[w] = ValueOf(baseline'[w].known)
        OBVIOUS
      <3>1. told[w] = ValueOf(baseline[w].known)
        BY <2>3 DEF ReaderIsUpToDate
      <3>2. CASE w \notin Served
        BY <2>3, <2>4, <3>1, <3>2
      <3>3. CASE changed
        BY <2>2, <2>3, <2>4, <3>3, ValueFacts
      <3>4. CASE w \in Served /\ ~changed /\ (baseline[w].blocked \/ current.blocked)
        BY <2>3, <3>4
      <3>5. CASE w \in Served /\ ~changed /\ ~baseline[w].blocked /\ ~current.blocked
        BY <2>2, <2>3, <2>5, <3>1, <3>5, ValueFacts
      <3> QED
        BY <3>2, <3>3, <3>4, <3>5
    <2> QED
      BY <2>7, <2>8, <2>9, <2>10, <2>11
  <1>2. baseline' \in [Workspaces -> Snapshots] /\ told' \in [Workspaces -> Values \cup {Unknown}]
    <2>1. baseline' = [w \in Workspaces |-> baseline'[w]]
      BY <1>0 DEF Scan
    <2>2. told' = [w \in Workspaces |-> told'[w]]
      BY <1>0 DEF Scan
    <2> QED
      BY <1>1, <2>1, <2>2
  <1>3. repeated' \subseteq Workspaces
    BY <1>0 DEF Scan, MonitoringTypeOK
  <1>4. MonitoringTypeOK'
    BY <1>0, <1>1, <1>2, <1>3 DEF MonitoringTypeOK
  <1>5. BaselinesAgree' /\ ReaderIsUpToDate' /\ MonitoredIsSaved'
    BY <1>0, <1>1 DEF BaselinesAgree, ReaderIsUpToDate, MonitoredIsSaved
  <1> QED
    BY <1>4, <1>5

LEMMA MonitoringStep == MonitoringInv /\ [MonitoringNext]_monitoringVars => MonitoringInv'
  <1> SUFFICES ASSUME MonitoringInv, [MonitoringNext]_monitoringVars PROVE MonitoringInv'
    OBVIOUS
  <1>1. ASSUME NEW w \in Workspaces, Subscribe(w) PROVE MonitoringInv'
    <2>1. NoSnapshot \in Snapshots
      BY DEF NoSnapshot, Snapshots
    <2>2. told' = [told EXCEPT ![w] = ValueOf(Snapshot(NoSnapshot).known)]
      BY <1>1 DEF Subscribe, MonitoringInv, MonitoringTypeOK
    <2> QED
      BY <1>1, <2>1, <2>2, FollowStep DEF Subscribe
  <1>2. ASSUME NEW w \in Workspaces, Resume(w) PROVE MonitoringInv'
    <2>1. baseline[w] \in Snapshots
      BY DEF MonitoringInv, MonitoringTypeOK
    <2>2. told' = [told EXCEPT ![w] = ValueOf(Snapshot(baseline[w]).known)]
      BY <1>2 DEF Resume, MonitoringInv, MonitoringTypeOK
    <2> QED
      BY <1>2, <2>1, <2>2, FollowStep DEF Resume
  <1>3. CASE UNCHANGED monitoringVars
    BY <1>3 DEF monitoringVars, MonitoringInv, MonitoringTypeOK, BaselinesAgree,
       ReaderIsUpToDate, MonitoredIsSaved
  <1> QED
    BY <1>1, <1>2, <1>3, MaterialiseStep, ScanStep, SaveStep, UnsaveStep, PauseStep
       DEF MonitoringNext

-----------------------------------------------------------------------------
(* Theorems.                                                               *)

THEOREM MonitoringInvariant == MonitoringSpec => []MonitoringInv
  BY MonitoringInitInv, MonitoringStep, PTL DEF MonitoringSpec

\* The rows keep their shape.
THEOREM MonitoringTypes == MonitoringSpec => []MonitoringTypeOK
  <1>1. MonitoringInv => MonitoringTypeOK
    BY DEF MonitoringInv
  <1> QED
    BY <1>1, MonitoringInvariant, PTL

\* Whoever reads the card when the subscription begins or resumes, and the feed
\* from then on, knows the last known value (detect_changes, persist_events).
THEOREM FeedTellsAll == MonitoringSpec => []ReaderIsUpToDate
  <1>1. MonitoringInv => ReaderIsUpToDate
    BY DEF MonitoringInv
  <1> QED
    BY <1>1, MonitoringInvariant, PTL

\* What is monitored is saved, as long as every unsave found a row to lock
\* (unsave_company, subscribe_company, resume_subscription).
THEOREM MonitoredStaysSaved == MonitoringSpec => []MonitoredIsSaved
  <1>1. MonitoringInv => MonitoredIsSaved
    BY DEF MonitoringInv
  <1> QED
    BY <1>1, MonitoringInvariant, PTL

-----------------------------------------------------------------------------
(* The feed implements ChangeFeed.                                         *)

Followers == {w \in Workspaces : status[w] = "ACTIVE"}
BeliefOf(w) == IF baseline[w].blocked THEN Hidden ELSE baseline[w].known
Believed == [w \in Workspaces |-> BeliefOf(w)]

\* What a snapshot makes of a belief is something a follower may learn.
LEMMA SnapshotLearns ==
    ASSUME MonitoringInv, NEW previous \in Snapshots, NEW before, NEW after,
           before = IF previous.blocked THEN Hidden ELSE previous.known,
           after = IF Snapshot(previous).blocked THEN Hidden ELSE Snapshot(previous).known
    PROVE  after \in Promise!Beliefs /\ Promise!Learns(before, after)
  <1>1. fact \in Observations
    BY DEF MonitoringInv, MonitoringTypeOK
  <1>2. /\ Snapshot(previous) \in Snapshots
        /\ fact.kind = "business" => fact.fact \in Facts /\ after = fact.fact
        /\ fact.kind # "business" /\ Snapshot(previous).blocked => after = Hidden
        /\ fact.kind # "business" /\ ~Snapshot(previous).blocked => after = before
    BY <1>1, SnapshotFacts
  <1>3. after \in Facts \cup {Hidden, before}
    BY <1>2
  <1>4. after \in Facts \cup {Unknown, Hidden}
    BY <1>2 DEF Snapshots
  <1> QED
    BY <1>3, <1>4 DEF Promise!Beliefs, Promise!Learns

\* A subscription that begins or resumes begins to follow.
LEMMA FollowSeen ==
    ASSUME MonitoringInv, NEW w \in Workspaces, NEW previous \in Snapshots,
           status[w] # "ACTIVE", previous = baseline[w],
           status' = [status EXCEPT ![w] = "ACTIVE"],
           baseline' = [baseline EXCEPT ![w] = Snapshot(previous)],
           UNCHANGED feed
    PROVE  Promise!Follow(w)
  <1> DEFINE after == IF Snapshot(previous).blocked THEN Hidden
                      ELSE Snapshot(previous).known
  <1>1. /\ BeliefOf(w) = IF previous.blocked THEN Hidden ELSE previous.known
        /\ after \in Promise!Beliefs /\ Promise!Learns(BeliefOf(w), after)
    BY SnapshotLearns DEF BeliefOf
  <1>2. w \notin Followers /\ Followers' = Followers \cup {w}
    BY DEF Followers, MonitoringInv, MonitoringTypeOK
  <1>3. Believed' = [Believed EXCEPT ![w] = after]
    BY DEF Believed, BeliefOf, MonitoringInv, MonitoringTypeOK
  <1>4. Believed[w] = BeliefOf(w)
    BY DEF Believed
  <1> HIDE DEF after
  <1> QED
    BY <1>1, <1>2, <1>3, <1>4 DEF Promise!Follow, Followers, Believed, BeliefOf

\* A scan shows each follower the move from what it last learnt, if the move is
\* noteworthy and new to its feed, and shows the others nothing.
LEMMA ScanSeen ==
    ASSUME MonitoringInv, Scan
    PROVE  Promise!Observe
  <1>0. MonitoringInv'
    BY ScanStep
  <1>1. Followers' = Followers
    BY DEF Scan, Followers
  <1>2. Believed' \in [Workspaces -> Facts \cup {Unknown, Hidden}]
    BY <1>0 DEF Believed, BeliefOf, MonitoringInv, MonitoringTypeOK, Snapshots
  <1>3. feed' \in [Workspaces -> Seq((Facts \cup {Unknown, Hidden}) \X Facts)]
    <2>1. \A w \in Workspaces : feed'[w] \in Seq((Facts \cup {Unknown}) \X Facts)
      BY <1>0 DEF MonitoringInv, MonitoringTypeOK
    <2>2. Seq((Facts \cup {Unknown}) \X Facts) \subseteq Seq((Facts \cup {Unknown, Hidden}) \X Facts)
      OBVIOUS
    <2>3. feed' = [w \in Workspaces |-> feed'[w]]
      BY DEF Scan
    <2> QED
      BY <2>1, <2>2, <2>3
  <1>4. ASSUME NEW w \in Workspaces
        PROVE  \/ /\ BeliefOf(w)' = BeliefOf(w)
                  /\ feed'[w] = feed[w]
               \/ /\ w \in Followers
                  /\ Promise!Learns(BeliefOf(w), BeliefOf(w)')
                  /\ feed'[w] = Promise!Delivered(feed[w], BeliefOf(w), BeliefOf(w)')
    <2> DEFINE current == Snapshot(baseline[w])
               changed == w \in Served /\ Changed(baseline[w], current)
               met == Seen(feed[w], Event(baseline[w]))
               before == BeliefOf(w)
               after == IF current.blocked THEN Hidden ELSE current.known
    <2>1. baseline[w] \in Snapshots /\ fact \in Observations
      BY DEF MonitoringInv, MonitoringTypeOK
    <2>2. /\ baseline'[w] = IF w \in Served THEN current ELSE baseline[w]
          /\ feed'[w] = IF changed /\ ~met THEN Append(feed[w], Event(baseline[w]))
                        ELSE feed[w]
      BY ScanEach DEF ScanServes
    <2>3. CASE w \notin Served
      BY <2>2, <2>3 DEF BeliefOf
    <2>4. CASE w \in Served
      <3>1. w \in Followers
        BY <2>4 DEF Served, Followers, MonitoringInv, MonitoringTypeOK
      <3>2. BeliefOf(w)' = after
        BY <2>2, <2>4 DEF BeliefOf
      <3>3. Promise!Learns(before, after)
        BY <2>1, SnapshotLearns DEF BeliefOf
      <3>4. /\ current \in Snapshots
            /\ fact.kind = "business" => /\ fact.fact \in Facts /\ after = fact.fact
                                         /\ ~current.blocked
            /\ fact.kind # "business" =>
                  after = Hidden \/ (after = baseline[w].known /\ ~baseline[w].blocked)
        BY <2>1, SnapshotFacts
      <3>5. changed <=> Promise!Noteworthy(before, after)
        <4>1. CASE baseline[w].blocked
          BY <4>1 DEF Changed, Promise!Noteworthy, BeliefOf
        <4>2. CASE ~baseline[w].blocked /\ fact.kind = "business"
          <5>1. before = baseline[w].known /\ before \in Facts \cup {Unknown}
                /\ before # Hidden
            BY <2>1, <4>2, MonitoringAssumption DEF BeliefOf, Snapshots
          <5>2. changed <=> ValueOf(before) # fact.fact.value
            BY <2>4, <3>4, <4>2, <5>1 DEF Changed
          <5>3. Promise!Noteworthy(before, after)
                <=> (before # Unknown => before.value # fact.fact.value)
            BY <3>4, <4>2, <5>1 DEF Promise!Noteworthy
          <5>4. before = Unknown \/ before \in Facts
            BY <5>1
          <5> HIDE DEF before, changed, after
          <5>5. CASE before = Unknown
            BY <3>4, <4>2, <5>2, <5>3, <5>5, ValueFacts
          <5>6. CASE before \in Facts
            BY <3>4, <4>2, <5>2, <5>3, <5>6, ValueFacts, MonitoringAssumption
          <5> QED
            BY <5>4, <5>5, <5>6
        <4>3. CASE ~baseline[w].blocked /\ fact.kind # "business"
          <5>1. ~changed
            BY <4>3 DEF Changed
          <5>2. after = Hidden \/ after = before
            BY <3>4, <4>3 DEF BeliefOf
          <5>3. ~Promise!Noteworthy(before, after)
            BY <5>2, MonitoringAssumption DEF Promise!Noteworthy
          <5> QED
            BY <5>1, <5>3
        <4> QED
          BY <4>1, <4>2, <4>3
      <3>6. changed => Event(baseline[w]) = <<before, after>>
        BY <3>4 DEF Changed, Event, BeliefOf
      <3>7. changed => (met <=> ~ \A n \in DOMAIN feed[w] : feed[w][n] # <<before, after>>)
        BY <3>6 DEF Seen
      <3>8. feed'[w] = Promise!Delivered(feed[w], before, after)
        <4> HIDE DEF changed, met, before, after
        <4> QED
          BY <2>2, <3>5, <3>6, <3>7 DEF Promise!Delivered
      <3> QED
        BY <3>1, <3>2, <3>3, <3>8
    <2> QED
      BY <2>3, <2>4
  <1> QED
    BY <1>1, <1>2, <1>3, <1>4 DEF Promise!Observe, Promise!Beliefs, Followers, Believed,
       BeliefOf

LEMMA FeedStep ==
    ASSUME MonitoringInv, [MonitoringNext]_monitoringVars
    PROVE  Promise!FeedNext \/ UNCHANGED Promise!feedVars
  <1>1. ASSUME UNCHANGED <<status, baseline, feed>> PROVE UNCHANGED Promise!feedVars
    BY <1>1 DEF Promise!feedVars
  <1>2. ASSUME NEW w \in Workspaces, Subscribe(w) PROVE Promise!FeedNext
    <2>1. NoSnapshot = baseline[w] /\ NoSnapshot \in Snapshots
      BY <1>2 DEF Subscribe, MonitoringInv, BaselinesAgree, NoSnapshot, Snapshots
    <2>2. Promise!Follow(w)
      BY <1>2, <2>1, FollowSeen DEF Subscribe
    <2> QED
      BY <2>2 DEF Promise!FeedNext
  <1>3. ASSUME NEW w \in Workspaces, Resume(w) PROVE Promise!FeedNext
    <2>1. baseline[w] \in Snapshots
      BY DEF MonitoringInv, MonitoringTypeOK
    <2>2. Promise!Follow(w)
      BY <1>3, <2>1, FollowSeen DEF Resume
    <2> QED
      BY <2>2 DEF Promise!FeedNext
  <1>4. ASSUME NEW w \in Workspaces, Pause(w) PROVE Promise!FeedNext
    <2>1. Followers' = Followers \ {w}
      BY <1>4 DEF Pause, Followers, MonitoringInv, MonitoringTypeOK
    <2>2. UNCHANGED <<baseline, feed>>
      BY <1>4 DEF Pause
    <2>3. Promise!Unfollow(w)
      BY <2>1, <2>2 DEF Promise!Unfollow, Followers
    <2> QED
      BY <2>3 DEF Promise!FeedNext
  <1>5. ASSUME Scan PROVE Promise!FeedNext
    BY <1>5, ScanSeen DEF Promise!FeedNext
  <1> QED
    BY <1>1, <1>2, <1>3, <1>4, <1>5 DEF MonitoringNext, monitoringVars, Materialise, Save,
       BeginUnsave, EndUnsave, SwitchEntitlement

\* Each workspace receives an entry for a move from the fact it last learnt to
\* one of another value, once, and for nothing else: coverage gaps, restricted
\* periods, pauses, other workspaces and repeated scans notwithstanding
\* (monitor_company_once, detect_changes, fanout_events).
THEOREM FeedImplementsPromise == MonitoringSpec => KeepsPromise
  <1>1. MonitoringInit => Promise!FeedInit
    <2> SUFFICES ASSUME MonitoringInit PROVE Promise!FeedInit
      OBVIOUS
    <2>1. Followers = {} /\ Believed = [w \in Workspaces |-> Unknown]
      BY DEF MonitoringInit, Followers, Believed, BeliefOf, NoSnapshot
    <2> QED
      BY <2>1 DEF Promise!FeedInit, MonitoringInit, Followers, Believed, BeliefOf
  <1>2. MonitoringInv /\ [MonitoringNext]_monitoringVars
          => [Promise!FeedNext]_(Promise!feedVars)
    BY FeedStep
  <1> QED
    BY <1>1, <1>2, MonitoringInvariant, PTL DEF MonitoringSpec, KeepsPromise, Promise!FeedSpec
=============================================================================
