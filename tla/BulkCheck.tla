----------------------------- MODULE BulkCheck -----------------------------
(***************************************************************************)
(* One job of the bulk check (workspace_app/bulk_service.py): the rows of  *)
(* an uploaded file, checked chunk by chunk against one release of the     *)
(* public site.  The browser asks for each chunk; several tabs, people and *)
(* retried requests may ask, cancel, resume and retry at the same time.    *)
(*                                                                         *)
(* A chunk is a transaction that locks the job row, pins the release if    *)
(* none is pinned, reads the projections from the database of the public   *)
(* site and commits what became of the rows; it is two steps here, for the *)
(* site may switch releases and the call may fail in between.  Cancel,     *)
(* resume and retry hold the lock of the job row from their first read to  *)
(* their commit and are one step.                                          *)
(*                                                                         *)
(* Abstractions.  The counters are functions of the rows and are not kept. *)
(* What a release says of a row is any outcome; a payload is the release   *)
(* that it was read from.  Permissions and quota are left out.             *)
(***************************************************************************)
EXTENDS Naturals, FiniteSets

CONSTANTS
    Rows,         \* row numbers of the file
    Uploads,      \* the files: what parse_bulk_csv makes of each row
    Chunk,        \* chunk_size
    Calls,        \* calls of process_bulk_job_chunk in flight at the same time
    NumPublished, \* bound: releases the public site ever activates
    MaxErrors,    \* bound: chunks whose batch read fails, or that are lost
    MaxEdits,     \* bound: cancellations and retries
    Nobody        \* nobody holds the job row

ParsedStatus == {"PENDING", "INVALID_INN", "DUPLICATE"}
ItemStatus == ParsedStatus \cup
    {"READY", "NOT_RESOLVED", "NOT_READY", "PROCESSING_ERROR", "CANCELLED"}
TerminalJobStatus == {"COMPLETED", "COMPLETED_WITH_ERRORS", "CANCELLED"}

ASSUME BulkAssumption ==
    /\ Rows \subseteq Nat
    /\ Uploads \subseteq [Rows -> ParsedStatus]
    /\ Chunk \in Nat \ {0}
    /\ {NumPublished, MaxErrors, MaxEdits} \subseteq Nat
    /\ Nobody \notin Calls

VARIABLES
    items,        \* workspace_bulk_items: [status, release of the payload]
    job,          \* workspace_bulk_jobs: [status, public_release_id]
    jobLock,      \* the call that holds the job row
    work,         \* what each call in flight has read: [chunk, release]
    published,    \* active release of the public site, 0 when there is none
    errors, edits \* counters of the bounds

bulkVars == <<items, job, jobLock, work, published, errors, edits>>

NoPin == 0
ReleaseIds == 0..NumPublished
NoWork == [chunk |-> {}, release |-> NoPin]

BulkTypeOK ==
    /\ items \in [Rows -> [status : ItemStatus, release : ReleaseIds]]
    /\ job \in [status : {"READY", "RUNNING"} \cup TerminalJobStatus,
                release : ReleaseIds]
    /\ jobLock \in Calls \cup {Nobody}
    /\ work \in [Calls -> [chunk : SUBSET Rows, release : ReleaseIds]]
    /\ published \in ReleaseIds
    /\ errors \in 0..MaxErrors
    /\ edits \in 0..MaxEdits

-----------------------------------------------------------------------------
(* The rows.                                                               *)

With(rows, status) == {r \in Rows : rows[r].status = status}

\* The first n pending rows, in the order of the file.
NextChunk(n) ==
    LET pending == With(items, "PENDING") IN
    {r \in pending : Cardinality({q \in pending : q <= r}) <= n}

\* An UPDATE of the rows of one status, which carry no payload.
Moved(from, to) ==
    [r \in Rows |-> IF items[r].status = from
                    THEN [status |-> to, release |-> NoPin] ELSE items[r]]

\* _resolve_bulk_job_status.
ResolvedStatus(rows, processing) ==
    CASE With(rows, "PENDING") # {} -> IF processing THEN "RUNNING" ELSE "READY"
      [] With(rows, "PENDING") = {} /\ With(rows, "CANCELLED") # {} -> "CANCELLED"
      [] With(rows, "PENDING") \cup With(rows, "CANCELLED") = {}
         /\ With(rows, "PROCESSING_ERROR") # {} -> "COMPLETED_WITH_ERRORS"
      [] OTHER -> "COMPLETED"

-----------------------------------------------------------------------------
(* A chunk.                                                                *)

\* _pin_release, refused while the site has no active and coherent release.
Pinned == IF job.release # NoPin THEN job.release ELSE published

\* Mutant: the job is read without FOR UPDATE.
JobReadable(c) == jobLock # c

JobFree(c) == jobLock = Nobody

LoadChunk(c) ==
    /\ JobFree(c)
    /\ work[c] = NoWork
    /\ job.status \notin TerminalJobStatus
    /\ Pinned # NoPin
    /\ jobLock' = c
    /\ work' = [work EXCEPT ![c] = [chunk |-> NextChunk(Chunk), release |-> Pinned]]
    /\ UNCHANGED <<items, job, published, errors, edits>>

\* What may become of a row that was read.
RowOutcomes(release) ==
    [status : {"NOT_RESOLVED", "NOT_READY", "PROCESSING_ERROR"}, release : {NoPin}]
    \cup [status : {"READY"}, release : {release}]

\* When the batch cannot be read, every row that names a company is an error.
OutcomesWithoutBatch ==
    [status : {"NOT_RESOLVED", "PROCESSING_ERROR"}, release : {NoPin}]

Release(c) ==
    /\ jobLock' = IF jobLock = c THEN Nobody ELSE jobLock
    /\ work' = [work EXCEPT ![c] = NoWork]

\* The rows of the chunk are written, the counters and the status are resolved.
Settle(c, outcome) ==
    /\ items' = [r \in Rows |-> IF r \in work[c].chunk THEN outcome[r] ELSE items[r]]
    /\ job' = [status |-> ResolvedStatus(items', TRUE), release |-> work[c].release]
    /\ Release(c)
    /\ UNCHANGED <<published, edits>>

CommitChunk(c) ==
    /\ work[c] # NoWork
    /\ \E outcome \in [work[c].chunk -> RowOutcomes(work[c].release)] :
         Settle(c, outcome)
    /\ UNCHANGED errors

CommitUnreadableChunk(c) ==
    /\ work[c] # NoWork
    /\ errors < MaxErrors
    /\ errors' = errors + 1
    /\ \E outcome \in [work[c].chunk -> OutcomesWithoutBatch] : Settle(c, outcome)

\* The call is lost before its commit: nothing of it remains, the pin included.
LoseChunk(c) ==
    /\ work[c] # NoWork
    /\ errors < MaxErrors
    /\ errors' = errors + 1
    /\ Release(c)
    /\ UNCHANGED <<items, job, published, edits>>

-----------------------------------------------------------------------------
(* Cancel, resume and retry.                                               *)

Edited(rows) ==
    /\ items' = rows
    /\ job' = [job EXCEPT !.status = ResolvedStatus(rows, FALSE)]
    /\ UNCHANGED <<jobLock, work, published, errors>>

\* cancel_bulk_job: a job that has ended is returned as it is.
CancelJob ==
    /\ jobLock = Nobody
    /\ job.status \notin TerminalJobStatus
    /\ edits < MaxEdits
    /\ edits' = edits + 1
    /\ Edited(Moved("PENDING", "CANCELLED"))

\* resume_bulk_job: only a cancelled job.
ResumeJob ==
    /\ jobLock = Nobody
    /\ job.status = "CANCELLED"
    /\ Edited(Moved("CANCELLED", "PENDING"))
    /\ UNCHANGED edits

\* Mutant: a retry takes everything that has no result.
RetryEverything ==
    /\ jobLock = Nobody
    /\ With(items, "PROCESSING_ERROR") # {}
    /\ edits < MaxEdits
    /\ edits' = edits + 1
    /\ Edited([r \in Rows |-> IF items[r].status \in {"PROCESSING_ERROR", "NOT_READY"}
                              THEN [status |-> "PENDING", release |-> NoPin]
                              ELSE items[r]])

\* retry_bulk_job, of a job in any status.
RetryJob ==
    /\ jobLock = Nobody
    /\ With(items, "PROCESSING_ERROR") # {}
    /\ edits < MaxEdits
    /\ edits' = edits + 1
    /\ Edited(Moved("PROCESSING_ERROR", "PENDING"))

\* The public site activates another release.
PublishNext ==
    /\ published < NumPublished
    /\ published' = published + 1
    /\ UNCHANGED <<items, job, jobLock, work, errors, edits>>

\* create_bulk_job, with the rows as parse_bulk_csv read them.
BulkInit ==
    /\ \E upload \in Uploads :
         /\ items = [r \in Rows |-> [status |-> upload[r], release |-> NoPin]]
         /\ job = [status |-> IF \E r \in Rows : upload[r] = "PENDING"
                              THEN "READY" ELSE "COMPLETED",
                   release |-> NoPin]
    /\ jobLock = Nobody
    /\ work = [c \in Calls |-> NoWork]
    /\ published = 0
    /\ errors = 0
    /\ edits = 0

BulkNext ==
    \/ \E c \in Calls : \/ LoadChunk(c) \/ CommitChunk(c)
                        \/ CommitUnreadableChunk(c) \/ LoseChunk(c)
    \/ CancelJob \/ ResumeJob \/ RetryJob \/ PublishNext

BulkSpec == BulkInit /\ [][BulkNext]_bulkVars

-----------------------------------------------------------------------------
(* Properties.                                                             *)

\* Every result of a job was read from the release the job names, however many
\* times the site switched releases, the job was cancelled, resumed or retried,
\* and calls overlapped or were lost with the pin they had chosen.
OnePinnedRelease ==
    \A r \in Rows : items[r].status = "READY" =>
        items[r].release = job.release /\ job.release # NoPin

\* A row that has its answer keeps it: no second call, cancellation or retry
\* touches it ("already terminal rows remain").
AnsweredRowsRemain ==
    [][\A r \in Rows :
         items[r].status \in {"READY", "NOT_RESOLVED", "NOT_READY",
                              "INVALID_INN", "DUPLICATE"}
           => items'[r] = items[r]]_bulkVars

\* No row is stranded: while rows are pending the job can be processed, once
\* they are done the cancelled ones can be resumed, and a job that says it is
\* completed has nothing left to do.
NoRowStranded ==
    /\ With(items, "PENDING") # {} <=> job.status \notin TerminalJobStatus
    /\ job.status = "CANCELLED" <=>
         With(items, "PENDING") = {} /\ With(items, "CANCELLED") # {}
    /\ job.status = "COMPLETED" =>
         With(items, "CANCELLED") \cup With(items, "PROCESSING_ERROR") = {}
=============================================================================
