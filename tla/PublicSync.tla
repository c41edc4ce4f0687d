----------------------------- MODULE PublicSync -----------------------------
(***************************************************************************)
(* The publisher on HOME (scripts/run_public_sync.py over the outbox of    *)
(* app/services/publication_service.py) and the release store on the VPS   *)
(* that it drives over SSH.  HOME knows what it last published (baseline), *)
(* the VPS knows what it serves (pointer), and nothing commits to both:    *)
(* the publisher moves the pointer, verifies over HTTPS and only then      *)
(* writes the baseline.  It may die at any step; an answer may be lost, or *)
(* a command that was given up may still take effect later.                *)
(*                                                                         *)
(* One publisher: run_once holds an advisory lock for the whole cycle.     *)
(* Abstractions.  The five statuses between BUILDING and VERIFYING are one *)
(* status RUNNING (recovery does not tell them apart, the publisher's pc   *)
(* does).  The content of a company is the number of a version of its      *)
(* semantic hash, 0 when it is not public ready.  Summaries of changes,    *)
(* counts, incidents, version metadata and the upload of the bundle files  *)
(* are left out; requests that are recorded with NO_PUBLIC_CHANGE leave    *)
(* only their key.  Delays (debounce, backoff) are a choice to wait.       *)
(***************************************************************************)
EXTENDS ReleaseStore, Sequences, FiniteSetsExt, SequencesExt

CONSTANTS
    Companies,    \* the accepted cohort
    Allowed,      \* the circumstances an instance admits, see Circumstances
    MaxChanges,   \* bound: changes of the publishable state of companies
    MaxFaults,    \* bound: failures and crashes
    MaxRequests,  \* bound: requests ever recorded as work
    MaxSha        \* bound: deployed code generations

\* "reopen": a company becomes ready again in the same enrichment run;
\* "repeat": a new run may produce the content of an older one;
\* "network": a read or command fails before it has any effect; "fatal": a
\* remote command fails for good; "lost": its answer is lost after its effect;
\* "late": it takes effect after HOME gave it up; "undo": the rollback itself
\* may fail so; "commit": the final commit on HOME fails; "crash": the publisher
\* dies; "crash_promoted": it dies while its unrecorded candidate is live.
Circumstances == {"reopen", "repeat", "network", "fatal", "lost", "late",
                  "undo", "commit", "crash", "crash_promoted"}

ASSUME SyncAssumption ==
    /\ IsFiniteSet(Companies) /\ Companies # {}
    /\ Allowed \subseteq Circumstances
    /\ {MaxChanges, MaxFaults, MaxRequests, MaxSha} \subseteq Nat
    /\ NumReleases >= 1

VARIABLES
    truth,     \* canonical state: latest enrichment run and public version
    baseline,  \* public_projection_publications
    req,       \* public_publication_requests with work, in order of creation
    seen,      \* run ids and generations of all requests ever recorded
    bundle,    \* bundles on HOME: what each release contains
    wire,      \* remote commands given up by HOME that may still take effect
    pub,       \* the publisher: step, request in hand, how its attempt failed
    sha,       \* deployed code generation
    changes,   \* counted against MaxChanges
    faults     \* counted against MaxFaults

homeVars == <<truth, baseline, req, seen, bundle>>
syncVars == <<truth, baseline, req, seen, bundle, wire, pub, sha, changes,
              faults, store, pointer>>

\* The statuses a request keeps; the others are PENDING, RUNNING, RETRY_SCHEDULED.
Settled == {"PUBLISHED", "FAILED", "SUPERSEDED", "COALESCED"}
Resting == [pc |-> "idle", req |-> 0, error |-> "none"]

Active == {i \in DOMAIN req : req[i].status \notin Settled}
Members(r) == {c \in Companies : bundle[r].content[c] # 0}
Target == {c \in Companies : truth[c].version # 0}
Published == {c \in Companies : baseline[c].published}
PublishedVersion(c) == IF baseline[c].published THEN baseline[c].version ELSE 0
Dirty == {c \in Companies : truth[c].version # PublishedVersion(c)}

\* derive_transition_parent_context succeeds: the baseline names the live
\* release as the parent of every published company, with its members and
\* their hashes.  Otherwise it raises PublicBuildError.
Derivable ==
    /\ Published # {}
    /\ \A c \in Published : baseline[c].release = pointer
    /\ Published = Members(pointer)
    /\ \A c \in Published \cap Target :
          baseline[c].version = bundle[pointer].content[c]

Request(key, status, heir) ==
    [status |-> status, key |-> key, candidate |-> NoRelease,
     parent |-> NoRelease, sha |-> sha, heirOf |-> heir]

\* Requests with status changed for the members of I.
Mark(requests, I, status) ==
    [i \in DOMAIN requests |->
        IF i \in I THEN [requests[i] EXCEPT !.status = status] ELSE requests[i]]

SetStatus(status) == req' = Mark(req, {pub.req}, status)

Rest == pub' = Resting
Advance(pc) == pub' = [pub EXCEPT !.pc = pc]
Fault(circumstance) ==
    /\ circumstance \in Allowed
    /\ faults < MaxFaults
    /\ faults' = faults + 1

-----------------------------------------------------------------------------
(* What the rest of the system does.                                       *)

\* A new enrichment run of a company completes, or the latest one stops being
\* publishable (a replay signal, a newer run under way) or is so again.
ChangeTruth(c) ==
    LET n == truth[c].run
    IN  /\ changes < MaxChanges
        /\ changes' = changes + 1
        /\ \E next \in
              {[run |-> n + 1, version |-> v] :
                  v \in IF "repeat" \in Allowed THEN 1..(n + 1) ELSE {n + 1}}
              \cup {[run |-> n, version |-> v] :
                  v \in {0} \cup IF "reopen" \in Allowed THEN 1..n ELSE {}} :
              /\ next # truth[c]
              /\ truth' = [truth EXCEPT ![c] = next]
        /\ UNCHANGED <<baseline, req, seen, bundle, wire, pub, sha, faults, storeVars>>

\* A new code generation is deployed; the publisher is restarted with it.
Deploy ==
    /\ sha < MaxSha
    /\ pub = Resting
    /\ sha' = sha + 1
    /\ UNCHANGED <<homeVars, wire, pub, changes, faults, storeVars>>

-----------------------------------------------------------------------------
(* A cycle: recovery, scan, normalization, claim.                          *)

\* The scan calls the release of the baseline "mixed" (NoRelease) once its rows
\* disagree, as the rows of companies that were withdrawn earlier do.
BaselineRelease ==
    LET releases == {baseline[c].release : c \in Companies}
    IN  IF Cardinality(releases) = 1 THEN CHOOSE r \in releases : TRUE
        ELSE NoRelease

\* Mutant: the trigger of a company that is ready does not name the run.
RunKeyOfCompany(c) == [kind |-> "run", company |-> c, number |-> 1]

\* What identifies the trigger of a request: the enrichment run of a company
\* that is ready, or the withdrawal of one from a release.
RunKey(c) == [kind |-> "run", company |-> c, number |-> truth[c].run]
WithdrawalKey(c) == [kind |-> "withdrawal", company |-> c, number |-> BaselineRelease]

\* The companies whose trigger the scan has not recorded yet.
Unscanned ==
    {c \in Target : RunKey(c) \notin seen}
    \cup {c \in Published \ Target : WithdrawalKey(c) \notin seen}

TriggerKey(c) == IF c \in Target THEN RunKey(c) ELSE WithdrawalKey(c)

\* Mutant: interrupted requests stay as the dead publisher left them.
NotRecovered(requests) == requests

\* recover_interrupted_requests: due at once.
Recovered(requests) ==
    Mark(requests, {i \in DOMAIN requests : requests[i].status = "RUNNING"},
         "RETRY_SCHEDULED")

\* scan_public_ready_changes, committed together with the recovery.
RecoverAndScan ==
    LET work == SetToSeq(Unscanned \cap Dirty)
    IN  /\ pub.pc = "idle"
        /\ Len(req) + Len(work) <= MaxRequests
        /\ req' = Recovered(req) \o
              [k \in DOMAIN work |-> Request(TriggerKey(work[k]), "PENDING", 0)]
        /\ seen' = seen \cup {TriggerKey(c) : c \in Unscanned}
        /\ Advance("recover")
        /\ UNCHANGED <<truth, baseline, bundle, wire, sha, changes, faults, storeVars>>

\* The newest failed request, unless it has an heir or is of this generation.
Recoverable ==
    LET failed == {i \in DOMAIN req : req[i].status = "FAILED"}
    IN  IF Active # {} \/ failed = {} THEN {}
        ELSE {i \in {Max(failed)} : /\ \A k \in DOMAIN req : req[k].heirOf # i
                                    /\ req[i].sha # sha}

\* recover_failed_publication_if_eligible creates a request.  It is committed
\* with the normalization, which leaves the only active request alone.
RecoverFailed ==
    /\ pub.pc = "recover"
    /\ Derivable
    /\ Dirty # {}
    /\ Len(req) < MaxRequests
    /\ \E i \in Recoverable :
          req' = Append(req, Request([kind |-> "rebase"], "PENDING", i))
    /\ Advance("claim")
    /\ UNCHANGED <<truth, baseline, seen, bundle, wire, sha, changes, faults, storeVars>>

\* It finds nothing to recover, or no change.
NothingToRecover ==
    /\ pub.pc = "recover"
    /\ Recoverable = {} \/ (Derivable /\ Dirty = {})
    /\ Advance("normalize")
    /\ UNCHANGED <<homeVars, wire, sha, changes, faults, storeVars>>

\* The active requests must be rebuilt: a candidate whose parent is not live,
\* or several requests of which one has already started.
Stale == \E i \in Active : req[i].candidate # NoRelease /\ req[i].parent # pointer

\* Mutant: requests that already started are left to go on side by side.
NeverOvergrown == FALSE

Overgrown == Cardinality(Active) > 1 /\ \E i \in Active :
    req[i].candidate # NoRelease \/ req[i].status # "PENDING"

\* Everything active gives way to at most one request built from the truth.
Collapse ==
    /\ Len(req) < MaxRequests
    /\ LET superseded == Mark(req, Active, "SUPERSEDED")
       IN  req' = IF Dirty = {} THEN superseded
                  ELSE Append(superseded, Request([kind |-> "rebase"], "RUNNING", 0))

\* normalize_publication_queue rebuilds the queue; its request is published in
\* the same cycle.
NormalizeRebuilds ==
    /\ pub.pc = "normalize"
    /\ Stale \/ Overgrown
    /\ Derivable
    /\ Collapse
    /\ pub' = IF Dirty = {} THEN Resting
              ELSE [pub EXCEPT !.pc = "build", !.req = Len(req) + 1]
    /\ UNCHANGED <<truth, baseline, seen, bundle, wire, sha, changes, faults, storeVars>>

\* It leaves the queue alone.
NormalizeKeeps ==
    /\ pub.pc = "normalize"
    /\ ~Stale /\ ~Overgrown
    /\ Advance("claim")
    /\ UNCHANGED <<homeVars, wire, sha, changes, faults, storeVars>>

\* The parent context cannot be derived: the cycle rolls back and ends.
CycleFails ==
    /\ \/ pub.pc = "recover" /\ Recoverable # {}
       \/ pub.pc = "normalize" /\ (Stale \/ Overgrown)
    /\ ~Derivable
    /\ Rest
    /\ UNCHANGED <<homeVars, wire, sha, changes, faults, storeVars>>

\* HTTPS or the trusted reader does not answer: the same, with an incident.
CycleUnavailable ==
    /\ \/ pub.pc = "recover" /\ Recoverable # {}
       \/ pub.pc = "normalize" /\ Active # {}
    /\ Fault("network")
    /\ Rest
    /\ UNCHANGED <<homeVars, wire, sha, changes, storeVars>>

Claimed(i, requests) ==
    /\ req' = Mark(requests, {i}, "RUNNING")
    /\ pub' = [pub EXCEPT !.req = i,
          !.pc = IF req[i].candidate = NoRelease THEN "build" ELSE "upload"]

\* claim_next_request: a retry that is due, else the oldest pending request
\* with all others coalesced into it.
Claim ==
    /\ pub.pc = "claim"
    /\ LET pending == {i \in Active : req[i].status = "PENDING"}
       IN  \/ \E i \in Active :
                 req[i].status = "RETRY_SCHEDULED" /\ Claimed(i, req)
           \/ /\ pending # {}
              /\ Claimed(Min(pending), Mark(req, pending, "COALESCED"))
    /\ UNCHANGED <<truth, baseline, seen, bundle, wire, sha, changes, faults, storeVars>>

\* Nothing is due in this cycle.
NothingDue ==
    /\ pub.pc = "claim"
    /\ Rest
    /\ UNCHANGED <<homeVars, wire, sha, changes, faults, storeVars>>

-----------------------------------------------------------------------------
(* publish_claimed_request.                                                *)

Candidate == req[pub.req].candidate

\* build_candidate: one release with the whole target, on the live parent.
\* The withdrawal that a built request was made for is no longer on record.
Build ==
    LET r == Len(bundle) + 1
        i == pub.req
    IN  /\ pub.pc = "build"
        /\ Derivable
        /\ Dirty # {}
        /\ Target # {}
        /\ r \in Releases
        /\ bundle' = Append(bundle,
              [parent |-> pointer, content |-> [c \in Companies |-> truth[c].version]])
        /\ req' = [req EXCEPT ![i].candidate = r, ![i].parent = pointer, ![i].sha = sha]
        /\ seen' = IF req[i].key.kind = "withdrawal" THEN seen \ {req[i].key} ELSE seen
        /\ Advance("upload")
        /\ UNCHANGED <<truth, baseline, wire, sha, changes, faults, storeVars>>

\* The truth is what is live already.
BuildFindsNoChange ==
    /\ pub.pc = "build"
    /\ Derivable
    /\ Dirty = {}
    /\ SetStatus("SUPERSEDED")
    /\ Rest
    /\ UNCHANGED <<truth, baseline, seen, bundle, wire, sha, changes, faults, storeVars>>

\* No parent context, or no company left to publish (the newest content date of
\* no company is an error).
BuildFails ==
    /\ pub.pc = "build"
    /\ ~Derivable \/ (Dirty # {} /\ Target = {})
    /\ SetStatus("FAILED")
    /\ Rest
    /\ UNCHANGED <<truth, baseline, seen, bundle, wire, sha, changes, faults, storeVars>>

\* StaleCandidateParent before upload, staging or promotion: everything active
\* is rebased on the live release; the new request waits for the next cycle.
\* An error in here escapes the cycle and leaves the request as it is.
Rebase ==
    /\ pub.pc \in {"upload", "stage", "promote"}
    /\ req[pub.req].parent # pointer
    /\ \/ Derivable /\ Collapse /\ UNCHANGED faults
       \/ ~Derivable /\ UNCHANGED <<req, faults>>
       \/ Fault("network") /\ UNCHANGED req
    /\ Rest
    /\ UNCHANGED <<truth, baseline, seen, bundle, wire, sha, changes, storeVars>>

\* _validated_candidate_parent.
ParentIsLive == req[pub.req].parent = pointer

\* The bundle is on the VPS.
Upload ==
    /\ pub.pc = "upload"
    /\ ParentIsLive
    /\ Advance("stage")
    /\ UNCHANGED <<homeVars, wire, sha, changes, faults, storeVars>>

\* A remote command has its effect, or the effect it had before stands.
Effect(command) ==
    CASE command.kind = "stage" ->
            IF store[command.release].status = "absent"
            THEN Stage(command.release, bundle[command.release].parent)
            ELSE UNCHANGED storeVars
      [] command.kind = "promote" ->
            IF store[command.release].status = "active" THEN UNCHANGED storeVars
            ELSE Promote(command.release)
      [] command.kind = "rollback" -> Rollback(command.release)

StageCommand == [kind |-> "stage", release |-> Candidate]
PromoteCommand == [kind |-> "promote", release |-> Candidate]
RollbackCommand == [kind |-> "rollback", release |-> req[pub.req].parent]

\* import_release --stage-only.
StageRemotely ==
    /\ pub.pc = "stage"
    /\ ParentIsLive
    /\ Effect(StageCommand)
    /\ Advance("accept")
    /\ UNCHANGED <<homeVars, wire, sha, changes, faults>>

\* import_release --accept-staged.
AcceptRemotely ==
    /\ pub.pc = "accept"
    /\ Acceptable(Candidate)
    /\ Advance("promote")
    /\ UNCHANGED <<homeVars, wire, sha, changes, faults, storeVars>>

\* import_release --promote.
PromoteRemotely ==
    /\ pub.pc = "promote"
    /\ ParentIsLive
    /\ Effect(PromoteCommand)
    /\ Advance("verify")
    /\ UNCHANGED <<homeVars, wire, sha, changes, faults>>

\* The attempt ends before promotion was attempted.
GiveUp(status) ==
    /\ SetStatus(status)
    /\ Rest
    /\ UNCHANGED <<truth, baseline, seen, bundle, sha, changes>>

\* A read or a command up to the promotion gets no answer: it had no effect,
\* or it had (its answer is lost), or it may have it later.
Interrupted ==
    /\ pub.pc \in {"build", "upload", "stage", "accept", "promote"}
    /\ GiveUp("RETRY_SCHEDULED")
    /\ \/ Fault("network") /\ UNCHANGED <<wire, storeVars>>
       \/ /\ pub.pc = "stage" /\ ParentIsLive
          /\ Fault("lost")
          /\ Effect(StageCommand)
          /\ UNCHANGED wire
       \/ /\ pub.pc = "stage" /\ ParentIsLive
          /\ Fault("late")
          /\ wire' = wire \cup {StageCommand}
          /\ UNCHANGED storeVars

\* A remote command before the promotion fails for good.
Refused ==
    /\ \/ pub.pc \in {"upload", "stage"} /\ ParentIsLive /\ Fault("fatal")
       \/ pub.pc = "accept" /\ Fault("fatal")
       \/ pub.pc = "accept" /\ ~Acceptable(Candidate) /\ UNCHANGED faults
    /\ GiveUp("FAILED")
    /\ UNCHANGED <<wire, storeVars>>

Fails(error) == pub' = [pub EXCEPT !.pc = "error", !.error = error]

\* The promotion was attempted and its answer is an error or no answer.
PromotionFails ==
    /\ pub.pc = "promote"
    /\ ParentIsLive
    /\ \/ /\ Fault("fatal") /\ Fails("fatal")
          /\ UNCHANGED <<wire, storeVars>>
       \/ /\ Fault("network") /\ Fails("transient")
          /\ UNCHANGED <<wire, storeVars>>
       \/ /\ ~Promotable(Candidate) /\ store[Candidate].status # "active"
          /\ Fails("fatal")
          /\ UNCHANGED <<wire, faults, storeVars>>
       \/ /\ Fault("lost") /\ Fails("transient")
          /\ Effect(PromoteCommand)
          /\ UNCHANGED wire
       \/ /\ Fault("late") /\ Fails("transient")
          /\ wire' = wire \cup {PromoteCommand}
          /\ UNCHANGED storeVars
    /\ UNCHANGED <<homeVars, sha, changes>>

\* verify_https_release finds the candidate live.
Verify ==
    /\ pub.pc = "verify"
    /\ pointer = Candidate
    /\ Advance("persist")
    /\ UNCHANGED <<homeVars, wire, sha, changes, faults, storeVars>>

\* It finds another release, or no answer.
VerifyFails ==
    /\ pub.pc = "verify"
    /\ \/ Fault("network")
       \/ pointer # Candidate /\ UNCHANGED faults
    /\ Fails("transient")
    /\ UNCHANGED <<homeVars, wire, sha, changes, storeVars>>

\* Mutant: withdrawn companies keep their row.
PersistKeepsWithdrawn(r) ==
    [c \in Companies |->
        IF bundle[r].content[c] # 0
        THEN [published |-> TRUE, version |-> bundle[r].content[c], release |-> r]
        ELSE baseline[c]]

\* _persist_published_hashes: the rows after release r was verified.  The
\* withdrawn companies are those of the parent that r does not contain.
BaselineOf(r) ==
    [c \in Companies |->
        IF bundle[r].content[c] # 0
        THEN [published |-> TRUE, version |-> bundle[r].content[c], release |-> r]
        ELSE IF bundle[bundle[r].parent].content[c] # 0
        THEN [baseline[c] EXCEPT !.published = FALSE, !.release = r]
        ELSE baseline[c]]

\* The verified release becomes the last good one, with its request.
Persist ==
    /\ pub.pc = "persist"
    /\ baseline' = BaselineOf(Candidate)
    /\ SetStatus("PUBLISHED")
    /\ Advance("cleanup")
    /\ UNCHANGED <<truth, seen, bundle, wire, sha, changes, faults, storeVars>>

\* Mutant: the rows are committed before the request, whose commit fails.
PersistFailsHalfway ==
    /\ pub.pc = "persist"
    /\ Fault("commit")
    /\ Fails("transient")
    /\ baseline' = BaselineOf(Candidate)
    /\ UNCHANGED <<truth, req, seen, bundle, wire, sha, changes, storeVars>>

\* The commit fails as a whole.
PersistFails ==
    /\ pub.pc = "persist"
    /\ Fault("commit")
    /\ Fails("transient")
    /\ UNCHANGED <<homeVars, wire, sha, changes, storeVars>>

\* normalize_after_successful_publication; when it fails, its incident is all.
Cleanup ==
    /\ pub.pc = "cleanup"
    /\ \/ Active = {} /\ UNCHANGED req
       \/ /\ Active # {}
          /\ Len(req) < MaxRequests
          /\ LET superseded == Mark(req, Active, "SUPERSEDED")
             IN  req' = IF Dirty = {} THEN superseded
                        ELSE Append(superseded, Request([kind |-> "rebase"], "PENDING", 0))
    /\ Rest
    /\ UNCHANGED <<truth, baseline, seen, bundle, wire, sha, changes, faults, storeVars>>

\* Mutant: only a candidate that is seen live is rolled back.
MayBeLiveIfSeen(answered) == answered /\ pointer = Candidate

\* The promotion may have happened: the candidate is live, or nobody answers.
MayBeLive(answered) == answered => pointer = Candidate

\* The candidate is not live: the error decides.
RetryOrFail(answered) ==
    /\ ~MayBeLive(answered)
    /\ SetStatus(IF pub.error = "fatal" THEN "FAILED" ELSE "RETRY_SCHEDULED")
    /\ UNCHANGED <<wire, storeVars>>

\* The candidate is rolled back to its exact parent and given up, whatever
\* becomes of the rollback: it happens, is refused or fails, or comes late.
RollBack(answered) ==
    /\ MayBeLive(answered)
    /\ SetStatus("FAILED")
    /\ \/ Effect(RollbackCommand) /\ UNCHANGED wire
       \/ /\ \/ store[pointer].parent # req[pub.req].parent
             \/ "undo" \in Allowed
          /\ UNCHANGED <<wire, storeVars>>
       \/ /\ {"undo", "late"} \subseteq Allowed
          /\ wire' = wire \cup {RollbackCommand}
          /\ UNCHANGED storeVars

\* The error handlers of publish_claimed_request once promotion was attempted;
\* they read the active release first, which may get no answer.
HandleError ==
    /\ pub.pc = "error"
    /\ \E answered \in BOOLEAN :
          /\ IF answered THEN UNCHANGED faults ELSE Fault("network")
          /\ RetryOrFail(answered) \/ RollBack(answered)
    /\ Rest
    /\ UNCHANGED <<truth, baseline, seen, bundle, sha, changes>>

-----------------------------------------------------------------------------
(* Deaths and stragglers.                                                  *)

\* The publisher dies; systemd starts it again.
Crash ==
    /\ pub.pc # "idle"
    /\ IF pub.req # 0 /\ req[pub.req].status = "RUNNING" /\ pointer = Candidate
       THEN Fault("crash_promoted")
       ELSE Fault("crash")
    /\ Rest
    /\ UNCHANGED <<homeVars, wire, sha, changes, storeVars>>

\* A command that HOME gave up runs to its end on the VPS, or dies with its
\* connection.
Straggle(command) ==
    /\ wire' = wire \ {command}
    /\ Effect(command) \/ UNCHANGED storeVars
    /\ UNCHANGED <<homeVars, pub, sha, changes, faults>>

-----------------------------------------------------------------------------
InitialVersion == 1

\* A bootstrapped baseline whose first scan found nothing to publish.
SyncInit ==
    /\ truth = [c \in Companies |-> [run |-> 1, version |-> InitialVersion]]
    /\ baseline = [c \in Companies |->
          [published |-> TRUE, version |-> InitialVersion, release |-> 1]]
    /\ req = << >>
    /\ seen = {[kind |-> "run", company |-> c, number |-> 1] : c \in Companies}
    /\ bundle = <<[parent |-> NoRelease,
                   content |-> [c \in Companies |-> InitialVersion]]>>
    /\ store = [r \in Releases |->
          [status |-> IF r = 1 THEN "active" ELSE "absent", parent |-> NoRelease]]
    /\ pointer = 1
    /\ wire = {}
    /\ pub = Resting
    /\ sha = 1
    /\ changes = 0
    /\ faults = 0

Cycle ==
    \/ RecoverAndScan \/ RecoverFailed \/ NothingToRecover
    \/ NormalizeRebuilds \/ NormalizeKeeps
    \/ CycleFails \/ CycleUnavailable
    \/ Claim \/ NothingDue

Publish ==
    \/ Build \/ BuildFindsNoChange \/ BuildFails \/ Rebase
    \/ Upload \/ StageRemotely \/ AcceptRemotely \/ PromoteRemotely
    \/ Interrupted \/ Refused \/ PromotionFails
    \/ Verify \/ VerifyFails \/ Persist \/ PersistFails
    \/ Cleanup \/ HandleError

SyncNext ==
    \/ \E c \in Companies : ChangeTruth(c)
    \/ Deploy
    \/ Cycle
    \/ Publish
    \/ Crash
    \/ \E command \in wire : Straggle(command)

SyncSpec == SyncInit /\ [][SyncNext]_syncVars

(* Fairness.  The service polls for ever and is restarted when it dies; the *)
(* delays of a request run out while it polls.  Failures and crashes are     *)
(* finitely many (MaxFaults); no lost command need ever straggle in.         *)
FairSyncSpec ==
    /\ SyncSpec
    /\ WF_syncVars(Cycle \/ Publish)
    /\ SF_syncVars(Claim)

-----------------------------------------------------------------------------
(* Properties.                                                             *)

\* What HOME believes to have published is what the release it names contains,
\* company by company, through additions, withdrawals, crashes and stragglers.
BaselineFaithful ==
    \A c \in Companies :
        /\ baseline[c].published =>
              /\ bundle[baseline[c].release].content[c] = baseline[c].version
              /\ Published = Members(baseline[c].release)
        /\ ~baseline[c].published =>
              bundle[baseline[c].release].content[c] = 0

\* The queue never works on two releases at a time: at most one request that is
\* not settled has started or owns a candidate, whatever died or was rebased.
OneCandidate ==
    Cardinality({i \in Active : \/ req[i].status = "RUNNING"
                                \/ req[i].candidate # NoRelease}) <= 1

\* As long as the publisher survives the moments between the promotion and its
\* record, HOME and VPS agree outside those moments: lost answers, refused and
\* failed attempts end with the live release recorded, or with its parent live
\* again.
HomeAgreesWithLive ==
    pub.pc \notin {"verify", "persist", "error"} =>
        \A c \in Published : baseline[c].release = pointer

\* A release that HOME recorded as published is never undone by a leftover of
\* another attempt.
RecordedReleaseStands ==
    \A c \in Published : store[baseline[c].release].status # "rolled_back"

\* Every request is published or otherwise settled, though answers get lost and
\* the publisher dies before it promotes.
RequestsSettle ==
    \A i \in 1..MaxRequests :
        (i \in Active) ~> (i \in DOMAIN req /\ req[i].status \in Settled)

\* An interrupted publication is resumed after a restart, wherever it was
\* interrupted.
InterruptedResumes ==
    \A i \in 1..MaxRequests :
        (i \in Active /\ req[i].status = "RETRY_SCHEDULED")
            ~> (i \in DOMAIN req /\ req[i].status \in Settled)

\* The live release comes to contain exactly the companies that are public
\* ready, with their current content, unless a publication failed for good or
\* no company is left.
LiveIsCurrent ==
    \A c \in Companies : bundle[pointer].content[c] = truth[c].version
NothingFailed == \A i \in DOMAIN req : req[i].status # "FAILED"
CatchesUp == (<>[](Target # {}) /\ []NothingFailed) => <>[]LiveIsCurrent
=============================================================================
