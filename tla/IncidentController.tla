-------------------------- MODULE IncidentController --------------------------
(***************************************************************************)
(* The incident autopilot for one source (app/incidents/controller.py) and *)
(* the owner's actions on its incidents (admin_app/service.py).            *)
(*                                                                         *)
(* A poll of the controller is four transactions: failures are detected,   *)
(* legacy rows normalised, recovered incidents resolved, due incidents     *)
(* processed.  The last one locks every due incident, runs their playbooks *)
(* one after the other, which act on the world at once, and commits what   *)
(* became of the incidents at its end; here it is a batch that is drafted  *)
(* incident by incident.  An owner's action waits for the row of its       *)
(* incident.  The controller may be killed between any two steps.          *)
(*                                                                         *)
(* Abstractions.  A kind of failure stands for what the fingerprint keeps  *)
(* of source, category, code and message.  Incidents are rows in the order *)
(* of their detection.  The playbooks' effects on the source are left to   *)
(* its own steps.  The action log, evidence and notifications are left out.*)
(***************************************************************************)
EXTENDS Naturals, FiniteSets

CONSTANTS
    Kinds,        \* kinds of failure
    Domain,       \* owner_domain that classify_failure gives each kind
    Waits,        \* kinds in SOURCE_WAIT_CATEGORIES
    Level0,       \* kinds with remediation_level 0
    PolicyAttempts,\* max_attempts of the policy
    MaxIncidents, \* bound: incidents ever opened
    MaxFaults,    \* bound: failures of the source and kills of the controller
    MaxOwnerActs, \* bound: actions of the owner
    MaxPolls,     \* bound: batches that have something to do
    NoFault

Domains == {"SOURCE_OWNED", "OUR_INFRASTRUCTURE", "OUR_CODE", "ACCESS_REQUIRED", "UNKNOWN"}

ASSUME IncidentsAssumption ==
    /\ Domain \in [Kinds -> Domains]
    /\ Waits \subseteq {k \in Kinds : Domain[k] = "SOURCE_OWNED"}
    /\ Level0 \subseteq Kinds
    /\ NoFault \notin Kinds
    /\ PolicyAttempts \in Nat \ {0}
    /\ {MaxIncidents, MaxFaults, MaxOwnerActs, MaxPolls} \subseteq Nat

VARIABLES
    rowError,   \* last_error of the readiness row, or NoFault
    runError,   \* error of the latest run of the worker, or NoFault
    incidents,  \* source_incidents, in the order of detection
    paused,     \* policy.paused
    stage,      \* the poll: what it has committed so far
    draft,      \* incidents of the batch, as it will leave them
    todo,       \* ... those that are not processed yet
    playbooks,  \* playbooks run for each incident outside the batch's
                \* transaction: checks of the source, restarts (history)
    refused,    \* batches that the database refused (history)
    faults, kills, ownerActs, polls  \* counters of the bounds

incidentVars == <<rowError, runError, incidents, paused, stage, draft, todo,
                  playbooks, refused, faults, kills, ownerActs, polls>>

Slots == 1..MaxIncidents
TerminalStatuses == {"RESOLVED", "CANCELLED"}
ActionableStatuses == {"OPEN", "RETRY_SCHEDULED", "WAITING_SOURCE"}
IncidentStatuses == TerminalStatuses \cup ActionableStatuses
                      \cup {"AGENT_UNAVAILABLE", "AUTO_REPAIR_EXHAUSTED"}

\* heal is auto_heal_enabled, due says that next_attempt_at has come (or is
\* null), asked that an engineering repair was requested, branch that one was
\* prepared.
Incidents == [kind : Kinds, owner : Domains, status : IncidentStatuses,
              attempts : 0..PolicyAttempts, due : BOOLEAN, heal : BOOLEAN,
              asked : BOOLEAN, branch : BOOLEAN]
NoIncident == [status |-> "absent"]
NoBatch == <<>>

IncidentsTypeOK ==
    /\ {rowError, runError} \subseteq Kinds \cup {NoFault}
    /\ incidents \in [Slots -> Incidents \cup {NoIncident}]
    /\ paused \in BOOLEAN
    /\ stage \in {"idle", "detected", "normalized", "verified", "processing"}
    /\ DOMAIN draft \subseteq Slots /\ todo \subseteq DOMAIN draft
    /\ draft \in [DOMAIN draft -> Incidents]
    /\ playbooks \in [Slots -> Nat]

Opened(i) == incidents[i] # NoIncident
Live(i) == Opened(i) /\ incidents[i].status \notin TerminalStatuses

-----------------------------------------------------------------------------
(* The source.                                                             *)

FailRun(k) ==
    /\ faults + kills < MaxFaults
    /\ faults' = faults + 1
    /\ runError' = k
    /\ UNCHANGED <<rowError, incidents, paused, stage, draft, todo,
                   playbooks, refused, kills, ownerActs, polls>>

\* sync_worker_failure_signals shows the failed run in the readiness row.
ShowRunError ==
    /\ runError # NoFault
    /\ rowError' = runError
    /\ UNCHANGED <<runError, incidents, paused, stage, draft, todo,
                   playbooks, refused, faults, kills, ownerActs, polls>>

SourceRecovers ==
    /\ rowError # NoFault \/ runError # NoFault
    /\ rowError' = NoFault
    /\ runError' = NoFault
    /\ UNCHANGED <<incidents, paused, stage, draft, todo,
                   playbooks, refused, faults, kills, ownerActs, polls>>

-----------------------------------------------------------------------------
(* A poll.                                                                 *)

Moves(from, to) == stage = from /\ stage' = to

\* detect_dataset_incidents looks at the latest run first.
Fault == IF runError # NoFault THEN runError ELSE rowError

\* upsert_incident finds the incident of the fingerprint that is not terminal.
KnownFault(k) == \E i \in Slots : Live(i) /\ incidents[i].kind = k

NewIncident(k) ==
    [kind |-> k, owner |-> Domain[k],
     status |-> IF k \in Waits THEN "WAITING_SOURCE" ELSE "OPEN",
     attempts |-> 0, due |-> TRUE, heal |-> ~paused /\ k \notin Level0,
     asked |-> FALSE, branch |-> FALSE]

Detect ==
    /\ Moves("idle", "detected")
    /\ IF Fault = NoFault \/ KnownFault(Fault) THEN UNCHANGED incidents
       ELSE \E i \in Slots :
              /\ {j \in Slots : Opened(j)} = 1..i - 1
              /\ incidents' = [incidents EXCEPT ![i] = NewIncident(Fault)]
    /\ UNCHANGED <<rowError, runError, paused, draft, todo, playbooks, refused,
                   faults, kills, ownerActs, polls>>

SourceWait(e) == e.owner = "SOURCE_OWNED" /\ e.kind \in Waits

\* normalize_source_owned_waits.
Normalize ==
    /\ Moves("detected", "normalized")
    /\ incidents' = [i \in Slots |->
         IF Live(i) /\ SourceWait(incidents[i])
                    /\ incidents[i].status = "AUTO_REPAIR_EXHAUSTED"
         THEN [incidents[i] EXCEPT !.status = "WAITING_SOURCE", !.due = TRUE]
         ELSE incidents[i]]
    /\ UNCHANGED <<rowError, runError, paused, draft, todo, playbooks, refused,
                   faults, kills, ownerActs, polls>>

\* verify_recovery.
Recovered == rowError = NoFault

\* verify_active_incidents.
VerifyActive ==
    /\ Moves("normalized", "verified")
    /\ incidents' = [i \in Slots |->
         IF Live(i) /\ Recovered THEN [incidents[i] EXCEPT !.status = "RESOLVED"]
         ELSE incidents[i]]
    /\ UNCHANGED <<rowError, runError, paused, draft, todo, playbooks, refused,
                   faults, kills, ownerActs, polls>>

DueIncidents ==
    {i \in Slots : Opened(i) /\ incidents[i].status \in ActionableStatuses
                   /\ incidents[i].due}

\* process_due_incidents selects them FOR UPDATE.
LockBatch ==
    /\ Moves("verified", "processing")
    /\ polls < MaxPolls
    /\ polls' = polls + 1
    /\ todo' = DueIncidents
    /\ draft' = [i \in DueIncidents |-> incidents[i]]
    /\ UNCHANGED <<rowError, runError, incidents, paused, playbooks,
                   refused, faults, kills, ownerActs>>

\* Mutant: an attempt that succeeds is not charged.
ChargedForFailure(e) ==
    IF Recovered THEN [e EXCEPT !.status = "RESOLVED", !.due = FALSE]
    ELSE [e EXCEPT !.attempts = IF SourceWait(e) THEN @ ELSE @ + 1, !.due = FALSE,
                   !.status = IF SourceWait(e) THEN "WAITING_SOURCE" ELSE "RETRY_SCHEDULED"]

\* What process_incident makes of an incident after its playbook.
AfterPlaybook(e) ==
    LET n == IF SourceWait(e) THEN e.attempts ELSE e.attempts + 1
        tried == [e EXCEPT !.attempts = n, !.due = FALSE]
    IN  CASE Recovered -> [tried EXCEPT !.status = "RESOLVED"]
          [] ~Recovered /\ SourceWait(e) -> [tried EXCEPT !.status = "WAITING_SOURCE"]
          [] ~Recovered /\ ~SourceWait(e) /\ n < PolicyAttempts
               -> [tried EXCEPT !.status = "RETRY_SCHEDULED"]
          [] OTHER -> [tried EXCEPT !.status = "AUTO_REPAIR_EXHAUSTED"]

AttemptsLeft(e) == SourceWait(e) \/ e.attempts < PolicyAttempts

\* process_incident, of the first incident of the batch that is left.  The kinds
\* that are not the source's nor the infrastructure's have no playbook; the retry
\* of a job is part of the transaction.
ProcessIncident(i) ==
    LET e == draft[i]
        acts == ~paused /\ e.heal
        tries == acts /\ ~e.asked /\ AttemptsLeft(e)
    IN
    /\ stage = "processing"
    /\ i \in todo /\ \A j \in todo : i <= j
    /\ todo' = todo \ {i}
    /\ draft' = [draft EXCEPT ![i] =
         CASE ~acts -> e
           [] acts /\ e.asked ->
                [e EXCEPT !.status = "AGENT_UNAVAILABLE", !.branch = TRUE, !.asked = FALSE]
           [] tries -> AfterPlaybook(e)
           [] OTHER -> [e EXCEPT !.status = "AUTO_REPAIR_EXHAUSTED"]]
    /\ playbooks' = playbooks
       \/ /\ tries /\ Domain[e.kind] \in {"SOURCE_OWNED", "OUR_INFRASTRUCTURE"}
          /\ playbooks' = [playbooks EXCEPT ![i] = @ + 1]
    /\ UNCHANGED <<rowError, runError, incidents, paused, stage, refused,
                   faults, kills, ownerActs, polls>>

\* The incident as the transaction of the batch sees it.
Drafted(i) == IF i \in DOMAIN draft THEN draft[i] ELSE incidents[i]

\* uq_source_incidents_active_engineering_source, of this source.
IndexHolds ==
    Cardinality({i \in Slots : Opened(i) /\ Drafted(i).status = "AGENT_UNAVAILABLE"
                               /\ Drafted(i).branch}) <= 1

EndBatch ==
    /\ stage' = "idle"
    /\ draft' = NoBatch
    /\ todo' = {}
    /\ UNCHANGED <<rowError, runError, paused, playbooks, faults, ownerActs, polls>>

\* A commit writes the incidents of the batch; the index may refuse one of them,
\* then or as soon as a query flushes it, and takes the whole batch with it.
CommitBatch ==
    /\ stage = "processing"
    /\ todo = {}
    /\ IndexHolds
    /\ incidents' = [i \in Slots |-> Drafted(i)]
    /\ EndBatch
    /\ UNCHANGED <<refused, kills>>

RefuseBatch ==
    /\ stage = "processing"
    /\ ~IndexHolds
    /\ refused' = refused + 1
    /\ EndBatch
    /\ UNCHANGED <<incidents, kills>>

\* The controller dies, or a step of it raises, and starts over with a new poll.
Kill ==
    /\ stage # "idle"
    /\ faults + kills < MaxFaults
    /\ kills' = kills + 1
    /\ EndBatch
    /\ UNCHANGED <<incidents, refused>>

\* Mutant: the due incidents are read, not locked.
RowReadable(i) == TRUE

\* Nobody else writes an incident of the batch.
RowFree(i) == i \notin DOMAIN draft

\* The delay of an incident is over.
DelayEnds(i) ==
    /\ Live(i) /\ ~incidents[i].due
    /\ i \notin DOMAIN draft
    /\ incidents' = [incidents EXCEPT ![i].due = TRUE]
    /\ UNCHANGED <<rowError, runError, paused, stage, draft, todo, playbooks, refused,
                   faults, kills, ownerActs, polls>>

-----------------------------------------------------------------------------
(* The owner: perform_incident_action, for what available_incident_actions *)
(* allows.                                                                 *)

OwnerUpdates(i, e, policyPaused) ==
    /\ RowFree(i)
    /\ ownerActs < MaxOwnerActs
    /\ ownerActs' = ownerActs + 1
    /\ incidents' = [incidents EXCEPT ![i] = e]
    /\ paused' = policyPaused
    /\ UNCHANGED <<rowError, runError, stage, draft, todo, playbooks, refused,
                   faults, kills, polls>>

CheckSourceNow(i) ==
    /\ Live(i) /\ SourceWait(incidents[i]) /\ ~paused
    /\ OwnerUpdates(i, [incidents[i] EXCEPT !.status = "WAITING_SOURCE",
                                            !.heal = TRUE, !.due = TRUE], paused)

RunAutoHeal(i) ==
    /\ Live(i) /\ incidents[i].owner \in {"OUR_INFRASTRUCTURE", "UNKNOWN"} /\ ~paused
    /\ OwnerUpdates(i, [incidents[i] EXCEPT !.status = "OPEN", !.due = TRUE], paused)

PauseAutoRepair(i) ==
    /\ Live(i) /\ ~paused
    /\ OwnerUpdates(i, [incidents[i] EXCEPT !.heal = FALSE], TRUE)

ResumeAutoRepair(i) ==
    /\ Live(i) /\ paused
    /\ OwnerUpdates(i, [incidents[i] EXCEPT !.heal = TRUE, !.due = TRUE], FALSE)

MarkSourceOwned(i) ==
    /\ Live(i) /\ incidents[i].owner = "UNKNOWN"
    /\ OwnerUpdates(i, [incidents[i] EXCEPT !.owner = "SOURCE_OWNED",
                          !.status = "WAITING_SOURCE", !.due = TRUE], paused)

RequestEngineering(i) ==
    /\ Live(i) /\ incidents[i].owner = "OUR_CODE"
    /\ OwnerUpdates(i, [incidents[i] EXCEPT !.status = "OPEN", !.asked = TRUE,
                                            !.due = TRUE], paused)

CancelPending(i) ==
    /\ Live(i) /\ incidents[i].status # "AUTO_REPAIR_EXHAUSTED"
    /\ incidents[i].owner \notin {"SOURCE_OWNED", "ACCESS_REQUIRED"}
    /\ OwnerUpdates(i, [incidents[i] EXCEPT !.status = "CANCELLED"], paused)

\* Incidents of earlier releases may be exhausted although they wait for the source.
IncidentsInit ==
    /\ rowError = NoFault
    /\ runError = NoFault
    /\ paused = FALSE
    /\ incidents \in
         {[i \in Slots |-> NoIncident]} \cup
         {[i \in Slots |-> IF i = 1 THEN [NewIncident(k) EXCEPT
                              !.status = "AUTO_REPAIR_EXHAUSTED", !.due = FALSE]
                           ELSE NoIncident] : k \in Waits}
    /\ stage = "idle"
    /\ draft = NoBatch
    /\ todo = {}
    /\ playbooks = [i \in Slots |-> 0]
    /\ refused = 0
    /\ faults = 0 /\ kills = 0 /\ ownerActs = 0 /\ polls = 0

IncidentsNext ==
    \/ \E k \in Kinds : FailRun(k)
    \/ ShowRunError \/ SourceRecovers
    \/ Detect \/ Normalize \/ VerifyActive \/ LockBatch
    \/ CommitBatch \/ RefuseBatch \/ Kill
    \/ \E i \in Slots :
         \/ ProcessIncident(i) \/ DelayEnds(i)
         \/ CheckSourceNow(i) \/ RunAutoHeal(i) \/ PauseAutoRepair(i)
         \/ ResumeAutoRepair(i) \/ MarkSourceOwned(i) \/ RequestEngineering(i)
         \/ CancelPending(i)

IncidentsSpec == IncidentsInit /\ [][IncidentsNext]_incidentVars

-----------------------------------------------------------------------------
(* Properties.                                                             *)

\* What is resolved or cancelled stays so: a batch that was processing the
\* incident when the owner cancelled it does not bring it back.
SettledIncidents ==
    [][\A i \in Slots :
         Opened(i) /\ ~Live(i) => incidents'[i] = incidents[i]]_incidentVars

\* The circuit breaker: the playbooks that ran for an incident were counted as
\* attempts, of which there are at most max_attempts, except the last one of
\* each batch that was lost.  An incident that waits for its source is never
\* charged and never exhausted.
AttemptsHold ==
    \A i \in Slots : Opened(i) =>
        /\ ~SourceWait(Drafted(i)) =>
             playbooks[i] <= Drafted(i).attempts + kills + refused
        /\ SourceWait(Drafted(i)) => Drafted(i).attempts = 0

\* "automatic remediation attempt limit reached": as long as the controller is
\* not killed, no incident gets more playbooks than it is charged for.
PlaybooksCounted ==
    \A i \in Slots : Opened(i) /\ ~SourceWait(Drafted(i)) =>
        playbooks[i] <= Drafted(i).attempts + kills
=============================================================================
