----------------------------- MODULE Monitoring -----------------------------
(***************************************************************************)
(* Monitoring of one company by several workspaces                         *)
(* (workspace_app/monitoring_service.py) and the saved company that every  *)
(* subscription needs (workspace_app/service.py).                          *)
(*                                                                         *)
(* Every operation but one is one step: a subscription is created, paused  *)
(* and resumed under the lock of its entitlement row and of its own row, a *)
(* scan locks all the subscriptions it serves before it reads the facts    *)
(* once, and each commits as a whole.  The exception is unsave_company,    *)
(* whose lock of the saved company row locks nothing when there is no row. *)
(*                                                                         *)
(* Abstractions.  One semantic coordinate (coordinates do not affect each  *)
(* other); a business state and its value are one value.  Events of origin *)
(* COVERAGE_CHANGE, which no feed shows, risk and summary references,      *)
(* fingerprints, severity, read marks and audit events are left out.       *)
(***************************************************************************)
EXTENDS Naturals, Sequences

CONSTANTS
    Workspaces,
    Facts,        \* business facts ever materialised: [value, date], where a
                  \* value is one that was FOUND, NOT_FOUND or NOT_APPLICABLE
    MaxFacts,     \* bound: materialisations of the fact
    MaxActs,      \* bound: pauses, unsaves and changes of an entitlement
    Unknown, Hidden

ASSUME MonitoringAssumption ==
    /\ {MaxFacts, MaxActs} \subseteq Nat
    /\ \A f \in Facts : DOMAIN f = {"value", "date"}
    /\ Unknown # Hidden
    /\ {Unknown, Hidden} \cap Facts = {}
    /\ Unknown \notin {f.value : f \in Facts}

Values == {f.value : f \in Facts}

VARIABLES
    fact,        \* the current semantic fact of the company
    saved,       \* workspaces that have saved the company
    unsaving,    \* unsave_company in flight: "no", "locked" or "blind"
    entitled,    \* workspaces with monitoring.enabled
    status,      \* "NONE", "ACTIVE" or "PAUSED" subscription of each workspace
    baseline,    \* snapshot the subscription's cursor names: [known, blocked]
    feed,        \* feed entries of each workspace, oldest first
    told,        \* value a reader of card and feed takes to be current
    repeated,    \* workspaces whose feed met a move that it had met before
    torn,        \* workspaces where an unsave deleted a row it had not locked
    materialised, acts     \* counters of the bounds

monitoringVars == <<fact, saved, unsaving, entitled, status, baseline, feed,
                    told, repeated, torn, materialised, acts>>

\* A materialised fact, an uncertain one (coverage states), none at all, or one
\* whose rights are INTERNAL_ONLY.
Observations ==
    [kind : {"business"}, fact : Facts] \cup [kind : {"coverage", "absent", "restricted"}]

Snapshots == [known : Facts \cup {Unknown}, blocked : BOOLEAN]

MonitoringTypeOK ==
    /\ fact \in Observations
    /\ saved \subseteq Workspaces
    /\ unsaving \in [Workspaces -> {"no", "locked", "blind"}]
    /\ entitled \subseteq Workspaces
    /\ status \in [Workspaces -> {"NONE", "ACTIVE", "PAUSED"}]
    /\ baseline \in [Workspaces -> Snapshots]
    /\ \A w \in Workspaces :
         feed[w] \in Seq((Facts \cup {Unknown}) \X Facts)
    /\ told \in [Workspaces -> Values \cup {Unknown}]
    /\ {repeated, torn} \subseteq SUBSET Workspaces
    /\ materialised \in 0..MaxFacts
    /\ acts \in 0..MaxActs

NoSnapshot == [known |-> Unknown, blocked |-> FALSE]

-----------------------------------------------------------------------------
(* Snapshots and changes.                                                  *)

\* _create_snapshot: a restriction blocks the coordinate until a business state
\* is observed again, and a blocked coordinate forgets its business fact.
Blocks(previous) ==
    fact.kind # "business" /\ (previous.blocked \/ fact.kind = "restricted")

\* Mutant: only the last snapshot is looked at, so a coverage gap loses the fact.
KnownNow(previous) == IF fact.kind = "business" THEN fact.fact ELSE Unknown

\* _last_known_business_facts.
Known(previous) ==
    CASE fact.kind = "business" -> fact.fact
      [] fact.kind # "business" /\ Blocks(previous) -> Unknown
      [] OTHER -> previous.known

Snapshot(previous) == [known |-> Known(previous), blocked |-> Blocks(previous)]

ValueOf(known) == IF known \in Facts THEN known.value ELSE Unknown

\* Mutant: the end of a restriction is reported as a change.
ChangedSinceRestriction(previous, current) ==
    /\ fact.kind = "business"
    /\ ValueOf(previous.known) # fact.fact.value

\* detect_changes: the visible change between two snapshots.  A business fact
\* is compared with the last one known, whatever came between; neither snapshot
\* may be blocked.
Changed(previous, current) ==
    /\ ~previous.blocked /\ ~current.blocked
    /\ fact.kind = "business"
    /\ ValueOf(previous.known) # fact.fact.value

\* The deduplication key of the event, as far as it varies here.
Event(previous) == <<previous.known, fact.fact>>

Seen(entries, event) == \E n \in DOMAIN entries : entries[n] = event

-----------------------------------------------------------------------------
(* Operations.                                                             *)

\* A semantic fact is materialised.
Materialise ==
    /\ materialised < MaxFacts
    /\ materialised' = materialised + 1
    /\ fact' \in Observations \ {fact}
    /\ UNCHANGED <<saved, unsaving, entitled, status, baseline, feed, told,
                   repeated, torn, acts>>

\* save_company (its quota is left out).
Save(w) ==
    /\ unsaving[w] # "locked"
    /\ saved' = saved \cup {w}
    /\ UNCHANGED <<fact, unsaving, entitled, status, baseline, feed, told,
                   repeated, torn, materialised, acts>>

\* unsave_company up to the check: refused while the subscription is active.
BeginUnsave(w) ==
    /\ unsaving[w] = "no"
    /\ status[w] # "ACTIVE"
    /\ acts < MaxActs
    /\ acts' = acts + 1
    /\ unsaving' = [unsaving EXCEPT ![w] = IF w \in saved THEN "locked" ELSE "blind"]
    /\ UNCHANGED <<fact, saved, entitled, status, baseline, feed, told,
                   repeated, torn, materialised>>

\* Its DELETE, which sees what was committed after the check.
EndUnsave(w) ==
    /\ unsaving[w] # "no"
    /\ unsaving' = [unsaving EXCEPT ![w] = "no"]
    /\ saved' = saved \ {w}
    /\ torn' = IF unsaving[w] = "blind" /\ w \in saved THEN torn \cup {w} ELSE torn
    /\ UNCHANGED <<fact, entitled, status, baseline, feed, told, repeated,
                   materialised, acts>>

\* Mutant: the saved company is read, not locked.
ReadsSaved(w) == w \in saved

\* The locked saved company that subscribe_company and resume_subscription need.
HasSaved(w) == w \in saved /\ unsaving[w] # "locked"

\* subscribe_company: a baseline without a previous snapshot, and no event.
Subscribe(w) ==
    /\ w \in entitled
    /\ status[w] = "NONE"
    /\ HasSaved(w)
    /\ status' = [status EXCEPT ![w] = "ACTIVE"]
    /\ baseline' = [baseline EXCEPT ![w] = Snapshot(NoSnapshot)]
    /\ told' = [told EXCEPT ![w] = ValueOf(baseline'[w].known)]
    /\ UNCHANGED <<fact, saved, unsaving, entitled, feed, repeated, torn,
                   materialised, acts>>

\* pause_subscription.
Pause(w) ==
    /\ w \in entitled
    /\ status[w] = "ACTIVE"
    /\ acts < MaxActs
    /\ acts' = acts + 1
    /\ status' = [status EXCEPT ![w] = "PAUSED"]
    /\ UNCHANGED <<fact, saved, unsaving, entitled, baseline, feed, told,
                   repeated, torn, materialised>>

\* resume_subscription: the baseline is taken anew, with the old one as context.
Resume(w) ==
    /\ w \in entitled
    /\ status[w] = "PAUSED"
    /\ HasSaved(w)
    /\ status' = [status EXCEPT ![w] = "ACTIVE"]
    /\ baseline' = [baseline EXCEPT ![w] = Snapshot(baseline[w])]
    /\ told' = [told EXCEPT ![w] = ValueOf(baseline'[w].known)]
    /\ UNCHANGED <<fact, saved, unsaving, entitled, feed, repeated, torn,
                   materialised, acts>>

\* The entitlement is switched by an operator.
SwitchEntitlement(w) ==
    /\ acts < MaxActs
    /\ acts' = acts + 1
    /\ entitled' = IF w \in entitled THEN entitled \ {w} ELSE entitled \cup {w}
    /\ UNCHANGED <<fact, saved, unsaving, status, baseline, feed, told,
                   repeated, torn, materialised>>

\* The subscriptions a scan locks.
Served == {w \in entitled : status[w] = "ACTIVE"}

\* monitor_company_once: persist_events finds the event of an equal key that a
\* scan made before, fanout_events the entry of this workspace for it.
Scan ==
    LET current == [w \in Workspaces |-> Snapshot(baseline[w])]
        changed == {w \in Served : Changed(baseline[w], current[w])}
        met == {w \in changed : Seen(feed[w], Event(baseline[w]))}
    IN /\ Served # {}
       /\ baseline' = [w \in Workspaces |->
                          IF w \in Served THEN current[w] ELSE baseline[w]]
       /\ feed' = [w \in Workspaces |->
                      IF w \in changed \ met THEN Append(feed[w], Event(baseline[w]))
                      ELSE feed[w]]
       /\ told' = [w \in Workspaces |->
                      CASE w \in changed \ met -> fact.fact.value
                        [] w \in Served /\ (baseline[w].blocked \/ current[w].blocked)
                             -> ValueOf(current[w].known)
                        [] OTHER -> told[w]]
       /\ repeated' = repeated \cup met
       /\ UNCHANGED <<fact, saved, unsaving, entitled, status, torn,
                      materialised, acts>>

MonitoringInit ==
    /\ fact \in [kind : {"business"}, fact : Facts] \cup [kind : {"absent"}]
    /\ saved \in {{}, Workspaces}
    /\ unsaving = [w \in Workspaces |-> "no"]
    /\ entitled = Workspaces
    /\ status = [w \in Workspaces |-> "NONE"]
    /\ baseline = [w \in Workspaces |-> NoSnapshot]
    /\ feed = [w \in Workspaces |-> <<>>]
    /\ told = [w \in Workspaces |-> Unknown]
    /\ repeated = {}
    /\ torn = {}
    /\ materialised = 0
    /\ acts = 0

MonitoringNext ==
    \/ Materialise \/ Scan
    \/ \E w \in Workspaces :
         \/ Save(w) \/ BeginUnsave(w) \/ EndUnsave(w)
         \/ Subscribe(w) \/ Pause(w) \/ Resume(w) \/ SwitchEntitlement(w)

MonitoringSpec == MonitoringInit /\ [][MonitoringNext]_monitoringVars

-----------------------------------------------------------------------------
(* Properties.                                                             *)

\* Subscriptions and scans give each workspace what ChangeFeed promises: an
\* entry goes from the fact the workspace last learnt to the one just observed,
\* coverage gaps, restricted periods, pauses, other workspaces and repeated
\* scans notwithstanding.
Promise == INSTANCE ChangeFeed WITH
    follows <- {w \in Workspaces : status[w] = "ACTIVE"},
    belief <- [w \in Workspaces |->
                 IF baseline[w].blocked THEN Hidden ELSE baseline[w].known],
    entries <- feed

KeepsPromise == Promise!FeedSpec

\* Whoever reads the card when the subscription begins or resumes, and the feed
\* from then on, knows the last known value: no change is lost between two
\* snapshots, unless a move recurred with the same source dates (the limit the
\* document names).
ReaderIsUpToDate ==
    \A w \in Workspaces :
        status[w] = "ACTIVE" /\ w \notin repeated =>
            told[w] = ValueOf(baseline[w].known)

\* What is monitored is saved: an active subscription blocks the unsave, and no
\* subscription begins or resumes beside one, as long as every unsave found a
\* row to lock.
MonitoredIsSaved ==
    \A w \in Workspaces \ torn : status[w] = "ACTIVE" => w \in saved
=============================================================================
