---------------------------- MODULE MCComponents ----------------------------
(***************************************************************************)
(* Small instances of eight components that share no state: one of them    *)
(* runs ("part"), the others stay as they began.                           *)
(***************************************************************************)
EXTENDS WorkspaceMembers, BulkCheck, Monitoring, BulkSource,
        IncidentController, RawStaging, CompanyEnrichment,
        FirmotekaCrawl, TLC

CONSTANTS
    a, b, c, d, i1, i2, x, y, page1,
    Running         \* the components that a run is about

VARIABLE part

\* Workspace members: a workspace one seat below its limit with an invitation
\* outstanding, one with two owners and a suspended member.
Member(s, r) == [status |-> s, role |-> r]
NoMember == Member("none", "MEMBER")

OneOwner ==
    [roster |-> a :> Member("active", "OWNER") @@ b :> Member("active", "ADMIN")
                @@ c :> NoMember @@ d :> NoMember,
     invited |-> i1 :> c]
TwoOwners ==
    [roster |-> a :> Member("active", "OWNER") @@ b :> Member("active", "OWNER")
                @@ c :> Member("suspended", "MEMBER") @@ d :> NoMember,
     invited |-> << >>]
MCBeginnings == {OneOwner, TwoOwners}

\* Bulk check: files with a row that is never checked.
MCUploads == {<<"PENDING", "PENDING", "INVALID_INN", "PENDING">>,
              <<"PENDING", "DUPLICATE", "PENDING", "PENDING">>}

\* Monitoring: a value seen on two dates, and another one.
MCFacts == {[value |-> 1, date |-> 1], [value |-> 1, date |-> 2],
            [value |-> 2, date |-> 1]}

\* Bulk source: the second release drops a company.
MCListed == <<{x, y}, {y}>>

\* Incidents: a kind of failure for each owner of a failure but access.
DomainOf ==
    "network" :> "OUR_INFRASTRUCTURE" @@ "parser" :> "OUR_CODE"
    @@ "normalize" :> "OUR_CODE" @@ "invalid" :> "SOURCE_OWNED"
    @@ "unknown" :> "UNKNOWN"
MCDomain == [k \in Kinds |-> DomainOf[k]]

\* Enrichment: two data sets with one run, of which one is asked by a job and
\* one looked up, one of them not known to apply; one data set with two runs,
\* asked by a job or looked up; one with two changes; one with two events.
Scope(mode, policy, changed, runsOf, happens) ==
    [mode |-> mode, policy |-> policy, changes |-> changed, runs |-> runsOf,
     events |-> happens]
MCScopes ==
    {Scope(x :> "bulk" @@ y :> "lookup", x :> "APPLICABLE" @@ y :> "UNKNOWN", 1, 1, 1),
     Scope(x :> "point" @@ y :> "lookup", x :> "UNKNOWN" @@ y :> "APPLICABLE", 1, 1, 1),
     Scope(x :> "bulk", x :> "APPLICABLE", 1, 2, 0),
     Scope(x :> "lookup", x :> "APPLICABLE", 1, 2, 1),
     Scope(x :> "point", x :> "APPLICABLE", 2, 1, 1),
     Scope(x :> "bulk", x :> "UNKNOWN", 2, 1, 1),
     Scope(x :> "point", x :> "APPLICABLE", 1, 1, 2)}

\* Crawl: the sitemap lists a page, which lists two companies.
MCLists == "sitemap" :> <<page1>> @@ page1 :> <<x, y>>

\* How each component begins when it does not run.
Parked ==
    /\ part # "members" => members = OneOwner.roster
    /\ part # "bulk" => items[3].status = "INVALID_INN"
    /\ part # "monitoring" => fact.kind = "absent" /\ saved = {}
    /\ page.until = 1
    /\ part # "incidents" => incidents[1] = NoIncident
    /\ part # "staging" => served = [xsd |-> "x1", etag |-> "e1"]
    /\ part # "enrichment" => ~cohort /\ scope.events = 2

ComponentsInit ==
    /\ part \in Running
    /\ MembersInit /\ BulkInit /\ MonitoringInit
    /\ SourceInit /\ IncidentsInit /\ StagingInit /\ EnrichmentInit
    /\ CrawlInit
    /\ Parked

\* Everything but the state of the component that runs.
ButMembers == <<part, bulkVars, monitoringVars, sourceVars, incidentVars,
    stagingVars, enrichmentVars, crawlVars>>
ButBulk == <<part, membersVars, monitoringVars, sourceVars, incidentVars,
    stagingVars, enrichmentVars, crawlVars>>
ButMonitoring == <<part, membersVars, bulkVars, sourceVars, incidentVars,
    stagingVars, enrichmentVars, crawlVars>>
ButSource == <<part, membersVars, bulkVars, monitoringVars, incidentVars,
    stagingVars, enrichmentVars, crawlVars>>
ButIncidents == <<part, membersVars, bulkVars, monitoringVars, sourceVars,
    stagingVars, enrichmentVars, crawlVars>>
ButStaging == <<part, membersVars, bulkVars, monitoringVars, sourceVars,
    incidentVars, enrichmentVars, crawlVars>>
ButEnrichment == <<part, membersVars, bulkVars, monitoringVars, sourceVars,
    incidentVars, stagingVars, crawlVars>>
ButCrawl == <<part, membersVars, bulkVars, monitoringVars, sourceVars,
    incidentVars, stagingVars, enrichmentVars>>

ComponentsNext ==
    \/ part = "members" /\ MembersNext /\ UNCHANGED ButMembers
    \/ part = "bulk" /\ BulkNext /\ UNCHANGED ButBulk
    \/ part = "monitoring" /\ MonitoringNext /\ UNCHANGED ButMonitoring
    \/ part = "source" /\ SourceNext /\ UNCHANGED ButSource
    \/ part = "incidents" /\ IncidentsNext /\ UNCHANGED ButIncidents
    \/ part = "staging" /\ StagingNext /\ UNCHANGED ButStaging
    \/ part = "enrichment" /\ EnrichmentNext /\ UNCHANGED ButEnrichment
    \/ part = "crawl" /\ CrawlNext /\ UNCHANGED ButCrawl

ComponentsSpec ==
    ComponentsInit
    /\ [][ComponentsNext]_<<part, membersVars, bulkVars, monitoringVars,
                            sourceVars, incidentVars, stagingVars,
                            enrichmentVars, crawlVars>>

\* The tables of the component that runs keep their shape.
ComponentsTypeOK ==
    /\ part = "members" => MembersTypeOK
    /\ part = "bulk" => BulkTypeOK
    /\ part = "monitoring" => MonitoringTypeOK
    /\ part = "source" => SourceTypeOK
    /\ part = "incidents" => IncidentsTypeOK
    /\ part = "staging" => StagingTypeOK
    /\ part = "enrichment" => EnrichmentTypeOK
    /\ part = "crawl" => CrawlTypeOK
=============================================================================
