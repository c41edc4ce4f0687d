-------------------------- MODULE ComponentsProofs --------------------------
(***************************************************************************)
(* The instance that TLC checks (MCComponents) adds nothing to the eight   *)
(* components: whatever it does is a behaviour of each of them.  So what   *)
(* is proved of a component holds of its instance, and a behaviour that    *)
(* TLC finds in the instance is one that the component's specification     *)
(* allows.                                                                 *)
(***************************************************************************)
EXTENDS MCComponents, WorkspaceMembersProofs, WorkspaceServicesProofs,
        ControlPlaneProofs, IngestionProofs, CompanyEnrichmentProofs

all == <<part, membersVars, bulkVars, monitoringVars, sourceVars, incidentVars,
         stagingVars, enrichmentVars, crawlVars>>

LEMMA ComponentsBegin ==
    ComponentsInit => /\ MembersInit /\ BulkInit /\ MonitoringInit /\ SourceInit
                      /\ IncidentsInit /\ StagingInit /\ EnrichmentInit /\ CrawlInit
  BY DEF ComponentsInit

\* One component takes a step of its own, and the others stutter.
LEMMA ComponentsStep ==
    ASSUME [ComponentsNext]_all
    PROVE  /\ [MembersNext]_membersVars /\ [BulkNext]_bulkVars
           /\ [MonitoringNext]_monitoringVars /\ [SourceNext]_sourceVars
           /\ [IncidentsNext]_incidentVars /\ [StagingNext]_stagingVars
           /\ [EnrichmentNext]_enrichmentVars /\ [CrawlNext]_crawlVars
  <1>1. CASE MembersNext /\ UNCHANGED ButMembers
    BY <1>1 DEF ButMembers
  <1>2. CASE BulkNext /\ UNCHANGED ButBulk
    BY <1>2 DEF ButBulk
  <1>3. CASE MonitoringNext /\ UNCHANGED ButMonitoring
    BY <1>3 DEF ButMonitoring
  <1>4. CASE SourceNext /\ UNCHANGED ButSource
    BY <1>4 DEF ButSource
  <1>5. CASE IncidentsNext /\ UNCHANGED ButIncidents
    BY <1>5 DEF ButIncidents
  <1>6. CASE StagingNext /\ UNCHANGED ButStaging
    BY <1>6 DEF ButStaging
  <1>7. CASE EnrichmentNext /\ UNCHANGED ButEnrichment
    BY <1>7 DEF ButEnrichment
  <1>8. CASE CrawlNext /\ UNCHANGED ButCrawl
    BY <1>8 DEF ButCrawl
  <1>9. CASE UNCHANGED all
    BY <1>9 DEF all
  <1> QED
    BY <1>1, <1>2, <1>3, <1>4, <1>5, <1>6, <1>7, <1>8, <1>9 DEF ComponentsNext

\* A run of the instance is a run of every component: the workspace members,
\* the bulk check, the monitoring, the bulk source, the incident controller,
\* the RAW staging, the company enrichment and the crawl.
THEOREM RunsAreComponentRuns ==
    ComponentsSpec => /\ MembersSpec /\ BulkSpec /\ MonitoringSpec /\ SourceSpec
                      /\ IncidentsSpec /\ StagingSpec /\ EnrichmentSpec /\ CrawlSpec
  <1>1. [ComponentsNext]_all =>
          /\ [MembersNext]_membersVars /\ [BulkNext]_bulkVars
          /\ [MonitoringNext]_monitoringVars /\ [SourceNext]_sourceVars
          /\ [IncidentsNext]_incidentVars /\ [StagingNext]_stagingVars
          /\ [EnrichmentNext]_enrichmentVars /\ [CrawlNext]_crawlVars
    BY ComponentsStep
  <1> QED
    BY <1>1, ComponentsBegin, PTL
       DEF ComponentsSpec, all, MembersSpec, BulkSpec, MonitoringSpec, SourceSpec,
           IncidentsSpec, StagingSpec, EnrichmentSpec, CrawlSpec

\* ComponentsTypeOK: the tables of every component keep their shape in the
\* instance, whichever of them runs.
THEOREM ComponentsTypes == ComponentsSpec => []ComponentsTypeOK
  <1>1. /\ MembersTypeOK /\ BulkTypeOK /\ MonitoringTypeOK /\ SourceTypeOK
        /\ IncidentsTypeOK /\ StagingTypeOK /\ EnrichmentTypeOK /\ CrawlTypeOK
        => ComponentsTypeOK
    BY DEF ComponentsTypeOK
  <1>2. IncidentsInv => IncidentsTypeOK
    BY DEF IncidentsInv
  <1> QED
    BY <1>1, <1>2, RunsAreComponentRuns, MembersTypes, BulkTypes, MonitoringTypes, SourceTypes,
       IncidentsInvariant, StagingTypes, EnrichmentTypes, CrawlTypes, PTL
=============================================================================
