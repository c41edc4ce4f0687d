--------------------------- MODULE IngestionProofs ---------------------------
(***************************************************************************)
(* Theorems about how data is brought in: about the RAW directory of an    *)
(* archive (RawStaging) for any number of processes, schemas, headers and  *)
(* failures, and about the Firmoteka crawl (FirmotekaCrawl) for any sets   *)
(* of checkpoints and pages, any number of crawls, schedulers and attempts.*)
(***************************************************************************)
EXTENDS RawStaging, FirmotekaCrawl, FiniteSetTheorems, SequenceTheorems,
        WellFoundedInduction, TLAPS

-----------------------------------------------------------------------------
(* The RAW directory stays what it is.  The invariant follows one process  *)
(* through it: what it has passed is there and agrees with what it         *)
(* downloaded, for nothing that is there is ever replaced, and at most one *)
(* process is filling the manifest.                                        *)

\* Where a process stands in the directory.
PastZip == {"xsd", "manifest", "write", "normalize", "done"}
PastXsd == {"manifest", "write", "normalize", "done"}
PastManifest == {"normalize", "done"}

Passed(p) ==
    /\ stager[p].at \in PastZip => zipFile
    /\ stager[p].at \in PastXsd => xsdFile = stager[p].got.xsd
    /\ stager[p].at = "write" => manifest = Empty
    /\ stager[p].at \in PastManifest => manifest = stager[p].got

\* At most one process is filling the manifest.
OneWriter ==
    \A p, q \in Processes :
        stager[p].at = "write" /\ stager[q].at = "write" => p = q

\* The manifest describes the files beside it.
Describes == manifest \in Downloads => zipFile /\ xsdFile = manifest.xsd

\* The inductive invariant.
StagingInv ==
    /\ StagingTypeOK
    /\ stops \in Nat
    /\ \A p \in Processes : Passed(p)
    /\ OneWriter
    /\ Describes
    /\ UnreadableOnlyAfterStop

\* A process that has begun has downloaded something.
LEMMA StagerFacts ==
    ASSUME StagingTypeOK, NEW p \in Processes
    PROVE  \/ stager[p] = NotStaging /\ stager[p].at = "idle"
           \/ /\ stager[p] \in [at : StagerSteps, got : Downloads]
              /\ stager[p].got \in Downloads /\ stager[p].got.xsd \in Schemas
              /\ stager[p].at \in StagerSteps
  BY DEF StagingTypeOK, NotStaging, Downloads

LEMMA StagingInitInv == StagingInit => StagingInv
<1> SUFFICES ASSUME StagingInit PROVE StagingInv
  OBVIOUS
<1>1. Absent \notin Downloads /\ Absent # Empty
  BY StagingAssumption
<1>2. \A p \in Processes : stager[p] = NotStaging /\ stager[p].at = "idle"
  BY DEF StagingInit, NotStaging
<1>3. stager \in [Processes -> {NotStaging} \cup [at : StagerSteps, got : Downloads]]
  <2> HIDE DEF NotStaging
  <2> QED
    BY DEF StagingInit
<1>4. StagingTypeOK
  BY <1>3 DEF StagingInit, StagingTypeOK
<1>5. \A p \in Processes : Passed(p)
  BY <1>2 DEF Passed, PastZip, PastXsd, PastManifest
<1>6. OneWriter
  BY <1>2 DEF OneWriter
<1>7. Describes /\ UnreadableOnlyAfterStop
  BY <1>1 DEF StagingInit, Describes, UnreadableOnlyAfterStop
<1>8. stops \in Nat
  BY DEF StagingInit
<1> QED
  BY <1>4, <1>5, <1>6, <1>7, <1>8 DEF StagingInv

\* A process that takes a step in the directory.
LEMMA StagerMoves ==
    ASSUME StagingInv, NEW p \in Processes, NEW step \in StagerSteps,
           stager[p].at # "idle", Goes(p, step)
    PROVE  /\ stager' \in [Processes -> {NotStaging} \cup [at : StagerSteps, got : Downloads]]
           /\ stager'[p].at = step /\ stager'[p].got = stager[p].got
           /\ \A q \in Processes : q # p => stager'[q] = stager[q]
<1>1. stager[p] \in [at : StagerSteps, got : Downloads]
  BY StagerFacts DEF StagingInv
<1>2. [stager[p] EXCEPT !.at = step] \in [at : StagerSteps, got : Downloads]
  BY <1>1
<1>3. stager' = [stager EXCEPT ![p] = [stager[p] EXCEPT !.at = step]]
  BY DEF Goes
<1> QED
  BY <1>1, <1>2, <1>3 DEF StagingInv, StagingTypeOK

\* A process that gives up, is done or dies.
LEMMA StagerLeaves ==
    ASSUME StagingInv, NEW p \in Processes, Leaves(p),
           UNCHANGED <<served, zipFile, xsdFile, manifest, rowsFile>>,
           stops' \in Nat, stops' >= stops,
           stager[p].at = "write" => stops' > 0
    PROVE  StagingInv'
<1>1. /\ stager' \in [Processes -> {NotStaging} \cup [at : StagerSteps, got : Downloads]]
      /\ stager'[p] = NotStaging /\ stager'[p].at = "idle"
      /\ \A q \in Processes : q # p => stager'[q] = stager[q]
  BY DEF Leaves, StagingInv, StagingTypeOK, NotStaging
<1>2. StagingTypeOK'
  BY <1>1 DEF StagingInv, StagingTypeOK
<1>3. (\A q \in Processes : Passed(q))'
  BY <1>1 DEF StagingInv, Passed, PastZip, PastXsd, PastManifest
<1>4. OneWriter' /\ Describes'
  BY <1>1 DEF StagingInv, OneWriter, Describes
<1>5. UnreadableOnlyAfterStop'
  BY <1>1 DEF StagingInv, UnreadableOnlyAfterStop, Stands
<1> QED
  BY <1>2, <1>3, <1>4, <1>5 DEF StagingInv

LEMMA StagingStepInv ==
    ASSUME StagingInv, [StagingNext]_stagingVars
    PROVE  StagingInv'
<1> USE StagingAssumption
<1> USE DEF PastZip, PastXsd, PastManifest
<1>1. ASSUME NEW p \in Processes, DownloadZip(p) PROVE StagingInv'
  <2>1. /\ stager'[p] = [at |-> "fetch", got |-> served]
        /\ stager'[p].at = "fetch"
        /\ \A q \in Processes : q # p => stager'[q] = stager[q]
        /\ stager' \in [Processes -> {NotStaging} \cup [at : StagerSteps, got : Downloads]]
    BY <1>1 DEF DownloadZip, StagingInv, StagingTypeOK, StagerSteps
  <2> QED
    BY <1>1, <2>1 DEF DownloadZip, Stands, StagingInv, StagingTypeOK, Passed, OneWriter,
       Describes, UnreadableOnlyAfterStop
<1>2. ASSUME NEW p \in Processes, DownloadXsd(p) PROVE StagingInv'
  <2>1. stager[p] \in [at : StagerSteps, got : Downloads] /\ served.xsd \in Schemas
    BY <1>2, StagerFacts DEF DownloadXsd, Stands, StagingInv, StagingTypeOK, Downloads
  <2> DEFINE now == [stager[p] EXCEPT !.at = "zip", !.got.xsd = served.xsd]
  <2>2. now \in [at : StagerSteps, got : Downloads] /\ now.at = "zip"
    BY <2>1 DEF Downloads, StagerSteps
  <2>3. stager' = [stager EXCEPT ![p] = now]
    BY <1>2 DEF DownloadXsd
  <2> HIDE DEF now
  <2>4. /\ stager'[p].at = "zip"
        /\ \A q \in Processes : q # p => stager'[q] = stager[q]
        /\ stager' \in [Processes -> {NotStaging} \cup [at : StagerSteps, got : Downloads]]
    BY <2>2, <2>3 DEF StagingInv, StagingTypeOK
  <2>5. UNCHANGED <<served, zipFile, xsdFile, manifest, rowsFile, stops>>
        /\ stager[p].at = "fetch"
    BY <1>2 DEF DownloadXsd, Stands
  <2>6. StagingTypeOK'
    BY <2>4, <2>5 DEF StagingInv, StagingTypeOK
  <2>7. (\A q \in Processes : Passed(q))'
    BY <2>4, <2>5 DEF StagingInv, Passed
  <2>8. OneWriter' /\ Describes'
    BY <2>4, <2>5 DEF StagingInv, OneWriter, Describes
  <2>9. UnreadableOnlyAfterStop'
    BY <2>4, <2>5 DEF StagingInv, UnreadableOnlyAfterStop, Stands
  <2> QED
    BY <2>5, <2>6, <2>7, <2>8, <2>9 DEF StagingInv
<1>3. ASSUME NEW p \in Processes, PersistZip(p) PROVE StagingInv'
  <2>1. /\ stager'[p].at = "xsd" /\ stager'[p].got = stager[p].got
        /\ \A q \in Processes : q # p => stager'[q] = stager[q]
        /\ stager' \in [Processes -> {NotStaging} \cup [at : StagerSteps, got : Downloads]]
    BY <1>3, StagerMoves DEF PersistZip, Stands, StagerSteps
  <2> QED
    BY <1>3, <2>1 DEF PersistZip, Stands, StagingInv, StagingTypeOK, Passed, OneWriter,
       Describes, UnreadableOnlyAfterStop
<1>4. ASSUME NEW p \in Processes, PersistXsd(p) PROVE StagingInv'
  <2>1. /\ stager'[p].at = "manifest" /\ stager'[p].got = stager[p].got
        /\ \A q \in Processes : q # p => stager'[q] = stager[q]
        /\ stager' \in [Processes -> {NotStaging} \cup [at : StagerSteps, got : Downloads]]
    BY <1>4, StagerMoves DEF PersistXsd, Stands, StagerSteps
  <2>2. stager[p].got.xsd \in Schemas /\ xsdFile' = stager[p].got.xsd
        /\ xsdFile \in {Absent, xsdFile'}
    BY <1>4, StagerFacts DEF PersistXsd, Stands, StagingInv
  <2>3. xsdFile # Absent => xsdFile' = xsdFile
    BY <2>2
  <2>4. StagingTypeOK'
    BY <1>4, <2>1, <2>2 DEF PersistXsd, StagingInv, StagingTypeOK
  <2>5. \A q \in Processes : stager[q].at \in PastXsd => xsdFile # Absent
    BY StagerFacts DEF StagingInv, Passed
  <2>6. (\A q \in Processes : Passed(q))'
    BY <1>4, <2>1, <2>2, <2>3, <2>5 DEF PersistXsd, Stands, StagingInv, Passed
  <2>7. manifest \in Downloads => xsdFile # Absent
    BY DEF StagingInv, Describes, Downloads
  <2>8. OneWriter' /\ Describes' /\ UnreadableOnlyAfterStop'
    BY <1>4, <2>1, <2>3, <2>7 DEF PersistXsd, Stands, StagingInv, OneWriter, Describes,
       UnreadableOnlyAfterStop
  <2> QED
    BY <1>4, <2>4, <2>6, <2>8 DEF PersistXsd, StagingInv
<1>5. ASSUME NEW p \in Processes, CreateManifest(p) PROVE StagingInv'
  <2>1. /\ stager'[p].at = "write" /\ stager'[p].got = stager[p].got
        /\ \A q \in Processes : q # p => stager'[q] = stager[q]
        /\ stager' \in [Processes -> {NotStaging} \cup [at : StagerSteps, got : Downloads]]
    BY <1>5, StagerMoves DEF CreateManifest, Stands, StagerSteps
  <2>2. \A q \in Processes : stager[q].at # "write" /\ stager[q].at \notin PastManifest
    BY <1>5, StagerFacts DEF CreateManifest, StagingInv, Passed
  <2>3. StagingTypeOK' /\ (\A q \in Processes : Passed(q))'
    BY <1>5, <2>1, <2>2 DEF CreateManifest, Stands, StagingInv, StagingTypeOK, Passed
  <2>4. OneWriter' /\ Describes' /\ UnreadableOnlyAfterStop'
    BY <1>5, <2>1, <2>2 DEF CreateManifest, Stands, StagingInv, OneWriter, Describes,
       UnreadableOnlyAfterStop
  <2> QED
    BY <1>5, <2>3, <2>4 DEF CreateManifest, StagingInv
<1>6. ASSUME NEW p \in Processes, WriteManifest(p) PROVE StagingInv'
  <2>1. /\ stager'[p].at = "normalize" /\ stager'[p].got = stager[p].got
        /\ \A q \in Processes : q # p => stager'[q] = stager[q]
        /\ stager' \in [Processes -> {NotStaging} \cup [at : StagerSteps, got : Downloads]]
    BY <1>6, StagerMoves DEF WriteManifest, Stands, StagerSteps
  <2>2. stager[p].at = "write" /\ stager[p].got \in Downloads /\ manifest' = stager[p].got
        /\ xsdFile = stager[p].got.xsd /\ zipFile /\ manifest = Empty
    BY <1>6, StagerFacts DEF WriteManifest, Stands, StagingInv, Passed
  <2>3. \A q \in Processes : q # p => stager[q].at # "write"
    BY <2>2 DEF StagingInv, OneWriter
  <2>4. \A q \in Processes : stager[q].at \notin PastManifest
    BY <2>2, StagerFacts DEF StagingInv, Passed
  <2>5. StagingTypeOK' /\ (\A q \in Processes : Passed(q))'
    BY <1>6, <2>1, <2>2, <2>3, <2>4 DEF WriteManifest, StagingInv, StagingTypeOK, Passed
  <2>6. OneWriter' /\ Describes' /\ UnreadableOnlyAfterStop'
    BY <1>6, <2>1, <2>2, <2>3 DEF WriteManifest, StagingInv, OneWriter, Describes,
       UnreadableOnlyAfterStop
  <2> QED
    BY <1>6, <2>5, <2>6 DEF WriteManifest, StagingInv
<1>7. ASSUME NEW p \in Processes, ReuseManifest(p) PROVE StagingInv'
  <2>1. /\ stager'[p].at = "normalize" /\ stager'[p].got = stager[p].got
        /\ \A q \in Processes : q # p => stager'[q] = stager[q]
        /\ stager' \in [Processes -> {NotStaging} \cup [at : StagerSteps, got : Downloads]]
    BY <1>7, StagerMoves DEF ReuseManifest, Stands, StagerSteps
  <2>2. manifest # Empty
    BY <1>7, StagerFacts DEF ReuseManifest, Stands, StagingInv
  <2> QED
    BY <1>7, <2>1, <2>2 DEF ReuseManifest, Stands, StagingInv, StagingTypeOK, Passed,
       OneWriter, Describes, UnreadableOnlyAfterStop
<1>8. ASSUME NEW p \in Processes, NormalizeRows(p) PROVE StagingInv'
  <2>1. /\ stager'[p].at = "done" /\ stager'[p].got = stager[p].got
        /\ \A q \in Processes : q # p => stager'[q] = stager[q]
        /\ stager' \in [Processes -> {NotStaging} \cup [at : StagerSteps, got : Downloads]]
    BY <1>8, StagerMoves DEF NormalizeRows, Stands, StagerSteps
  <2> QED
    BY <1>8, <2>1 DEF NormalizeRows, Stands, StagingInv, StagingTypeOK, Passed,
       OneWriter, Describes, UnreadableOnlyAfterStop
<1>9. ASSUME NEW p \in Processes,
             XsdDiffers(p) \/ ManifestDiffers(p) \/ StageAgain(p)
      PROVE  StagingInv'
  <2>1. /\ Leaves(p) /\ UNCHANGED <<served, zipFile, xsdFile, manifest, rowsFile>>
        /\ stops' = stops /\ stager[p].at # "write" /\ stops \in Nat
    BY <1>9 DEF XsdDiffers, ManifestDiffers, StageAgain, Stands, StagingInv
  <2> QED
    BY <2>1, StagerLeaves
<1>10. ASSUME NEW p \in Processes, StopStaging(p) PROVE StagingInv'
  <2>1. /\ Leaves(p) /\ UNCHANGED <<served, zipFile, xsdFile, manifest, rowsFile>>
        /\ stops' = stops + 1 /\ stops \in Nat
    BY <1>10 DEF StopStaging, StagingInv
  <2> QED
    BY <2>1, StagerLeaves
<1>11. ASSUME NEW download \in Downloads, ServeOther(download) PROVE StagingInv'
  BY <1>11 DEF ServeOther, StagingInv, StagingTypeOK, Passed, OneWriter, Describes,
     UnreadableOnlyAfterStop, Stands
<1>12. CASE UNCHANGED stagingVars
  BY <1>12 DEF stagingVars, StagingInv, StagingTypeOK, Passed, OneWriter, Describes,
     UnreadableOnlyAfterStop, Stands
<1> QED
  BY <1>1, <1>2, <1>3, <1>4, <1>5, <1>6, <1>7, <1>8, <1>9, <1>10, <1>11, <1>12
     DEF StagingNext

-----------------------------------------------------------------------------
(* Theorems.                                                               *)

THEOREM StagingInvariant == StagingSpec => []StagingInv
<1>1. StagingInv /\ [StagingNext]_stagingVars => StagingInv'
  BY StagingStepInv
<1> QED
  BY <1>1, StagingInitInv, PTL DEF StagingSpec

\* The directory and the processes keep their shape.
THEOREM StagingTypes == StagingSpec => []StagingTypeOK
<1>1. StagingInv => StagingTypeOK
  BY DEF StagingInv
<1> QED
  BY <1>1, StagingInvariant, PTL

\* The manifest describes the files beside it, and who publishes has read one
\* that says what it has downloaded (_write_or_reuse_manifest).
THEOREM ManifestIsTrue == StagingSpec => []ManifestDescribesFiles
<1>1. StagingInv => ManifestDescribesFiles
  BY DEF StagingInv, Passed, Describes, ManifestDescribesFiles, PastManifest
<1> QED
  BY <1>1, StagingInvariant, PTL

\* Processes that stage together never leave a manifest that a retry refuses;
\* only one that is stopped between creating and filling it does.
THEOREM UnreadableNeedsStop == StagingSpec => []UnreadableOnlyAfterStop
<1>1. StagingInv => UnreadableOnlyAfterStop
  BY DEF StagingInv
<1> QED
  BY <1>1, StagingInvariant, PTL

\* What is complete in the directory never changes (_persist_download,
\* normalize_release).
THEOREM RawStays == StagingSpec => RawIsImmutable
<1> DEFINE Kept == /\ zipFile => zipFile'
                   /\ xsdFile # Absent => xsdFile' = xsdFile
                   /\ manifest \in Downloads => manifest' = manifest
                   /\ rowsFile => rowsFile'
<1>1. StagingInv /\ [StagingNext]_stagingVars => [Kept]_stagingVars
  <2> SUFFICES ASSUME StagingInv, StagingNext PROVE Kept
    OBVIOUS
  <2>1. ASSUME NEW p \in Processes, PersistXsd(p) PROVE Kept
    BY <2>1 DEF PersistXsd
  <2>2. ASSUME NEW p \in Processes, CreateManifest(p) PROVE Kept
    BY <2>2, StagingAssumption DEF CreateManifest
  <2>3. ASSUME NEW p \in Processes, WriteManifest(p) PROVE Kept
    <3>1. manifest = Empty
      BY <2>3 DEF WriteManifest, Stands, StagingInv, Passed
    <3> QED
      BY <2>3, <3>1, StagingAssumption DEF WriteManifest
  <2>4. ASSUME NEW p \in Processes,
               \/ DownloadZip(p) \/ DownloadXsd(p) \/ PersistZip(p) \/ XsdDiffers(p)
               \/ ReuseManifest(p) \/ ManifestDiffers(p) \/ NormalizeRows(p)
               \/ StageAgain(p) \/ StopStaging(p)
        PROVE  Kept
    BY <2>4 DEF DownloadZip, DownloadXsd, PersistZip, XsdDiffers, ReuseManifest,
       ManifestDiffers, NormalizeRows, StageAgain, StopStaging
  <2>5. ASSUME NEW download \in Downloads, ServeOther(download) PROVE Kept
    BY <2>5 DEF ServeOther
  <2> QED
    BY <2>1, <2>2, <2>3, <2>4, <2>5 DEF StagingNext
<1> QED
  BY <1>1, StagingInvariant, PTL DEF StagingSpec, RawIsImmutable

-----------------------------------------------------------------------------
(* The crawl hands no page out twice.  The invariant relates each live job *)
(* to the checkpoints of its crawl: its key tells how often each of them   *)
(* had been attempted when it was handed out, a checkpoint never waits     *)
(* again under the same number of attempts, and a crawl has one live job.  *)

Points == [status : PointStatuses, tries : Nat, by : Nat]

CrawlShape(crawl) ==
    /\ crawl = [status |-> crawl.status, daily |-> crawl.daily, phase |-> crawl.phase,
                position |-> crawl.position, points |-> crawl.points]
    /\ crawl.status \in {"running", "completed"}
    /\ crawl.daily \in BOOLEAN
    /\ crawl.phase \in Phases
    /\ crawl.position \in [Tasks -> Nat]
    /\ crawl.points \in [Tasks -> Points]

\* A checkpoint names a job that there is, or none.
ClaimsKnown(crawl, js) == \A t \in Tasks : crawl.points[t].by \in 0..Len(js)

\* How often each checkpoint of a batch had been attempted when it was handed out.
Holds == UNION {[held -> Nat] : held \in SUBSET Tasks}

CrawlJobRows ==
    [crawl : Nat, kind : Phases, key : Nat \X Phases \X Holds, tasks : SUBSET Tasks,
     status : LiveStatuses \cup {"succeeded", "failed"}, tries : 0..MaxTries]

\* The key of a job tells its crawl and, of each of its checkpoints, the
\* attempts before it.
KeyTells(job) ==
    /\ job.key[1] = job.crawl
    /\ DOMAIN job.key[3] = job.tasks

\* A job that waits has an attempt left.
TriesLeft(job) == job.status \in {"queued", "retry_scheduled"} => job.tries < MaxTries

\* A checkpoint that a job was created for was attempted since, or is still
\* claimed as it was: it never waits again under the same number of attempts.
Attempted(point, before) ==
    /\ point.status # "none"
    /\ before <= point.tries
    /\ point.status = "pending" => before < point.tries

AttemptsGrow(c, crawl, js) ==
    \A j \in DOMAIN js : js[j].crawl = c =>
        \A t \in js[j].tasks : Attempted(crawl.points[t], js[j].key[3][t])

CrawlOK(c, crawl, js) == CrawlShape(crawl) /\ AttemptsGrow(c, crawl, js)

JobTableOK(js) ==
    /\ js \in Seq(CrawlJobRows)
    /\ \A j \in DOMAIN js : KeyTells(js[j]) /\ TriesLeft(js[j])

\* At most one job of a crawl will still run, and only while the crawl runs.
ChainOK(cs, js) ==
    \A j \in DOMAIN js :
        /\ js[j].crawl \in DOMAIN cs
        /\ js[j].status \in LiveStatuses =>
             /\ cs[js[j].crawl].status = "running"
             /\ \A k \in LiveJobsOf(js, js[j].crawl) : k = j

TablesOK(cs, js) ==
    /\ cs \in Seq({cs[c] : c \in DOMAIN cs})
    /\ JobTableOK(js)
    /\ \A c \in DOMAIN cs : CrawlOK(c, cs[c], js)
    /\ ChainOK(cs, js)

\* A scheduler keeps the crawl that it locked from completing.
SchedulersOK ==
    /\ session = [s \in Schedulers |-> session[s]]
    /\ \A s \in Schedulers :
          \/ session[s] \in {NotScheduling, [at |-> "opens"]}
          \/ \E c \in DOMAIN crawls :
                /\ session[s] = [at |-> "resumes", crawl |-> c]
                /\ crawls[c].status = "running"

AllClaimsKnown == \A c \in DOMAIN crawls : ClaimsKnown(crawls[c], crawlJobs)

CrawlInv == /\ TablesOK(crawls, crawlJobs) /\ SchedulersOK
            /\ AllClaimsKnown /\ current \subseteq Inns

-----------------------------------------------------------------------------
LEMMA JobFacts ==
    ASSUME NEW js, JobTableOK(js), NEW j \in DOMAIN js
    PROVE  /\ j \in 1..Len(js) /\ Len(js) \in Nat
           /\ js[j] \in CrawlJobRows
           /\ js[j].key[1] = js[j].crawl
           /\ js[j].tasks \subseteq Tasks
           /\ \A t \in js[j].tasks : js[j].key[3][t] \in Nat
  <1>1. /\ j \in 1..Len(js) /\ Len(js) \in Nat
        /\ js[j] \in CrawlJobRows
    BY DEF JobTableOK
  <1>2. js[j].key \in Nat \X Phases \X Holds /\ js[j].tasks \subseteq Tasks
    BY <1>1 DEF CrawlJobRows
  <1>3. js[j].key[3] \in Holds
    BY <1>2
  <1>4. js[j].key[1] = js[j].crawl /\ DOMAIN js[j].key[3] = js[j].tasks
    BY DEF JobTableOK, KeyTells
  <1>5. PICK held \in SUBSET Tasks : js[j].key[3] \in [held -> Nat]
    BY <1>3 DEF Holds
  <1> QED
    BY <1>1, <1>2, <1>4, <1>5

\* The records that the updates of a crawl make.
LEMMA CrawlFields ==
    ASSUME NEW crawl, CrawlShape(crawl), NEW l, NEW p
    PROVE  [crawl EXCEPT !.position = l, !.points = p]
             = [status |-> crawl.status, daily |-> crawl.daily, phase |-> crawl.phase,
                position |-> l, points |-> p]
  <1> DEFINE r == [crawl EXCEPT !.position = l]
  <1>1. r = [status |-> crawl.status, daily |-> crawl.daily, phase |-> crawl.phase,
             position |-> l, points |-> crawl.points]
    BY DEF CrawlShape
  <1>2. [crawl EXCEPT !.position = l, !.points = p] = [r EXCEPT !.points = p]
    OBVIOUS
  <1> HIDE DEF r
  <1>3. [r EXCEPT !.points = p]
          = [status |-> crawl.status, daily |-> crawl.daily, phase |-> crawl.phase,
             position |-> l, points |-> p]
    BY <1>1
  <1> QED
    BY <1>2, <1>3

\* What becomes of a checkpoint until it is handed out: it stays, is listed,
\* or has an attempt counted.
Proceeds(before, after) ==
    \/ after = before
    \/ before.status = "none" /\ after.status # "running"
    \/ after.status \in {"pending", "succeeded", "quarantined"} /\ after.tries = before.tries + 1

LEMMA ProceedingIsOK ==
    ASSUME NEW c, NEW crawl, NEW js, JobTableOK(js), CrawlOK(c, crawl, js),
           NEW out, CrawlShape(out),
           \A t \in Tasks : Proceeds(crawl.points[t], out.points[t])
    PROVE  /\ CrawlOK(c, out, js)
           /\ \A t \in Tasks : out.points[t].status = "running" =>
                 out.points[t] = crawl.points[t]
  <1>1. \A t \in Tasks : crawl.points[t] \in Points
    BY DEF CrawlOK, CrawlShape
  <1>2. AttemptsGrow(c, out, js)
    <2> SUFFICES ASSUME NEW j \in DOMAIN js, js[j].crawl = c, NEW t \in js[j].tasks
                 PROVE  Attempted(out.points[t], js[j].key[3][t])
      BY DEF AttemptsGrow
    <2>1. t \in Tasks /\ js[j].key[3][t] \in Nat
      BY JobFacts
    <2>2. Attempted(crawl.points[t], js[j].key[3][t])
      BY DEF CrawlOK, AttemptsGrow
    <2>3. Proceeds(crawl.points[t], out.points[t]) /\ crawl.points[t].tries \in Nat
      BY <2>1, <1>1 DEF Points
    <2> QED
      BY <2>1, <2>2, <2>3 DEF Attempted, Proceeds
  <1> QED
    BY <1>2 DEF CrawlOK, Proceeds

\* A crawl that becomes another one and claims nothing.
ClaimsNothing(before, after) ==
    /\ after.status = before.status
    /\ \A t \in Tasks : after.points[t].status = "running" =>
                          after.points[t] = before.points[t]

\* Giving back the claims of failed jobs counts an attempt of each, and
\* claims nothing.
LEMMA RequeuedOK ==
    ASSUME NEW c, NEW crawl, NEW js, JobTableOK(js), CrawlOK(c, crawl, js)
    PROVE  /\ CrawlOK(c, Requeued(crawl, js), js)
           /\ ClaimsNothing(crawl, Requeued(crawl, js))
           /\ ClaimsKnown(crawl, js) => ClaimsKnown(Requeued(crawl, js), js)
  <1> DEFINE new == [t \in Tasks |->
                       IF crawl.points[t].status = "running"
                          /\ js[crawl.points[t].by].status = "failed"
                       THEN [status |-> "pending", tries |-> crawl.points[t].tries + 1, by |-> 0]
                       ELSE crawl.points[t]]
             out == Requeued(crawl, js)
  <1>1. out = [crawl EXCEPT !.points = new]
    BY DEF Requeued
  <1>2. CrawlShape(crawl) /\ crawl.points \in [Tasks -> Points]
    BY DEF CrawlOK, CrawlShape
  <1>3. /\ out = [status |-> crawl.status, daily |-> crawl.daily, phase |-> crawl.phase,
                  position |-> crawl.position, points |-> new]
        /\ out.points = new /\ out.status = crawl.status
    BY <1>1, <1>2 DEF CrawlShape
  <1>4. new \in [Tasks -> Points]
    BY <1>2 DEF Points, PointStatuses
  <1>5. CrawlShape(out)
    <2>1. out.daily = crawl.daily /\ out.phase = crawl.phase /\ out.position = crawl.position
      BY <1>3
    <2> HIDE DEF new, out
    <2> QED
      BY <1>2, <1>3, <1>4, <2>1 DEF CrawlShape
  <1>6. \A t \in Tasks : /\ Proceeds(crawl.points[t], new[t])
                         /\ new[t].by \in {crawl.points[t].by, 0}
    BY <1>2 DEF Proceeds
  <1> HIDE DEF new, out
  <1>7. CrawlOK(c, out, js) /\ \A t \in Tasks : out.points[t].status = "running" =>
                                  out.points[t] = crawl.points[t]
    BY <1>3, <1>5, <1>6, ProceedingIsOK
  <1>8. ClaimsKnown(crawl, js) => ClaimsKnown(out, js)
    BY <1>3, <1>6 DEF JobTableOK, ClaimsKnown
  <1> QED
    BY <1>3, <1>7, <1>8 DEF out, ClaimsNothing

\* What is found is listed at a position and claimed by nobody.
LEMMA ListingOK ==
    ASSUME NEW mid, CrawlShape(mid), NEW read
    PROVE  LET out == Listing(mid, read)
           IN /\ CrawlShape(out) /\ out.status = mid.status
              /\ \A t \in Tasks : /\ Proceeds(mid.points[t], out.points[t])
                                  /\ out.points[t].by = mid.points[t].by
  <1> DEFINE found == {t \in Tasks : /\ mid.points[t].status = "none"
                                    /\ Mentions(mid, read, t) # {}}
             last == Cardinality({t \in Tasks : mid.points[t].status # "none"})
             sooner(t) == {u \in found : \E m \in Mentions(mid, read, u) :
                             \A n \in Mentions(mid, read, t) : Precedes(m, n)}
             position == [t \in Tasks |-> IF t \in found
                                          THEN last + Cardinality(sooner(t)) + 1
                                          ELSE mid.position[t]]
             listed == [t \in Tasks |->
                          IF t \in found
                          THEN [mid.points[t] EXCEPT !.status =
                                  IF mid.daily /\ t \in current THEN "succeeded" ELSE "pending"]
                          ELSE mid.points[t]]
             out == [mid EXCEPT !.position = position, !.points = listed]
  <1>1. Listing(mid, read) = out
    BY DEF Listing
  <1>2. /\ mid.position \in [Tasks -> Nat] /\ mid.points \in [Tasks -> Points]
        /\ found \subseteq Tasks /\ \A t \in found : mid.points[t].status = "none"
    BY DEF CrawlShape
  <1>3. last \in Nat /\ \A t : Cardinality(sooner(t)) \in Nat
    <2>1. \A S \in SUBSET Tasks : Cardinality(S) \in Nat
      BY CrawlAssumption, FS_Subset, FS_CardinalityType
    <2>2. {t \in Tasks : mid.points[t].status # "none"} \in SUBSET Tasks
      OBVIOUS
    <2>3. \A t : sooner(t) \in SUBSET Tasks
      OBVIOUS
    <2> HIDE DEF sooner
    <2> QED
      BY <2>1, <2>2, <2>3
  <1> HIDE DEF last, sooner, found
  <1>4. position \in [Tasks -> Nat]
    BY <1>2, <1>3
  <1>5. ASSUME NEW t \in Tasks
        PROVE  /\ Proceeds(mid.points[t], listed[t]) /\ listed[t] \in Points
               /\ listed[t].by = mid.points[t].by
    <2>1. mid.points[t] \in Points
      BY <1>2
    <2>2. ASSUME NEW st \in {"succeeded", "pending"}
          PROVE  LET q == [mid.points[t] EXCEPT !.status = st]
                 IN q \in Points /\ q.status = st /\ q.by = mid.points[t].by
      BY <2>1 DEF Points, PointStatuses
    <2>3. CASE t \in found
      BY <1>2, <2>2, <2>3 DEF Proceeds
    <2>4. CASE t \notin found
      BY <2>1, <2>4 DEF Proceeds
    <2> QED
      BY <2>3, <2>4
  <1>6. listed \in [Tasks -> Points]
    <2>1. listed = [t \in Tasks |-> listed[t]]
      OBVIOUS
    <2> HIDE DEF listed
    <2> QED
      BY <1>5, <2>1
  <1> HIDE DEF listed, position
  <1>7. out = [status |-> mid.status, daily |-> mid.daily, phase |-> mid.phase,
               position |-> position, points |-> listed]
    BY CrawlFields
  <1> HIDE DEF out
  <1>8. /\ out.status = mid.status /\ out.daily = mid.daily /\ out.phase = mid.phase
        /\ out.position = position /\ out.points = listed
    BY <1>7
  <1>9. CrawlShape(out)
    BY <1>4, <1>6, <1>7, <1>8 DEF CrawlShape
  <1> QED
    BY <1>1, <1>5, <1>8, <1>9

\* Neither do the answers to a job and the listing of what was found.
LEMMA ProgressedOK ==
    ASSUME NEW c, NEW crawl, NEW js, JobTableOK(js), CrawlOK(c, crawl, js),
           NEW j, j \in DOMAIN js, j \in Nat, NEW answer \in Answers(js[j].tasks)
    PROVE  /\ CrawlOK(c, Progressed(crawl, j, answer), js)
           /\ ClaimsNothing(crawl, Progressed(crawl, j, answer))
           /\ ClaimsKnown(crawl, js) => ClaimsKnown(Progressed(crawl, j, answer), js)
  <1> DEFINE new == [t \in Tasks |-> IF t \in DOMAIN answer
                                     THEN Answered(crawl.points[t], answer[t], j)
                                     ELSE crawl.points[t]]
             mid == [crawl EXCEPT !.points = new]
             out == Progressed(crawl, j, answer)
  <1>1. CrawlShape(crawl) /\ crawl.points \in [Tasks -> Points]
    BY DEF CrawlOK, CrawlShape
  <1>2. PICK read : out = Listing(mid, read)
    BY DEF Progressed
  <1>3. \A t \in DOMAIN answer : answer[t] \in CompanyAnswers
    BY DEF Answers
  <1>4. \A t \in Tasks : /\ Proceeds(crawl.points[t], new[t]) /\ new[t] \in Points
                         /\ new[t].by \in {crawl.points[t].by, 0, j}
    BY <1>1, <1>3 DEF Proceeds, Answered, CompanyAnswers, Points, PointStatuses
  <1>5. /\ mid = [status |-> crawl.status, daily |-> crawl.daily, phase |-> crawl.phase,
                  position |-> crawl.position, points |-> new]
        /\ mid.points = new /\ mid.status = crawl.status
    BY <1>1 DEF CrawlShape
  <1>6. CrawlShape(mid)
    <2>1. new \in [Tasks -> Points]
      BY <1>4
    <2> HIDE DEF new, mid
    <2> QED
      BY <1>1, <1>5, <2>1 DEF CrawlShape
  <1> HIDE DEF new, mid, out
  <1>7. CrawlOK(c, mid, js) /\ \A t \in Tasks : mid.points[t].status = "running" =>
                                  mid.points[t] = crawl.points[t]
    BY <1>4, <1>5, <1>6, ProceedingIsOK
  <1>8. /\ CrawlShape(out) /\ out.status = mid.status
        /\ \A t \in Tasks : /\ Proceeds(mid.points[t], out.points[t])
                            /\ out.points[t].by = mid.points[t].by
    BY <1>2, <1>6, ListingOK
  <1>9. CrawlOK(c, out, js) /\ \A t \in Tasks : out.points[t].status = "running" =>
                                  out.points[t] = mid.points[t]
    BY <1>7, <1>8, ProceedingIsOK
  <1>10. ClaimsKnown(crawl, js) => ClaimsKnown(out, js)
    <2>1. j \in 0..Len(js) /\ Len(js) \in Nat
      BY JobFacts
    <2> QED
      BY <2>1, <1>4, <1>5, <1>8 DEF ClaimsKnown
  <1> QED
    BY <1>5, <1>7, <1>8, <1>9, <1>10 DEF out, ClaimsNothing

\* A batch is made of checkpoints that wait.
LEMMA BatchFacts ==
    ASSUME NEW crawl, NEW intake \in BOOLEAN, NEW b \in Batches(crawl, intake)
    PROVE  /\ b.kind \in {"companies", "catalog"}
           /\ b.tasks \in SUBSET Tasks /\ b.tasks # {}
           /\ \A t \in b.tasks : crawl.points[t].status = "pending"
  <1>1. ASSUME NEW tasks \in SUBSET Tasks, NEW kind \in {"companies", "catalog"},
               b \in [kind : {kind}, tasks : Heads(crawl, Pending(crawl, tasks))]
        PROVE  /\ b.kind = kind /\ b.tasks \in SUBSET Tasks /\ b.tasks # {}
               /\ \A t \in b.tasks : crawl.points[t].status = "pending"
    <2>1. b.kind = kind /\ b.tasks \in Heads(crawl, Pending(crawl, tasks))
      BY <1>1
    <2>2. b.tasks \subseteq Pending(crawl, tasks) /\ Cardinality(b.tasks) \in 1..BatchLimit
      BY <2>1 DEF Heads
    <2>3. b.tasks # {}
      <3>1. Cardinality({}) = 0
        BY FS_EmptySet
      <3>2. Cardinality(b.tasks) # 0
        BY <2>2, CrawlAssumption
      <3> QED
        BY <3>1, <3>2
    <2> QED
      BY <2>1, <2>2, <2>3 DEF Pending
  <1>2. Inns \in SUBSET Tasks /\ Pages \in SUBSET Tasks
    BY DEF Tasks
  <1>3. CASE intake /\ Pending(crawl, Inns) # {}
    <2>1. b \in [kind : {"companies"}, tasks : Heads(crawl, Pending(crawl, Inns))]
      BY <1>3 DEF Batches
    <2> QED
      BY <2>1, <1>1, <1>2
  <1>4. CASE ~(intake /\ Pending(crawl, Inns) # {})
    <2>1. b \in [kind : {"catalog"}, tasks : Heads(crawl, Pending(crawl, Pages))]
      BY <1>4 DEF Batches
    <2> QED
      BY <2>1, <1>1, <1>2
  <1> QED
    BY <1>3, <1>4

\* A batch that is handed out gets a job of its own: no job that there ever
\* was has its key.
LEMMA KeyIsNew ==
    ASSUME NEW c \in Nat, NEW crawl, NEW js, JobTableOK(js), CrawlOK(c, crawl, js),
           NEW kind, NEW tasks \in SUBSET Tasks, tasks # {},
           \A t \in tasks : crawl.points[t].status = "pending"
    PROVE  {j \in DOMAIN js :
              js[j].key = JobKey(c, kind, [t \in tasks |-> crawl.points[t].tries])} = {}
  <1> SUFFICES ASSUME NEW j \in DOMAIN js,
                      js[j].key = JobKey(c, kind, [t \in tasks |-> crawl.points[t].tries])
               PROVE  FALSE
    OBVIOUS
  <1>1. /\ js[j].key[1] = c
        /\ js[j].key[3] = [t \in tasks |-> crawl.points[t].tries]
    BY DEF JobKey
  <1>2. js[j].crawl = c /\ js[j].tasks = tasks
    BY <1>1 DEF JobTableOK, KeyTells
  <1>3. PICK t \in tasks : TRUE
    OBVIOUS
  <1>4. Attempted(crawl.points[t], js[j].key[3][t])
    BY <1>2 DEF CrawlOK, AttemptsGrow
  <1>5. crawl.points[t].tries \in Nat
    BY DEF CrawlOK, CrawlShape, Points
  <1> QED
    BY <1>1, <1>4, <1>5 DEF Attempted

LEMMA HandedOutOK ==
    ASSUME NEW c \in Nat, NEW crawl, NEW js, JobTableOK(js), CrawlOK(c, crawl, js),
           NEW intake \in BOOLEAN, NEW b \in Batches(crawl, intake)
    PROVE  LET out == HandedOut(c, crawl, js, b)
           IN /\ \E job \in CrawlJobRows :
                   /\ out.jobs = Append(js, job)
                   /\ KeyTells(job) /\ job.crawl = c /\ job.status = "queued"
                   /\ job.tries = 0
              /\ CrawlOK(c, out.crawl, out.jobs)
              /\ out.crawl.status = crawl.status
              /\ \A t \in Tasks :
                   \/ out.crawl.points[t] = crawl.points[t]
                   \/ out.crawl.points[t].by = Len(js) + 1
  <1> DEFINE held == [t \in b.tasks |-> crawl.points[t].tries]
             job == [crawl |-> c, kind |-> b.kind, key |-> JobKey(c, b.kind, held),
                     tasks |-> b.tasks, status |-> "queued", tries |-> 0]
             n == Len(js) + 1
             new == [t \in Tasks |-> IF t \in b.tasks
                                     THEN [crawl.points[t] EXCEPT !.status = "running", !.by = n]
                                     ELSE crawl.points[t]]
             out == HandedOut(c, crawl, js, b)
  <1>1. /\ b.kind \in {"companies", "catalog"} /\ b.tasks \in SUBSET Tasks /\ b.tasks # {}
        /\ \A t \in b.tasks : crawl.points[t].status = "pending"
    BY BatchFacts
  <1>2. CrawlShape(crawl) /\ crawl.points \in [Tasks -> Points] /\ Len(js) \in Nat
    BY DEF CrawlOK, CrawlShape, JobTableOK
  <1>3. held \in [b.tasks -> Nat]
    BY <1>1, <1>2 DEF Points
  <1>4. job \in CrawlJobRows /\ KeyTells(job)
    <2>1. held \in Holds
      BY <1>1, <1>3 DEF Holds
    <2>2. JobKey(c, b.kind, held) \in Nat \X Phases \X Holds
      BY <2>1, <1>1 DEF JobKey, Phases
    <2>3. JobKey(c, b.kind, held)[1] = c /\ JobKey(c, b.kind, held)[3] = held
      BY DEF JobKey
    <2> HIDE DEF held
    <2> QED
      BY <1>1, <1>3, <2>2, <2>3, CrawlAssumption
         DEF CrawlJobRows, KeyTells, Phases, LiveStatuses
  <1>5. {j \in DOMAIN js : js[j].key = JobKey(c, b.kind, held)} = {}
    BY <1>1, KeyIsNew
  <1>6. WithJob(js, c, b.kind, held) = [jobs |-> Append(js, job), job |-> n]
    <2>1. DOMAIN held = b.tasks
      OBVIOUS
    <2> HIDE DEF held
    <2> QED
      BY <1>5, <2>1 DEF WithJob
  <1>7. out = [jobs |-> Append(js, job),
               crawl |-> [crawl EXCEPT !.phase = b.kind, !.points = new]]
    <2> DEFINE made == WithJob(js, c, b.kind, held)
    <2>1. made.jobs = Append(js, job) /\ made.job = n
      <3> HIDE DEF job, held, n
      <3> QED
        BY <1>6
    <2>2. out = [jobs |-> made.jobs,
                 crawl |-> [crawl EXCEPT !.phase = b.kind,
                   !.points = [t \in Tasks |->
                     IF t \in b.tasks
                     THEN [@[t] EXCEPT !.status = "running", !.by = made.job]
                     ELSE @[t]]]]
      BY DEF HandedOut
    <2> HIDE DEF job, made, held
    <2> QED
      BY <2>1, <2>2
  <1> DEFINE last == [crawl EXCEPT !.phase = b.kind, !.points = new]
  <1>8. /\ last = [status |-> crawl.status, daily |-> crawl.daily, phase |-> b.kind,
                   position |-> crawl.position, points |-> new]
        /\ last.points = new /\ last.status = crawl.status
    <2> HIDE DEF new
    <2> DEFINE r == [crawl EXCEPT !.phase = b.kind]
    <2>1. r = [status |-> crawl.status, daily |-> crawl.daily, phase |-> b.kind,
               position |-> crawl.position, points |-> crawl.points]
      BY <1>2 DEF CrawlShape
    <2>2. last = [r EXCEPT !.points = new]
      OBVIOUS
    <2> HIDE DEF r
    <2>3. [r EXCEPT !.points = new]
            = [status |-> crawl.status, daily |-> crawl.daily, phase |-> b.kind,
               position |-> crawl.position, points |-> new]
      BY <2>1
    <2> QED
      BY <2>2, <2>3
  <1>9. new \in [Tasks -> Points]
    <2>1. \A p \in Points : [p EXCEPT !.status = "running", !.by = n] \in Points
      <3>1. n \in Nat
        BY <1>2
      <3> HIDE DEF n
      <3>2. \A p \in Points : [p EXCEPT !.status = "running"] \in Points
        BY DEF Points, PointStatuses
      <3>3. \A p \in Points : [p EXCEPT !.by = n] \in Points
        BY <3>1 DEF Points
      <3> SUFFICES ASSUME NEW p \in Points
                   PROVE  [p EXCEPT !.status = "running", !.by = n] \in Points
        OBVIOUS
      <3>4. [p EXCEPT !.status = "running", !.by = n]
              = [[p EXCEPT !.status = "running"] EXCEPT !.by = n]
        OBVIOUS
      <3> QED
        BY <3>2, <3>3, <3>4
    <2> QED
      BY <1>2, <2>1
  <1>10. CrawlShape(last)
    <2>1. last.daily = crawl.daily /\ last.phase = b.kind /\ last.position = crawl.position
      BY <1>8
    <2> HIDE DEF last, new
    <2> QED
      BY <1>1, <1>2, <1>8, <1>9, <2>1 DEF CrawlShape, Phases
  <1>11. AttemptsGrow(c, last, Append(js, job))
    <2> SUFFICES ASSUME NEW j \in DOMAIN Append(js, job), Append(js, job)[j].crawl = c,
                        NEW t \in Append(js, job)[j].tasks
                 PROVE  Attempted(new[t], Append(js, job)[j].key[3][t])
      BY <1>8 DEF AttemptsGrow
    <2>1. /\ js \in Seq(CrawlJobRows) /\ job \in CrawlJobRows
          /\ job.tasks = b.tasks /\ job.key[3] = held
      BY <1>4 DEF JobTableOK, JobKey
    <2> HIDE DEF job, new
    <2>2. CASE j = n
      <3>1. Append(js, job)[j] = job
        BY <2>1, <2>2
      <3>2. t \in b.tasks /\ job.key[3][t] = crawl.points[t].tries
        BY <3>1, <2>1
      <3>3. /\ new[t].status = "running" /\ new[t].tries = crawl.points[t].tries
            /\ crawl.points[t].tries \in Nat
        BY <3>2, <1>1, <1>2 DEF new, Points
      <3> QED
        BY <3>1, <3>2, <3>3 DEF Attempted
    <2>3. CASE j # n
      <3>1. j \in DOMAIN js /\ Append(js, job)[j] = js[j]
        BY <2>1, <2>3
      <3>2. t \in Tasks /\ js[j].key[3][t] \in Nat
        BY <3>1, JobFacts
      <3>3. Attempted(crawl.points[t], js[j].key[3][t])
        BY <3>1 DEF CrawlOK, AttemptsGrow
      <3>4. \/ new[t] = crawl.points[t]
            \/ new[t].status = "running" /\ new[t].tries = crawl.points[t].tries
        BY <3>2, <1>2 DEF new, Points
      <3> QED
        BY <3>1, <3>3, <3>4 DEF Attempted
    <2> QED
      BY <2>2, <2>3
  <1>12. \A t \in Tasks : new[t] = crawl.points[t] \/ new[t].by = n
    BY <1>2 DEF Points
  <1>13. /\ out.jobs = Append(js, job) /\ out.crawl = last
         /\ job.crawl = c /\ job.status = "queued" /\ job.tries = 0
    BY <1>7
  <1> HIDE DEF job, new, out, last
  <1>14. CrawlOK(c, out.crawl, out.jobs)
    BY <1>10, <1>11, <1>13 DEF CrawlOK
  <1>15. /\ out.crawl.status = crawl.status
         /\ \A t \in Tasks : \/ out.crawl.points[t] = crawl.points[t]
                             \/ out.crawl.points[t].by = Len(js) + 1
    BY <1>8, <1>12, <1>13
  <1>16. \E j \in CrawlJobRows :
           /\ out.jobs = Append(js, j)
           /\ KeyTells(j) /\ j.crawl = c /\ j.status = "queued" /\ j.tries = 0
    BY <1>4, <1>13
  <1> QED
    BY <1>14, <1>15, <1>16 DEF out

-----------------------------------------------------------------------------
\* A job that changes its status only keeps the tables, when it does not come
\* to life.
LEMMA JobMovesOK ==
    ASSUME NEW cs, NEW js, TablesOK(cs, js), NEW j \in DOMAIN js, NEW moved \in CrawlJobRows,
           moved.crawl = js[j].crawl, moved.key = js[j].key, moved.tasks = js[j].tasks,
           moved.status \in LiveStatuses => js[j].status \in LiveStatuses, TriesLeft(moved)
    PROVE  TablesOK(cs, [js EXCEPT ![j] = moved])
  <1> DEFINE new == [js EXCEPT ![j] = moved]
  <1>1. /\ js \in Seq(CrawlJobRows) /\ new \in Seq(CrawlJobRows) /\ DOMAIN new = DOMAIN js
        /\ \A k \in DOMAIN js : new[k] = IF k = j THEN moved ELSE js[k]
    BY DEF TablesOK, JobTableOK
  <1>2. \A k \in DOMAIN js : /\ new[k].crawl = js[k].crawl /\ new[k].key = js[k].key
                             /\ new[k].tasks = js[k].tasks
                             /\ new[k].status \in LiveStatuses => js[k].status \in LiveStatuses
    BY <1>1
  <1> HIDE DEF new
  <1>3. JobTableOK(new)
    BY <1>1, <1>2 DEF TablesOK, JobTableOK, KeyTells, TriesLeft
  <1>4. \A c \in DOMAIN cs : CrawlOK(c, cs[c], new)
    BY <1>1, <1>2 DEF TablesOK, CrawlOK, AttemptsGrow
  <1>5. ChainOK(cs, new)
    BY <1>1, <1>2 DEF TablesOK, ChainOK, LiveJobsOf
  <1> QED
    BY <1>3, <1>4, <1>5 DEF TablesOK, new

\* So does a crawl that changes, when it still runs or has no job that will.
LEMMA CrawlMovesOK ==
    ASSUME NEW cs, NEW js, TablesOK(cs, js), NEW c \in DOMAIN cs, NEW crawl,
           CrawlOK(c, crawl, js),
           \/ crawl.status = cs[c].status
           \/ LiveJobsOf(js, c) = {}
    PROVE  TablesOK([cs EXCEPT ![c] = crawl], js)
  <1> DEFINE new == [cs EXCEPT ![c] = crawl]
             rows == {new[d] : d \in DOMAIN new}
  <1>1. cs = [d \in 1..Len(cs) |-> cs[d]] /\ Len(cs) \in Nat /\ DOMAIN cs = 1..Len(cs)
    BY DEF TablesOK
  <1>2. /\ DOMAIN new = DOMAIN cs
        /\ \A d \in DOMAIN cs : new[d] = IF d = c THEN crawl ELSE cs[d]
    BY <1>1
  <1>3. new \in Seq(rows)
    <2>1. new = [d \in 1..Len(cs) |-> new[d]]
      BY <1>1, <1>2
    <2>2. \A d \in 1..Len(cs) : new[d] \in rows
      BY <1>1, <1>2
    <2> HIDE DEF rows, new
    <2>3. new \in [1..Len(cs) -> rows]
      BY <2>1, <2>2
    <2> QED
      BY <2>3, <1>1
  <1> HIDE DEF new, rows
  <1>4. \A d \in DOMAIN new : CrawlOK(d, new[d], js)
    BY <1>2 DEF TablesOK
  <1>5. ChainOK(new, js)
    BY <1>2 DEF TablesOK, ChainOK, LiveJobsOf
  <1> QED
    BY <1>3, <1>4, <1>5 DEF TablesOK, new, rows

LEMMA AppendFacts ==
    ASSUME NEW js, JobTableOK(js), NEW job \in CrawlJobRows
    PROVE  /\ Append(js, job) \in Seq(CrawlJobRows)
           /\ DOMAIN Append(js, job) = DOMAIN js \cup {Len(js) + 1}
           /\ \A j \in DOMAIN js : Append(js, job)[j] = js[j]
           /\ Append(js, job)[Len(js) + 1] = job
           /\ Len(js) + 1 \notin DOMAIN js
  BY DEF JobTableOK

\* A job is added to a crawl that runs and has none.
LEMMA JobAddedOK ==
    ASSUME NEW cs, NEW js, TablesOK(cs, js), NEW c \in DOMAIN cs,
           NEW job \in CrawlJobRows, KeyTells(job), job.crawl = c, job.status = "queued",
           job.tries = 0,
           CrawlOK(c, cs[c], Append(js, job)),
           cs[c].status = "running", LiveJobsOf(js, c) = {}
    PROVE  /\ TablesOK(cs, Append(js, job))
           /\ LiveJobsOf(Append(js, job), c) = {Len(js) + 1}
  <1> DEFINE new == Append(js, job)
             n == Len(js) + 1
  <1>1. /\ new \in Seq(CrawlJobRows) /\ DOMAIN new = DOMAIN js \cup {n} /\ n \notin DOMAIN js
        /\ \A j \in DOMAIN js : new[j] = js[j]
        /\ new[n] = job
    BY AppendFacts DEF TablesOK
  <1> HIDE DEF new, n
  <1>2. JobTableOK(new)
    <2>1. TriesLeft(job)
      BY CrawlAssumption DEF TriesLeft
    <2> QED
      BY <1>1, <2>1 DEF TablesOK, JobTableOK
  <1>3. \A d \in DOMAIN cs : CrawlOK(d, cs[d], new)
    <2> TAKE d \in DOMAIN cs
    <2>1. CASE d = c
      BY <2>1 DEF new
    <2>2. CASE d # c
      <3>1. CrawlOK(d, cs[d], js)
        BY DEF TablesOK
      <3> QED
        BY <2>2, <3>1, <1>1 DEF CrawlOK, AttemptsGrow
    <2> QED
      BY <2>1, <2>2
  <1>4. /\ LiveJobsOf(new, c) = {n}
        /\ \A d : d # c => LiveJobsOf(new, d) = LiveJobsOf(js, d)
    BY <1>1 DEF LiveJobsOf, LiveStatuses
  <1>5. ChainOK(cs, new)
    <2> SUFFICES ASSUME NEW j \in DOMAIN new
                 PROVE  /\ new[j].crawl \in DOMAIN cs
                        /\ new[j].status \in LiveStatuses =>
                             /\ cs[new[j].crawl].status = "running"
                             /\ \A k \in LiveJobsOf(new, new[j].crawl) : k = j
      BY DEF ChainOK
    <2>1. CASE j = n
      BY <2>1, <1>1, <1>4
    <2>2. CASE j \in DOMAIN js
      <3>1. /\ js[j].crawl \in DOMAIN cs
            /\ js[j].status \in LiveStatuses =>
                 /\ cs[js[j].crawl].status = "running"
                 /\ \A k \in LiveJobsOf(js, js[j].crawl) : k = j
        BY <2>2 DEF TablesOK, ChainOK
      <3>2. new[j] = js[j]
        BY <2>2, <1>1
      <3>3. CASE js[j].crawl = c
        <4>1. js[j].status \notin LiveStatuses
          BY <2>2, <3>3 DEF LiveJobsOf
        <4> QED
          BY <3>1, <3>2, <4>1
      <3>4. CASE js[j].crawl # c
        BY <3>1, <3>2, <3>4, <1>4
      <3> QED
        BY <3>3, <3>4
    <2> QED
      BY <2>1, <2>2, <1>1
  <1> QED
    BY <1>2, <1>3, <1>4, <1>5 DEF TablesOK, new, n

\* The next batch of a crawl that runs and has no job: whatever it claims is
\* the new job's, and that is the only one which will still run.
Continues(cs, js, c, crawl, n) ==
    /\ TablesOK([cs EXCEPT ![c] = n.crawl], n.jobs)
    /\ Len(js) \in Nat /\ Len(n.jobs) = Len(js) + 1
    /\ ClaimsKnown(crawl, js) => ClaimsKnown(n.crawl, n.jobs)
    /\ n.crawl.status = "running"
    /\ \A t \in Tasks : n.crawl.points[t].status = "running" =>
         \/ n.crawl.points[t] = crawl.points[t]
         \/ LiveJobsOf(n.jobs, c) = {n.crawl.points[t].by}

LEMMA ContinuedOK ==
    ASSUME NEW cs, NEW js, TablesOK(cs, js), NEW c \in DOMAIN cs, NEW crawl,
           CrawlOK(c, crawl, js), crawl.status = "running", LiveJobsOf(js, c) = {},
           NEW intake \in BOOLEAN, NEW n \in Continuations(c, crawl, js, intake)
    PROVE  Continues(cs, js, c, crawl, n)
  <1> DEFINE again == Requeued(crawl, js)
  <1>1. PICK b \in Batches(again, intake) : n = HandedOut(c, again, js, b)
    BY DEF Continuations
  <1>2. JobTableOK(js) /\ c \in Nat
    BY DEF TablesOK
  <1>3. /\ CrawlOK(c, again, js) /\ again.status = "running"
        /\ \A t \in Tasks : again.points[t].status = "running" =>
              again.points[t] = crawl.points[t]
        /\ ClaimsKnown(crawl, js) => ClaimsKnown(again, js)
    BY <1>2, RequeuedOK DEF ClaimsNothing
  <1> HIDE DEF again
  <1>4. /\ \E job \in CrawlJobRows :
             /\ n.jobs = Append(js, job)
             /\ KeyTells(job) /\ job.crawl = c /\ job.status = "queued" /\ job.tries = 0
        /\ CrawlOK(c, n.crawl, n.jobs)
        /\ n.crawl.status = again.status
        /\ \A t \in Tasks : \/ n.crawl.points[t] = again.points[t]
                            \/ n.crawl.points[t].by = Len(js) + 1
    BY <1>1, <1>2, <1>3, HandedOutOK
  <1>5. PICK job \in CrawlJobRows :
             /\ n.jobs = Append(js, job)
             /\ KeyTells(job) /\ job.crawl = c /\ job.status = "queued" /\ job.tries = 0
    BY <1>4
  <1>6. CrawlOK(c, n.crawl, js)
    BY <1>2, <1>4, <1>5, AppendFacts DEF CrawlOK, AttemptsGrow
  <1> DEFINE new == [cs EXCEPT ![c] = n.crawl]
  <1>7. TablesOK(new, js)
    BY <1>6, CrawlMovesOK
  <1>8. c \in DOMAIN new /\ new[c] = n.crawl
    BY DEF TablesOK
  <1> HIDE DEF new
  <1>9. TablesOK(new, n.jobs) /\ LiveJobsOf(n.jobs, c) = {Len(js) + 1}
    BY <1>3, <1>4, <1>5, <1>7, <1>8, JobAddedOK
  <1>10. Len(js) \in Nat /\ Len(n.jobs) = Len(js) + 1
    BY <1>2, <1>5 DEF JobTableOK
  <1>11. ClaimsKnown(crawl, js) => ClaimsKnown(n.crawl, n.jobs)
    BY <1>3, <1>4, <1>10 DEF ClaimsKnown
  <1> QED
    BY <1>3, <1>4, <1>9, <1>10, <1>11 DEF new, Continues

\* A crawl is opened with its discovery job, which has no checkpoint.
LEMMA OpenedOK ==
    ASSUME NEW cs, NEW js, TablesOK(cs, js), NEW crawl, CrawlShape(crawl),
           crawl.status = "running"
    PROVE  LET made == WithJob(js, Len(cs) + 1, "discovery", << >>).jobs
           IN /\ TablesOK(Append(cs, crawl), made)
              /\ Len(js) \in Nat /\ Len(made) = Len(js) + 1
  <1> DEFINE c == Len(cs) + 1
             new == Append(cs, crawl)
             job == [crawl |-> c, kind |-> "discovery", key |-> JobKey(c, "discovery", << >>),
                     tasks |-> DOMAIN << >>, status |-> "queued", tries |-> 0]
             rows == {new[d] : d \in DOMAIN new}
  <1>1. /\ Len(cs) \in Nat /\ DOMAIN cs = 1..Len(cs)
        /\ cs \in Seq({cs[d] : d \in DOMAIN cs})
    BY DEF TablesOK
  <1>2. /\ DOMAIN new = DOMAIN cs \cup {c} /\ c \notin DOMAIN cs /\ c \in Nat
        /\ \A d \in DOMAIN cs : new[d] = cs[d]
        /\ new[c] = crawl /\ Len(new) = c
        /\ new = [d \in 1..c |-> new[d]]
    <2> DEFINE all == {cs[d] : d \in DOMAIN cs} \cup {crawl}
    <2>1. cs \in Seq(all) /\ crawl \in all
      BY <1>1
    <2> HIDE DEF all
    <2>2. /\ new \in Seq(all) /\ Len(new) = c /\ new[c] = crawl
          /\ \A d \in 1..Len(cs) : new[d] = cs[d]
      BY <2>1, AppendProperties
    <2> HIDE DEF new
    <2> QED
      BY <1>1, <2>2
  <1> HIDE DEF new
  <1>3. new \in Seq(rows)
    <2>1. \A d \in 1..c : new[d] \in rows
      BY <1>1, <1>2
    <2> HIDE DEF rows
    <2>2. new \in [1..c -> rows]
      BY <1>2, <2>1
    <2> QED
      BY <2>2, <1>2
  <1>4. \A j \in DOMAIN js : js[j].crawl # c
    BY <1>2 DEF TablesOK, ChainOK
  <1>5. {j \in DOMAIN js : js[j].key = JobKey(c, "discovery", << >>)} = {}
    <2>1. JobKey(c, "discovery", << >>)[1] = c
      BY DEF JobKey
    <2> QED
      BY <2>1, <1>4 DEF TablesOK, JobTableOK, KeyTells
  <1>6. WithJob(js, c, "discovery", << >>).jobs = Append(js, job)
    BY <1>5 DEF WithJob
  <1>7. job \in CrawlJobRows /\ KeyTells(job) /\ job.tasks = {}
    <2>1. << >> \in [{} -> Nat]
      OBVIOUS
    <2>2. << >> \in Holds /\ DOMAIN << >> = {}
      BY <2>1 DEF Holds
    <2>3. JobKey(c, "discovery", << >>) \in Nat \X Phases \X Holds
      BY <1>2, <2>2 DEF JobKey, Phases
    <2>4. JobKey(c, "discovery", << >>)[1] = c /\ JobKey(c, "discovery", << >>)[3] = << >>
      BY DEF JobKey
    <2> QED
      BY <1>2, <2>2, <2>3, <2>4, CrawlAssumption
         DEF CrawlJobRows, KeyTells, Phases, LiveStatuses
  <1>8. job.crawl = c /\ job.status = "queued" /\ job.tries = 0
    OBVIOUS
  <1> HIDE DEF c, job, rows
  <1>9. TablesOK(new, js)
    <2>1. \A d \in DOMAIN new : CrawlOK(d, new[d], js)
      BY <1>2, <1>4 DEF TablesOK, CrawlOK, AttemptsGrow
    <2>2. ChainOK(new, js)
      BY <1>2 DEF TablesOK, ChainOK
    <2> QED
      BY <1>3, <2>1, <2>2 DEF TablesOK, rows
  <1>10. LiveJobsOf(js, c) = {}
    BY <1>4 DEF LiveJobsOf
  <1>11. CrawlOK(c, new[c], Append(js, job))
    <2>1. JobTableOK(js)
      BY DEF TablesOK
    <2> QED
      BY <2>1, <1>2, <1>4, <1>7, AppendFacts DEF CrawlOK, AttemptsGrow
  <1>12. TablesOK(new, Append(js, job))
    BY <1>2, <1>7, <1>8, <1>9, <1>10, <1>11, JobAddedOK
  <1>13. Len(js) \in Nat /\ Len(Append(js, job)) = Len(js) + 1
    BY <1>7 DEF TablesOK, JobTableOK
  <1> QED
    BY <1>6, <1>12, <1>13 DEF new, c

-----------------------------------------------------------------------------
\* ClaimsAreLive, of one step.
ClaimsLive ==
    \A c \in DOMAIN crawls, t \in Tasks :
       LET point == crawls'[c].points[t]
       IN point # crawls[c].points[t] /\ point.status = "running" =>
             /\ crawls'[c].status = "running"
             /\ LiveJobsOf(crawlJobs', c) = {point.by}

\* A bounded set of numbers that is not empty has a greatest one.
LEMMA NewestExists ==
    ASSUME NEW bound \in Nat, NEW S \in SUBSET (1..bound), S # {}
    PROVE  \E m \in S : \A k \in S : k <= m
  <1> DEFINE above == {n \in Nat : \A k \in S : k <= n}
  <1>1. above \in SUBSET Nat /\ bound \in above
    OBVIOUS
  <1>2. PICK m \in above : \A n \in above : <<n, m>> \notin OpToRel(<, Nat)
    BY <1>1, WFMin, NatLessThanWellFounded
  <1>3. \A n \in above : ~(n < m)
    BY <1>2 DEF OpToRel
  <1>4. m \in S
    <2> SUFFICES ASSUME m \notin S PROVE FALSE
      OBVIOUS
    <2>1. PICK k \in S : k <= m
      BY <1>1
    <2>2. m - 1 \in above
      BY <2>1
    <2> QED
      BY <1>3, <2>2
  <1> QED
    BY <1>4

LEMMA SessionEnds ==
    ASSUME CrawlInv, NEW s \in Schedulers, Ends(s)
    PROVE  /\ session' = [r \in Schedulers |-> session'[r]]
           /\ \A r \in Schedulers : session'[r] \in {session[r], NotScheduling}
           /\ session'[s] = NotScheduling
  BY DEF CrawlInv, SchedulersOK, Ends

\* Schedulers that keep what they locked keep their part of the invariant,
\* when no crawl that they locked has stopped.
LEMMA SchedulersStay ==
    ASSUME CrawlInv,
           session' = [r \in Schedulers |-> session'[r]],
           \A r \in Schedulers : session'[r] \in {session[r], NotScheduling, [at |-> "opens"]},
           DOMAIN crawls \subseteq DOMAIN crawls',
           \A c \in DOMAIN crawls : crawls[c].status = "running" /\ ~CrawlFree(c)
                                      => crawls'[c].status = "running"
    PROVE  SchedulersOK'
  <1> SUFFICES ASSUME NEW r \in Schedulers
               PROVE  \/ session'[r] \in {NotScheduling, [at |-> "opens"]}
                      \/ \E c \in DOMAIN crawls' :
                            /\ session'[r] = [at |-> "resumes", crawl |-> c]
                            /\ crawls'[c].status = "running"
    BY DEF SchedulersOK
  <1> QED
    BY DEF CrawlInv, SchedulersOK, CrawlFree

LEMMA Resuming ==
    ASSUME CrawlInv, NEW s \in Schedulers, session[s].at = "resumes"
    PROVE  /\ session[s].crawl \in DOMAIN crawls
           /\ crawls[session[s].crawl].status = "running"
  <1>1. session[s] \notin {NotScheduling, [at |-> "opens"]}
    BY DEF NotScheduling
  <1> QED
    BY <1>1 DEF CrawlInv, SchedulersOK

LEMMA SchedulesKeepCrawlInv ==
    ASSUME CrawlInv, NEW s \in Schedulers,
           \/ ScheduleReads(s) \/ ScheduleFindsNone(s)
           \/ ScheduleReturns(s) \/ ScheduleRefuses(s)
    PROVE  CrawlInv' /\ ClaimsLive
  <1>1. UNCHANGED <<crawls, crawlJobs>>
    BY DEF ScheduleReads, ScheduleFindsNone, ScheduleReturns, ScheduleRefuses
  <1>2. /\ TablesOK(crawls, crawlJobs)' /\ ClaimsLive
        /\ AllClaimsKnown' /\ (current \subseteq Inns)'
    BY <1>1 DEF CrawlInv, ClaimsLive, AllClaimsKnown, ScheduleReads, ScheduleFindsNone,
         ScheduleReturns, ScheduleRefuses
  <1>3. CASE ScheduleReads(s)
    <2> DEFINE id == CHOOSE id \in Unfinished : \A d \in Unfinished : d <= id
    <2>1. DOMAIN crawls = 1..Len(crawls) /\ Len(crawls) \in Nat
      BY DEF CrawlInv, TablesOK
    <2>2. id \in Unfinished
      <3>1. Unfinished \in SUBSET (1..Len(crawls)) /\ Unfinished # {}
        BY <1>3, <2>1 DEF ScheduleReads, Unfinished
      <3>2. \E m \in Unfinished : \A d \in Unfinished : d <= m
        BY <2>1, <3>1, NewestExists
      <3> QED
        BY <3>2
    <2>3. session' = [session EXCEPT ![s] = [at |-> "resumes", crawl |-> id]]
      BY <1>3 DEF ScheduleReads
    <2> HIDE DEF id
    <2>4. SchedulersOK'
      BY <1>1, <2>2, <2>3 DEF CrawlInv, SchedulersOK, Unfinished
    <2> QED
      BY <1>2, <2>4 DEF CrawlInv
  <1>4. CASE ScheduleFindsNone(s)
    <2>1. /\ session' = [r \in Schedulers |-> session'[r]]
          /\ \A r \in Schedulers : session'[r] \in {session[r], NotScheduling, [at |-> "opens"]}
      BY <1>4 DEF ScheduleFindsNone, CrawlInv, SchedulersOK
    <2>2. SchedulersOK'
      BY <1>1, <2>1, SchedulersStay
    <2> QED
      BY <1>2, <2>2 DEF CrawlInv
  <1>5. CASE ScheduleReturns(s) \/ ScheduleRefuses(s)
    <2>1. Ends(s)
      BY <1>5 DEF ScheduleReturns, ScheduleRefuses
    <2>2. SchedulersOK'
      BY <1>1, <2>1, SessionEnds, SchedulersStay
    <2> QED
      BY <1>2, <2>2 DEF CrawlInv
  <1> QED
    BY <1>3, <1>4, <1>5

LEMMA OpeningKeepsCrawlInv ==
    ASSUME CrawlInv, NEW s \in Schedulers, OpenCrawl(s)
    PROVE  CrawlInv' /\ ClaimsLive
  <1> DEFINE daily == \E c \in DOMAIN crawls : crawls[c].status = "completed"
  <1>1. PICK seeds \in SUBSET current : \E order \in Bijection(seeds, 1..Cardinality(seeds)) :
          /\ crawls' = Append(crawls,
               [status |-> "running", daily |-> daily, phase |-> "discovery",
                position |-> [t \in Tasks |-> IF t \in seeds THEN order[t] ELSE 0],
                points |-> [t \in Tasks |->
                   IF t \in seeds THEN [Unlisted EXCEPT !.status = "pending"]
                   ELSE Unlisted]])
          /\ crawlJobs' = WithJob(crawlJobs, Len(crawls) + 1, "discovery", << >>).jobs
    BY DEF OpenCrawl
  <1> DEFINE points == [t \in Tasks |->
                          IF t \in seeds THEN [Unlisted EXCEPT !.status = "pending"]
                          ELSE Unlisted]
  <1>2. PICK order \in Bijection(seeds, 1..Cardinality(seeds)) :
          /\ crawls' = Append(crawls,
               [status |-> "running", daily |-> daily, phase |-> "discovery",
                position |-> [t \in Tasks |-> IF t \in seeds THEN order[t] ELSE 0],
                points |-> points])
          /\ crawlJobs' = WithJob(crawlJobs, Len(crawls) + 1, "discovery", << >>).jobs
    BY <1>1
  <1> DEFINE position == [t \in Tasks |-> IF t \in seeds THEN order[t] ELSE 0]
             crawl == [status |-> "running", daily |-> daily, phase |-> "discovery",
                       position |-> position, points |-> points]
  <1>3. CrawlShape(crawl) /\ crawl.status = "running" /\ \A t \in Tasks : crawl.points[t].by = 0
    <2>1. points \in [Tasks -> Points] /\ \A t \in Tasks : points[t].by = 0
      BY DEF Points, Unlisted, PointStatuses
    <2>2. position \in [Tasks -> Nat]
      <3>1. \A t \in seeds : order[t] \in Nat
        BY DEF Bijection, Injection, Surjection
      <3> QED
        BY <3>1
    <2>3. daily \in BOOLEAN
      OBVIOUS
    <2> HIDE DEF points, position, daily
    <2> QED
      BY <2>1, <2>2, <2>3 DEF CrawlShape, Phases
  <1>4. crawls' = Append(crawls, crawl)
    BY <1>2
  <1> HIDE DEF crawl
  <1>5. /\ TablesOK(crawls, crawlJobs)'
        /\ Len(crawlJobs) \in Nat /\ Len(crawlJobs') = Len(crawlJobs) + 1
    BY <1>2, <1>3, <1>4, OpenedOK DEF CrawlInv
  <1>6. /\ DOMAIN crawls \subseteq DOMAIN crawls'
        /\ \A c \in DOMAIN crawls : crawls'[c] = crawls[c]
        /\ \A c \in DOMAIN crawls' \ DOMAIN crawls : crawls'[c] = crawl
    <2> DEFINE all == {crawls[c] : c \in DOMAIN crawls} \cup {crawl}
    <2>1. crawls \in Seq(all) /\ crawl \in all
      BY DEF CrawlInv, TablesOK
    <2> HIDE DEF all
    <2> QED
      BY <1>4, <2>1, AppendProperties
  <1>7. SchedulersOK'
    BY <1>6, SessionEnds, SchedulersStay DEF OpenCrawl
  <1>8. AllClaimsKnown'
    BY <1>3, <1>5, <1>6 DEF CrawlInv, AllClaimsKnown, ClaimsKnown
  <1>9. (current \subseteq Inns)'
    BY DEF CrawlInv, OpenCrawl
  <1> QED
    BY <1>5, <1>6, <1>7, <1>8, <1>9 DEF CrawlInv, ClaimsLive

LEMMA ResumingKeepsCrawlInv ==
    ASSUME CrawlInv, NEW s \in Schedulers, ScheduleResumes(s)
    PROVE  CrawlInv' /\ ClaimsLive
  <1> DEFINE id == session[s].crawl
  <1>1. id \in DOMAIN crawls /\ crawls[id].status = "running"
    BY Resuming DEF ScheduleResumes
  <1>2. /\ LiveJobsOf(crawlJobs, id) = {}
        /\ \E intake \in BOOLEAN :
             \E next \in Continuations(id, crawls[id], crawlJobs, intake) :
                  /\ crawls' = [crawls EXCEPT ![id] = next.crawl]
                  /\ crawlJobs' = next.jobs
    BY DEF ScheduleResumes
  <1>3. PICK intake \in BOOLEAN :
          \E next \in Continuations(id, crawls[id], crawlJobs, intake) :
             /\ crawls' = [crawls EXCEPT ![id] = next.crawl]
             /\ crawlJobs' = next.jobs
    BY <1>2
  <1>4. PICK next \in Continuations(id, crawls[id], crawlJobs, intake) :
          /\ crawls' = [crawls EXCEPT ![id] = next.crawl]
          /\ crawlJobs' = next.jobs
    BY <1>3
  <1>5. TablesOK(crawls, crawlJobs) /\ CrawlOK(id, crawls[id], crawlJobs)
    BY <1>1 DEF CrawlInv, TablesOK
  <1> HIDE DEF id
  <1>6. /\ TablesOK(crawls, crawlJobs)'
        /\ next.crawl.status = "running"
        /\ Len(crawlJobs) \in Nat /\ Len(crawlJobs') = Len(crawlJobs) + 1
        /\ ClaimsKnown(crawls[id], crawlJobs) => ClaimsKnown(next.crawl, crawlJobs')
        /\ \A t \in Tasks : next.crawl.points[t].status = "running" =>
              \/ next.crawl.points[t] = crawls[id].points[t]
              \/ LiveJobsOf(crawlJobs', id) = {next.crawl.points[t].by}
    <2>1. Continues(crawls, crawlJobs, id, crawls[id], next)
      BY <1>1, <1>2, <1>5, ContinuedOK
    <2> QED
      BY <1>4, <2>1 DEF Continues
  <1>7. /\ DOMAIN crawls' = DOMAIN crawls
        /\ \A c \in DOMAIN crawls : crawls'[c] = IF c = id THEN next.crawl ELSE crawls[c]
    BY <1>4
  <1>8. SchedulersOK'
    BY <1>6, <1>7, SessionEnds, SchedulersStay DEF ScheduleResumes
  <1>9. AllClaimsKnown'
    BY <1>1, <1>6, <1>7 DEF CrawlInv, AllClaimsKnown, ClaimsKnown
  <1>10. (current \subseteq Inns)'
    BY DEF CrawlInv, ScheduleResumes
  <1> QED
    BY <1>6, <1>7, <1>8, <1>9, <1>10 DEF CrawlInv, ClaimsLive

LEMMA JobsMoveInInv ==
    ASSUME CrawlInv, NEW j \in DOMAIN crawlJobs, NEW moved \in CrawlJobRows,
           moved.crawl = crawlJobs[j].crawl, moved.key = crawlJobs[j].key,
           moved.tasks = crawlJobs[j].tasks,
           moved.status \in LiveStatuses => crawlJobs[j].status \in LiveStatuses,
           TriesLeft(moved),
           crawlJobs' = [crawlJobs EXCEPT ![j] = moved],
           UNCHANGED <<crawls, session, current>>
    PROVE  CrawlInv' /\ ClaimsLive
  <1>1. TablesOK(crawls, [crawlJobs EXCEPT ![j] = moved])
    BY JobMovesOK DEF CrawlInv
  <1>2. TablesOK(crawls, crawlJobs)'
    BY <1>1
  <1>3. SchedulersOK'
    BY DEF CrawlInv, SchedulersOK
  <1>4. Len(crawlJobs') = Len(crawlJobs)
    BY DEF CrawlInv, TablesOK, JobTableOK
  <1>5. AllClaimsKnown'
    BY <1>4 DEF CrawlInv, AllClaimsKnown, ClaimsKnown
  <1> QED
    BY <1>2, <1>3, <1>5 DEF CrawlInv, ClaimsLive

LEMMA ClaimingKeepsCrawlInv ==
    ASSUME CrawlInv, NEW j \in DOMAIN crawlJobs, ClaimJob(j) \/ FailJob(j)
    PROVE  CrawlInv' /\ ClaimsLive
  <1> DEFINE job == crawlJobs[j]
  <1>1. job \in CrawlJobRows
    BY DEF CrawlInv, TablesOK, JobTableOK
  <1>2. /\ job.status \in LiveStatuses
        /\ UNCHANGED <<crawls, session, current>>
    BY DEF ClaimJob, FailJob, LiveStatuses
  <1>3. CASE ClaimJob(j)
    <2> DEFINE moved == [job EXCEPT !.status = "running", !.tries = @ + 1]
    <2>1. crawlJobs' = [crawlJobs EXCEPT ![j] = moved]
      BY <1>3 DEF ClaimJob
    <2> DEFINE r == [job EXCEPT !.status = "running"]
    <2>2. /\ r \in CrawlJobRows /\ r.tries = job.tries /\ job.tries \in Nat
          /\ r.crawl = job.crawl /\ r.key = job.key /\ r.tasks = job.tasks
          /\ r.status = "running"
      BY <1>1, CrawlAssumption DEF CrawlJobRows, LiveStatuses
    <2>7. job.tries + 1 \in 0..MaxTries
      <3>1. job.tries < MaxTries
        BY <1>3 DEF CrawlInv, TablesOK, JobTableOK, TriesLeft, ClaimJob
      <3> QED
        BY <2>2, <3>1, CrawlAssumption
    <2>3. moved = [r EXCEPT !.tries = job.tries + 1]
      BY <1>1 DEF CrawlJobRows
    <2>4. \A n \in 0..MaxTries :
            LET m == [r EXCEPT !.tries = n]
                         IN /\ m \in CrawlJobRows /\ m.status = "running"
                            /\ m.crawl = r.crawl /\ m.key = r.key /\ m.tasks = r.tasks
      <3> HIDE DEF r
      <3> QED
        BY <2>2 DEF CrawlJobRows
    <2> HIDE DEF r
    <2>5. /\ moved \in CrawlJobRows /\ moved.status = "running"
          /\ moved.crawl = job.crawl /\ moved.key = job.key /\ moved.tasks = job.tasks
      BY <2>2, <2>3, <2>4, <2>7
    <2>6. TriesLeft(moved)
      BY <2>5 DEF TriesLeft
    <2> HIDE DEF moved
    <2> QED
      BY <1>2, <2>1, <2>5, <2>6, JobsMoveInInv
  <1>4. CASE FailJob(j)
    <2> DEFINE moved(st) == [job EXCEPT !.status = st]
    <2>1. PICK st \in {"failed", "retry_scheduled"} :
            /\ crawlJobs' = [crawlJobs EXCEPT ![j] = moved(st)]
            /\ st = "retry_scheduled" => job.tries < MaxTries
      BY <1>4 DEF FailJob
    <2>2. /\ moved(st) \in CrawlJobRows
          /\ moved(st).status = st /\ moved(st).tries = job.tries
          /\ moved(st).crawl = job.crawl /\ moved(st).key = job.key
          /\ moved(st).tasks = job.tasks
      BY <1>1 DEF CrawlJobRows, LiveStatuses
    <2>3. TriesLeft(moved(st))
      BY <2>1, <2>2 DEF TriesLeft
    <2> HIDE DEF moved
    <2> QED
      BY <1>2, <2>1, <2>2, <2>3, JobsMoveInInv
  <1> QED
    BY <1>3, <1>4

LEMMA PublishingKeepsCrawlInv ==
    ASSUME CrawlInv, NEW j \in DOMAIN crawlJobs, PublishBatch(j)
    PROVE  CrawlInv' /\ ClaimsLive
  <1> DEFINE id == crawlJobs[j].crawl
             moved == [crawlJobs[j] EXCEPT !.status = "succeeded"]
             done == [crawlJobs EXCEPT ![j] = moved]
  <1>1. PICK answer \in Answers(crawlJobs[j].tasks), intake \in BOOLEAN :
          LET then == Progressed(crawls[id], j, answer)
              next == Continuations(id, then, done, intake)
          IN \/ /\ crawls' = [crawls EXCEPT ![id] =
                     [Requeued(then, done) EXCEPT !.status = "completed",
                                                  !.phase = "complete"]]
                /\ crawlJobs' = done
             \/ \E n \in next :
                  /\ crawls' = [crawls EXCEPT ![id] = n.crawl]
                  /\ crawlJobs' = n.jobs
    BY DEF PublishBatch
  <1> DEFINE then == Progressed(crawls[id], j, answer)
  <1>2. /\ crawlJobs[j].status = "running" /\ CrawlFree(id) /\ session' = session
    BY DEF PublishBatch
  <1>3. /\ crawlJobs[j] \in CrawlJobRows /\ j \in Nat
        /\ TablesOK(crawls, crawlJobs)
    BY DEF CrawlInv, TablesOK, JobTableOK
  <1>4. /\ moved \in CrawlJobRows /\ moved.status = "succeeded"
        /\ moved.crawl = id /\ moved.key = crawlJobs[j].key
        /\ moved.tasks = crawlJobs[j].tasks
    BY <1>3 DEF CrawlJobRows
  <1>13. TriesLeft(moved)
    BY <1>4 DEF TriesLeft
  <1> HIDE DEF moved
  <1>5. /\ DOMAIN done = DOMAIN crawlJobs /\ done[j] = moved
        /\ \A k \in DOMAIN done : k # j => done[k] = crawlJobs[k]
        /\ Len(done) = Len(crawlJobs) /\ Len(crawlJobs) \in Nat
    BY <1>3 DEF TablesOK, JobTableOK
  <1>6. TablesOK(crawls, done)
    BY <1>3, <1>4, <1>13, JobMovesOK DEF LiveStatuses
  <1>7. id \in DOMAIN crawls /\ crawls[id].status = "running" /\ LiveJobsOf(done, id) = {}
    <2>1. /\ id \in DOMAIN crawls /\ crawls[id].status = "running"
          /\ \A k \in LiveJobsOf(crawlJobs, id) : k = j
      BY <1>2, <1>3 DEF TablesOK, ChainOK, LiveStatuses
    <2> HIDE DEF done, id
    <2> QED
      BY <2>1, <1>4, <1>5 DEF LiveJobsOf, LiveStatuses
  <1> HIDE DEF done
  <1>8. /\ CrawlOK(id, then, done) /\ then.status = "running"
        /\ \A t \in Tasks : then.points[t].status = "running" =>
              then.points[t] = crawls[id].points[t]
        /\ ClaimsKnown(then, done)
    <2>1. JobTableOK(done) /\ CrawlOK(id, crawls[id], done) /\ answer \in Answers(done[j].tasks)
      BY <1>4, <1>5, <1>6, <1>7 DEF TablesOK
    <2>2. /\ CrawlOK(id, then, done) /\ ClaimsNothing(crawls[id], then)
          /\ ClaimsKnown(crawls[id], done) => ClaimsKnown(then, done)
      BY <1>3, <1>5, <2>1, ProgressedOK
    <2>3. ClaimsKnown(crawls[id], done)
      BY <1>5, <1>7 DEF CrawlInv, AllClaimsKnown, ClaimsKnown
    <2> HIDE DEF then
    <2> QED
      BY <1>7, <2>2, <2>3 DEF ClaimsNothing
  <1> HIDE DEF then, id
  <1>9. SUFFICES ASSUME NEW crawl, crawls' = [crawls EXCEPT ![id] = crawl],
                        TablesOK([crawls EXCEPT ![id] = crawl], crawlJobs'),
                        ClaimsKnown(crawl, crawlJobs'),
                        Len(crawlJobs') \in {Len(crawlJobs), Len(crawlJobs) + 1},
                        \A t \in Tasks : crawl.points[t].status = "running" =>
                          \/ crawl.points[t] = crawls[id].points[t]
                          \/ /\ crawl.status = "running"
                             /\ LiveJobsOf(crawlJobs', id) = {crawl.points[t].by}
                 PROVE  CrawlInv' /\ ClaimsLive
    <2>1. CASE /\ crawls' = [crawls EXCEPT ![id] =
                     [Requeued(then, done) EXCEPT !.status = "completed",
                                                  !.phase = "complete"]]
               /\ crawlJobs' = done
      <3> DEFINE again == Requeued(then, done)
                 r == [again EXCEPT !.status = "completed"]
                 crawl == [again EXCEPT !.status = "completed", !.phase = "complete"]
      <3>1. JobTableOK(done)
        BY <1>6 DEF TablesOK
      <3>2. /\ CrawlOK(id, again, done) /\ ClaimsNothing(then, again)
            /\ ClaimsKnown(again, done)
        BY <1>8, <3>1, RequeuedOK
      <3> HIDE DEF again
      <3>3. r = [status |-> "completed", daily |-> again.daily, phase |-> again.phase,
                 position |-> again.position, points |-> again.points]
        BY <3>2 DEF CrawlOK, CrawlShape
      <3>4. crawl = [r EXCEPT !.phase = "complete"]
        OBVIOUS
      <3> HIDE DEF r
      <3>5. [r EXCEPT !.phase = "complete"]
              = [status |-> "completed", daily |-> again.daily, phase |-> "complete",
                 position |-> again.position, points |-> again.points]
        BY <3>3
      <3>6. CrawlOK(id, crawl, done) /\ crawl.points = again.points
        BY <3>2, <3>4, <3>5 DEF CrawlOK, CrawlShape, AttemptsGrow, Phases
      <3>10. ClaimsKnown(crawl, done)
        BY <3>2, <3>6 DEF ClaimsKnown
      <3>7. crawls' = [crawls EXCEPT ![id] = crawl] /\ crawlJobs' = done
        BY <2>1 DEF again
      <3> HIDE DEF crawl
      <3>8. TablesOK([crawls EXCEPT ![id] = crawl], done)
        BY <1>6, <1>7, <3>6, CrawlMovesOK
      <3>9. \A t \in Tasks : crawl.points[t].status = "running" =>
               crawl.points[t] = crawls[id].points[t]
        BY <1>8, <3>2, <3>6 DEF ClaimsNothing
      <3> QED
        BY <1>5, <1>9, <3>7, <3>8, <3>9, <3>10
    <2>2. CASE \E n \in Continuations(id, then, done, intake) :
                  /\ crawls' = [crawls EXCEPT ![id] = n.crawl]
                  /\ crawlJobs' = n.jobs
      <3>1. PICK n \in Continuations(id, then, done, intake) :
                  /\ crawls' = [crawls EXCEPT ![id] = n.crawl]
                  /\ crawlJobs' = n.jobs
        BY <2>2
      <3>2. Continues(crawls, done, id, then, n)
        BY <1>6, <1>7, <1>8, ContinuedOK
      <3>3. /\ TablesOK([crawls EXCEPT ![id] = n.crawl], crawlJobs')
            /\ ClaimsKnown(n.crawl, crawlJobs')
            /\ Len(crawlJobs') = Len(crawlJobs) + 1
        BY <1>5, <1>8, <3>1, <3>2 DEF Continues
      <3>4. \A t \in Tasks : n.crawl.points[t].status = "running" =>
               \/ n.crawl.points[t] = crawls[id].points[t]
               \/ /\ n.crawl.status = "running"
                  /\ LiveJobsOf(crawlJobs', id) = {n.crawl.points[t].by}
        BY <1>8, <3>1, <3>2 DEF Continues
      <3> QED
        BY <1>9, <3>1, <3>3, <3>4
    <2> QED
      BY <1>1, <2>1, <2>2 DEF then, id
  <1>10. /\ DOMAIN crawls' = DOMAIN crawls
         /\ \A c \in DOMAIN crawls : crawls'[c] = IF c = id THEN crawl ELSE crawls[c]
    BY <1>9
  <1>11. TablesOK(crawls, crawlJobs)'
    BY <1>9
  <1>12. SchedulersOK'
    BY <1>2, <1>10, SchedulersStay DEF CrawlInv, SchedulersOK
  <1>14. AllClaimsKnown'
    BY <1>5, <1>9, <1>10 DEF CrawlInv, AllClaimsKnown, ClaimsKnown
  <1>15. (current \subseteq Inns)'
    BY DEF CrawlInv, PublishBatch
  <1> QED
    BY <1>9, <1>10, <1>11, <1>12, <1>14, <1>15 DEF CrawlInv, ClaimsLive

LEMMA CrawlStep == CrawlInv /\ [CrawlNext]_crawlVars => CrawlInv' /\ ClaimsLive
  <1> SUFFICES ASSUME CrawlInv, [CrawlNext]_crawlVars PROVE CrawlInv' /\ ClaimsLive
    OBVIOUS
  <1>1. ASSUME NEW s \in Schedulers,
               \/ ScheduleReads(s) \/ ScheduleFindsNone(s)
               \/ ScheduleReturns(s) \/ ScheduleRefuses(s)
        PROVE  CrawlInv' /\ ClaimsLive
    BY <1>1, SchedulesKeepCrawlInv
  <1>2. ASSUME NEW s \in Schedulers, OpenCrawl(s) PROVE CrawlInv' /\ ClaimsLive
    BY <1>2, OpeningKeepsCrawlInv
  <1>3. ASSUME NEW s \in Schedulers, ScheduleResumes(s) PROVE CrawlInv' /\ ClaimsLive
    BY <1>3, ResumingKeepsCrawlInv
  <1>4. ASSUME NEW j \in DOMAIN crawlJobs, ClaimJob(j) \/ FailJob(j)
        PROVE  CrawlInv' /\ ClaimsLive
    BY <1>4, ClaimingKeepsCrawlInv
  <1>5. ASSUME NEW j \in DOMAIN crawlJobs, PublishBatch(j) PROVE CrawlInv' /\ ClaimsLive
    BY <1>5, PublishingKeepsCrawlInv
  <1>6. CASE UNCHANGED crawlVars
    BY <1>6 DEF crawlVars, CrawlInv, SchedulersOK, ClaimsLive, AllClaimsKnown
  <1> QED
    BY <1>1, <1>2, <1>3, <1>4, <1>5, <1>6 DEF CrawlNext

LEMMA CrawlBegins == CrawlInit => CrawlInv
  BY DEF CrawlInit, CrawlInv, TablesOK, JobTableOK, ChainOK, SchedulersOK, NotScheduling,
     AllClaimsKnown

\* Every table of the crawl keeps its shape, a crawl has at most one job that
\* will still run, and a checkpoint never waits twice under one number of
\* attempts.
THEOREM CrawlInvariant == CrawlSpec => []CrawlInv
  <1> QED
    BY CrawlBegins, CrawlStep, PTL DEF CrawlSpec

\* CrawlTypeOK: a crawl numbers what it lists, its checkpoints name jobs that
\* there are, and a job belongs to a crawl and makes at most MaxTries attempts.
THEOREM CrawlTypes == CrawlSpec => []CrawlTypeOK
  <1>1. CrawlInv => CrawlTypeOK
    <2> SUFFICES ASSUME CrawlInv PROVE CrawlTypeOK
      OBVIOUS
    <2>1. ASSUME NEW c \in DOMAIN crawls
          PROVE  /\ crawls[c].status \in {"running", "completed"}
                 /\ crawls[c].daily \in BOOLEAN
                 /\ crawls[c].phase \in Phases
                 /\ crawls[c].position \in [Tasks -> Nat]
                 /\ crawls[c].points \in
                      [Tasks -> [status : PointStatuses, tries : Nat,
                                 by : 0..Len(crawlJobs)]]
      <3>1. CrawlShape(crawls[c]) /\ ClaimsKnown(crawls[c], crawlJobs)
        BY DEF CrawlInv, TablesOK, CrawlOK, AllClaimsKnown
      <3>2. crawls[c].points \in [Tasks -> Points]
        BY <3>1 DEF CrawlShape
      <3>3. \A t \in Tasks : crawls[c].points[t] \in
              [status : PointStatuses, tries : Nat, by : 0..Len(crawlJobs)]
        BY <3>1, <3>2 DEF ClaimsKnown, Points
      <3>4. crawls[c].points \in
              [Tasks -> [status : PointStatuses, tries : Nat, by : 0..Len(crawlJobs)]]
        BY <3>2, <3>3
      <3> QED
        BY <3>1, <3>4 DEF CrawlShape
    <2>2. ASSUME NEW j \in DOMAIN crawlJobs
          PROVE  /\ crawlJobs[j].crawl \in DOMAIN crawls
                 /\ crawlJobs[j].kind \in Phases
                 /\ crawlJobs[j].tasks \subseteq Tasks
                 /\ crawlJobs[j].status \in LiveStatuses \cup {"succeeded", "failed"}
                 /\ crawlJobs[j].tries \in 0..MaxTries
      <3>1. crawlJobs[j] \in CrawlJobRows
        BY JobFacts DEF CrawlInv, TablesOK
      <3> QED
        BY <3>1 DEF CrawlInv, TablesOK, ChainOK, CrawlJobRows
    <2>3. session \in [Schedulers -> {NotScheduling, [at |-> "opens"]}
                          \cup [at : {"resumes"}, crawl : DOMAIN crawls]]
      BY DEF CrawlInv, SchedulersOK
    <2> QED
      BY <2>1, <2>2, <2>3 DEF CrawlTypeOK, CrawlInv
  <1> QED
    BY <1>1, CrawlInvariant, PTL

\* ClaimsAreLive: a checkpoint is only ever handed to a job that will still
\* run, the only one of its crawl, however many schedulers meet, jobs fail and
\* batches are asked again.
THEOREM ClaimsAlwaysLive == CrawlSpec => ClaimsAreLive
  <1>1. CrawlInv /\ [CrawlNext]_crawlVars => [ClaimsLive]_crawlVars
    BY CrawlStep
  <1>2. CrawlSpec => [][ClaimsLive]_crawlVars
    BY <1>1, CrawlInvariant, PTL DEF CrawlSpec
  <1> QED
    BY <1>2 DEF ClaimsAreLive, ClaimsLive
=============================================================================
