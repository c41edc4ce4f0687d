------------------------------ MODULE RawStaging ------------------------------
(***************************************************************************)
(* The write-once RAW directory of one official archive (stage_release and *)
(* normalize_release of app/ingestion/fns_bulk_worker.py).  The directory  *)
(* is named by the checksum of the archive; in it lie the archive, the XSD *)
(* the agency published beside it, the manifest that describes both, and   *)
(* the normalised rows.  A capacity pre-stage, the worker and its retries  *)
(* may stage the same release at the same time, and each may die anywhere. *)
(*                                                                         *)
(* Abstractions.  A file is its checksum.  The archive is the one that     *)
(* names the directory: another one has a directory of its own.  The rows  *)
(* are a function of archive and XSD.  Downloads that fail, and files that *)
(* do not pass validation, leave nothing behind: StopStaging.              *)
(***************************************************************************)
EXTENDS Naturals, FiniteSets

CONSTANTS
    Processes,    \* processes that stage the release
    Schemas,      \* XSD contents the agency ever serves
    Etags,        \* HTTP metadata the agency ever serves with the archive
    MaxServed,    \* bound: changes of what the agency serves
    MaxStops,     \* bound: processes that die or fail
    Absent, Empty \* no file, a file without content

Downloads == [xsd : Schemas, etag : Etags]

ASSUME StagingAssumption ==
    /\ MaxServed \in Nat /\ MaxStops \in Nat
    /\ Absent \notin Schemas
    /\ {Absent, Empty} \cap Downloads = {} /\ Absent # Empty

VARIABLES
    served,       \* what the agency serves: [xsd, etag]
    zipFile,      \* the archive is in the directory
    xsdFile,      \* content of the XSD, or Absent
    manifest,     \* what manifest.json says, Empty, or Absent
    rowsFile,     \* the normalised rows are in the directory
    stager,       \* each process: the step it is at and what it has downloaded
    changes, stops  \* counters of the bounds

stagingVars == <<served, zipFile, xsdFile, manifest, rowsFile, stager, changes, stops>>

NotStaging == [at |-> "idle"]
StagerSteps == {"fetch", "zip", "xsd", "manifest", "write", "normalize", "done"}

StagingTypeOK ==
    /\ served \in Downloads
    /\ zipFile \in BOOLEAN
    /\ xsdFile \in Schemas \cup {Absent}
    /\ manifest \in Downloads \cup {Empty, Absent}
    /\ rowsFile \in BOOLEAN
    /\ stager \in [Processes -> {NotStaging} \cup [at : StagerSteps, got : Downloads]]

Stands(p, step) == stager[p].at = step
Goes(p, step) == stager' = [stager EXCEPT ![p].at = step]
Leaves(p) == stager' = [stager EXCEPT ![p] = NotStaging]

-----------------------------------------------------------------------------

\* The archive is downloaded to a file of the process, then the XSD.
DownloadZip(p) ==
    /\ Stands(p, "idle")
    /\ stager' = [stager EXCEPT ![p] = [at |-> "fetch", got |-> served]]
    /\ UNCHANGED <<served, zipFile, xsdFile, manifest, rowsFile, changes, stops>>

DownloadXsd(p) ==
    /\ Stands(p, "fetch")
    /\ stager' = [stager EXCEPT ![p].at = "zip", ![p].got.xsd = served.xsd]
    /\ UNCHANGED <<served, zipFile, xsdFile, manifest, rowsFile, changes, stops>>

\* Mutant: the manifest is opened before the XSD has been compared.
PersistZipAndOpen(p) ==
    /\ Stands(p, "zip")
    /\ zipFile' = TRUE
    /\ manifest' = IF manifest = Absent THEN Empty ELSE manifest
    /\ Goes(p, "xsd")
    /\ UNCHANGED <<served, xsdFile, rowsFile, changes, stops>>

\* _persist_download of the archive: a link, which is atomic.
PersistZip(p) ==
    /\ Stands(p, "zip")
    /\ zipFile' = TRUE
    /\ Goes(p, "xsd")
    /\ UNCHANGED <<served, xsdFile, manifest, rowsFile, changes, stops>>

\* ... of the XSD, which must not differ from the one that is there.
PersistXsd(p) ==
    /\ Stands(p, "xsd")
    /\ xsdFile \in {Absent, stager[p].got.xsd}
    /\ xsdFile' = stager[p].got.xsd
    /\ Goes(p, "manifest")
    /\ UNCHANGED <<served, zipFile, manifest, rowsFile, changes, stops>>

XsdDiffers(p) ==
    /\ Stands(p, "xsd")
    /\ xsdFile \notin {Absent, stager[p].got.xsd}
    /\ Leaves(p)
    /\ UNCHANGED <<served, zipFile, xsdFile, manifest, rowsFile, changes, stops>>

\* Mutant: the manifest is opened without O_EXCL when it does not exist yet.
OpenManifest(p) ==
    /\ Stands(p, "manifest")
    /\ manifest \in {Absent, Empty}
    /\ manifest' = Empty
    /\ Goes(p, "write")
    /\ UNCHANGED <<served, zipFile, xsdFile, rowsFile, changes, stops>>

\* _write_or_reuse_manifest: one process creates the file ...
CreateManifest(p) ==
    /\ Stands(p, "manifest")
    /\ manifest = Absent
    /\ manifest' = Empty
    /\ Goes(p, "write")
    /\ UNCHANGED <<served, zipFile, xsdFile, rowsFile, changes, stops>>

\* ... and fills it.
WriteManifest(p) ==
    /\ Stands(p, "write")
    /\ manifest' = stager[p].got
    /\ Goes(p, "normalize")
    /\ UNCHANGED <<served, zipFile, xsdFile, rowsFile, changes, stops>>

\* A manifest that says the same is reused, whenever it was written.
ReuseManifest(p) ==
    /\ Stands(p, "manifest")
    /\ manifest = stager[p].got
    /\ Goes(p, "normalize")
    /\ UNCHANGED <<served, zipFile, xsdFile, manifest, rowsFile, changes, stops>>

\* One that says something else, or nothing yet, is refused.
ManifestDiffers(p) ==
    /\ Stands(p, "manifest")
    /\ manifest \notin {Absent, stager[p].got}
    /\ Leaves(p)
    /\ UNCHANGED <<served, zipFile, xsdFile, manifest, rowsFile, changes, stops>>

\* normalize_release: the rows are written aside and linked.
NormalizeRows(p) ==
    /\ Stands(p, "normalize")
    /\ rowsFile' = TRUE
    /\ Goes(p, "done")
    /\ UNCHANGED <<served, zipFile, xsdFile, manifest, changes, stops>>

\* A process that is done may be asked again: a retry of its job.
StageAgain(p) ==
    /\ Stands(p, "done")
    /\ Leaves(p)
    /\ UNCHANGED <<served, zipFile, xsdFile, manifest, rowsFile, changes, stops>>

\* The process dies or fails; its temporary files do not matter.
StopStaging(p) ==
    /\ ~Stands(p, "idle")
    /\ stops < MaxStops
    /\ stops' = stops + 1
    /\ Leaves(p)
    /\ UNCHANGED <<served, zipFile, xsdFile, manifest, rowsFile, changes>>

\* The agency serves other bytes under the same names.
ServeOther(download) ==
    /\ changes < MaxServed
    /\ changes' = changes + 1
    /\ served' = download
    /\ UNCHANGED <<zipFile, xsdFile, manifest, rowsFile, stager, stops>>

StagingInit ==
    /\ served \in Downloads
    /\ zipFile = FALSE
    /\ xsdFile = Absent
    /\ manifest = Absent
    /\ rowsFile = FALSE
    /\ stager = [p \in Processes |-> NotStaging]
    /\ changes = 0
    /\ stops = 0

StagingNext ==
    \/ \E p \in Processes :
         \/ DownloadZip(p) \/ DownloadXsd(p) \/ PersistZip(p)
         \/ PersistXsd(p) \/ XsdDiffers(p)
         \/ CreateManifest(p) \/ WriteManifest(p) \/ ReuseManifest(p)
         \/ ManifestDiffers(p) \/ NormalizeRows(p) \/ StageAgain(p) \/ StopStaging(p)
    \/ \E download \in Downloads : ServeOther(download)

StagingSpec == StagingInit /\ [][StagingNext]_stagingVars

-----------------------------------------------------------------------------
(* Properties.                                                             *)

\* RAW is write-once: what is complete in the directory never changes, whoever
\* stages the release again with other bytes.
RawIsImmutable ==
    [][/\ zipFile => zipFile'
       /\ xsdFile # Absent => xsdFile' = xsdFile
       /\ manifest \in Downloads => manifest' = manifest
       /\ rowsFile => rowsFile']_stagingVars

\* A manifest describes the files it lies beside, and who goes on to publish
\* has read a manifest that says what it has downloaded itself.
ManifestDescribesFiles ==
    /\ manifest \in Downloads => zipFile /\ xsdFile = manifest.xsd
    /\ \A p \in Processes :
         stager[p].at \in {"normalize", "done"} => manifest = stager[p].got

\* A manifest that no retry can read is the work of a process that was stopped
\* between creating and filling it: concurrent stagings never leave one.
UnreadableOnlyAfterStop ==
    manifest = Empty => stops > 0 \/ \E p \in Processes : Stands(p, "write")
=============================================================================
