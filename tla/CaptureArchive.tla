---------------------------- MODULE CaptureArchive ----------------------------
(***************************************************************************)
(* The files of the capture archive (first_party_capture_archive_v1): how  *)
(* a partition is opened, sealed and replaced by its gzip twin.  Recorder  *)
(* threads seal partitions while the supervisor of the same process        *)
(* compacts sealed ones, and the process may die between any two of their  *)
(* file operations.  The session and lifecycle files are always there and  *)
(* the temporary files are read by nobody: both are left out.              *)
(***************************************************************************)
EXTENDS Naturals, FiniteSets

CONSTANTS
    Partitions,     \* partition directories
    MaxFaults       \* bound on crashes and on operations that fail

ASSUME ArchiveAssumption == IsFiniteSet(Partitions) /\ MaxFaults \in Nat

VARIABLES
    files,          \* the files of each directory, {} if there is none
    writers,        \* the partitions that a recorder of this process writes
    compactor,      \* the compaction the supervisor is in, and before which step
    failed,         \* compaction_failures of this process
    faults          \* crashes and failures so far

archiveVars == <<files, writers, compactor, failed, faults>>

FileName == {"OPEN", "manifest", "records", "records.gz", "COMPACTION"}

Idle == [at |-> "idle"]

ArchiveTypeOK ==
    /\ files \in [Partitions -> SUBSET FileName]
    /\ writers \subseteq Partitions
    /\ compactor = Idle
        \/ compactor \in [at: {"replace", "record", "unlink"}, part: Partitions]
    /\ failed \subseteq Partitions
    /\ faults \in 0 .. MaxFaults

ArchiveInit ==
    /\ files = [p \in Partitions |-> {}]
    /\ writers = {}
    /\ compactor = Idle
    /\ failed = {}
    /\ faults = 0

Fault ==
    /\ faults < MaxFaults
    /\ faults' = faults + 1

Create(p, names) == files' = [files EXCEPT ![p] = @ \cup names]
Unlink(p, name) == files' = [files EXCEPT ![p] = @ \ {name}]

Finalized(p) == "manifest" \in files[p] /\ "OPEN" \notin files[p]

\* read_partition_status_v1: the raw records are the authority while they
\* exist; without them the compaction must prove the manifest's bytes.
Complete(p) ==
    /\ Finalized(p)
    /\ "records" \in files[p] \/ {"records.gz", "COMPACTION"} \subseteq files[p]
--------------------------------------------------------------------------------
(***************************************************************************)
(* A recorder                                                              *)
(***************************************************************************)

OpenPartition(p) ==
    /\ files[p] = {}
    /\ Create(p, {"OPEN", "records"})
    /\ writers' = writers \cup {p}
    /\ UNCHANGED <<compactor, failed, faults>>

\* The two steps of finalize that a reader can tell apart.
WriteManifest(p) ==
    /\ p \in writers
    /\ "manifest" \notin files[p]
    /\ Create(p, {"manifest"})
    /\ UNCHANGED <<writers, compactor, failed, faults>>

RemoveMarker(p) ==
    /\ p \in writers
    /\ "manifest" \in files[p]
    /\ Unlink(p, "OPEN")
    /\ writers' = writers \ {p}
    /\ UNCHANGED <<compactor, failed, faults>>

\* close_without_finalizing: the session failed, the partition stays PARTIAL.
AbandonPartition(p) ==
    /\ p \in writers
    /\ "manifest" \notin files[p]
    /\ writers' = writers \ {p}
    /\ UNCHANGED <<files, compactor, failed, faults>>
--------------------------------------------------------------------------------
(***************************************************************************)
(* The supervisor compacts                                                 *)
(***************************************************************************)

Compacting(step) == compactor # Idle /\ compactor.at = step

\* compaction_candidates_v1
Candidates == {p \in Partitions : Finalized(p) /\ "records" \in files[p]}

\* Mutant of BeginCompaction: a recorded compaction is refused as existing.
BeginFreshCompaction(p) ==
    /\ compactor = Idle
    /\ p \in Candidates \ failed
    /\ "COMPACTION" \notin files[p]
    /\ compactor' = [at |-> "replace", part |-> p]
    /\ UNCHANGED <<files, writers, failed, faults>>

\* A compaction that was interrupted after it was recorded resumes, once its
\* record is proven, at the removal of the original.
BeginCompaction(p) ==
    /\ compactor = Idle
    /\ p \in Candidates \ failed
    /\ "COMPACTION" \in files[p] => "records.gz" \in files[p]
    /\ compactor' = [at |-> IF "COMPACTION" \in files[p] THEN "unlink" ELSE "replace",
                     part |-> p]
    /\ UNCHANGED <<files, writers, failed, faults>>

\* Mutant of ReplaceCompressed: the original is renamed, not copied.
RenameToCompressed ==
    /\ Compacting("replace")
    /\ files' = [files EXCEPT ![compactor.part] = (@ \ {"records"}) \cup {"records.gz"}]
    /\ compactor' = [compactor EXCEPT !.at = "record"]
    /\ UNCHANGED <<writers, failed, faults>>

\* The temporary file reproduced the manifest's bytes.
ReplaceCompressed ==
    /\ Compacting("replace")
    /\ Create(compactor.part, {"records.gz"})
    /\ compactor' = [compactor EXCEPT !.at = "record"]
    /\ UNCHANGED <<writers, failed, faults>>

RecordCompaction ==
    /\ Compacting("record")
    /\ Create(compactor.part, {"COMPACTION"})
    /\ compactor' = [compactor EXCEPT !.at = "unlink"]
    /\ UNCHANGED <<writers, failed, faults>>

UnlinkOriginal ==
    /\ Compacting("unlink")
    /\ Unlink(compactor.part, "records")
    /\ compactor' = Idle
    /\ UNCHANGED <<writers, failed, faults>>

CompactionFails ==
    /\ compactor # Idle
    /\ Fault
    /\ failed' = failed \cup {compactor.part}
    /\ compactor' = Idle
    /\ UNCHANGED <<files, writers>>
--------------------------------------------------------------------------------
(***************************************************************************)
(* The process                                                             *)
(***************************************************************************)

Crash ==
    /\ writers # {} \/ compactor # Idle
    /\ Fault
    /\ writers' = {}
    /\ compactor' = Idle
    /\ failed' = {}
    /\ UNCHANGED files

\* A stop, after its sessions ended, compacts what is left, also what failed
\* before, and so does the next process.
Restart ==
    /\ writers = {}
    /\ compactor = Idle
    /\ failed # {}
    /\ failed' = {}
    /\ UNCHANGED <<files, writers, compactor, faults>>

CompactorStep ==
    \/ \E p \in Partitions : BeginCompaction(p)
    \/ ReplaceCompressed
    \/ RecordCompaction
    \/ UnlinkOriginal

\* Every step but WriteManifest, whose time the backup reads.
ArchiveStep ==
    \/ \E p \in Partitions : OpenPartition(p) \/ RemoveMarker(p) \/ AbandonPartition(p)
    \/ CompactorStep
    \/ CompactionFails
    \/ Crash
    \/ Restart

ArchiveNext == ArchiveStep \/ \E p \in Partitions : WriteManifest(p)

ArchiveSpec == ArchiveInit /\ [][ArchiveNext]_archiveVars
--------------------------------------------------------------------------------
(* A partition that was sealed is COMPLETE at every instant of its         *)
(* compaction and after every crash and failure in it: a reader never      *)
(* finds it without records that the manifest proves                       *)
(* (compact_partition_v1).                                                 *)
SealedStaysComplete == \A p \in Partitions : Finalized(p) => Complete(p)
================================================================================
