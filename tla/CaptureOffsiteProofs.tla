------------------------- MODULE CaptureOffsiteProofs -------------------------
(***************************************************************************)
(* Proofs about CaptureArchive and CaptureOffsite for every set of         *)
(* partitions, every size and every choice of numbers that move together.  *)
(***************************************************************************)
EXTENDS CaptureOffsite, TLAPS

(* What a compaction has established before each of its steps.             *)
CompactionProven ==
    compactor # Idle =>
        /\ Finalized(compactor.part)
        /\ compactor.at \in {"record", "unlink"} => "records.gz" \in files[compactor.part]
        /\ compactor.at = "unlink" => "COMPACTION" \in files[compactor.part]

ArchiveInv ==
    /\ ArchiveTypeOK
    /\ \A p \in writers : {"OPEN", "records"} \subseteq files[p]
    /\ \A p \in Partitions : "COMPACTION" \in files[p] => "records.gz" \in files[p]
    /\ SealedStaysComplete
    /\ CompactionProven

LEMMA ArchiveInitially == ArchiveInit => ArchiveInv
BY ArchiveAssumption
DEF ArchiveInit, ArchiveInv, ArchiveTypeOK, SealedStaysComplete, Finalized,
    CompactionProven, Idle

(* Every operation on files keeps what compaction and sealing rely on.     *)
LEMMA ArchiveInductive == ArchiveInv /\ [ArchiveNext]_archiveVars => ArchiveInv'
<1> SUFFICES ASSUME ArchiveInv, [ArchiveNext]_archiveVars
             PROVE  ArchiveInv'
    OBVIOUS
<1> USE ArchiveAssumption
    DEF ArchiveInv, ArchiveTypeOK, SealedStaysComplete, Finalized, Complete,
        CompactionProven, Idle, FileName
<1>1. ASSUME NEW p \in Partitions, OpenPartition(p)
      PROVE  ArchiveInv'
    BY <1>1 DEF OpenPartition, Create
<1>2. ASSUME NEW p \in Partitions, RemoveMarker(p)
      PROVE  ArchiveInv'
    BY <1>2 DEF RemoveMarker, Unlink
<1>3. ASSUME NEW p \in Partitions, AbandonPartition(p)
      PROVE  ArchiveInv'
    BY <1>3 DEF AbandonPartition
<1>4. ASSUME NEW p \in Partitions, BeginCompaction(p)
      PROVE  ArchiveInv'
    BY <1>4 DEF BeginCompaction, Candidates
<1>5. CASE ReplaceCompressed
    BY <1>5 DEF ReplaceCompressed, Compacting, Create
<1>6. CASE RecordCompaction
    BY <1>6 DEF RecordCompaction, Compacting, Create
<1>7. CASE UnlinkOriginal
    BY <1>7 DEF UnlinkOriginal, Compacting, Unlink
<1>8. CASE CompactionFails
    BY <1>8 DEF CompactionFails, Fault
<1>9. CASE Crash
    BY <1>9 DEF Crash, Fault
<1>10. CASE Restart
    BY <1>10 DEF Restart
<1>11. ASSUME NEW p \in Partitions, WriteManifest(p)
       PROVE  ArchiveInv'
    BY <1>11 DEF WriteManifest, Create
<1>12. CASE UNCHANGED archiveVars
    BY <1>12 DEF archiveVars
<1> QED
    BY <1>1, <1>2, <1>3, <1>4, <1>5, <1>6, <1>7, <1>8, <1>9, <1>10, <1>11, <1>12
    DEF ArchiveNext, ArchiveStep, CompactorStep

LEMMA StepsOfTheArchive == [Next]_vars => [ArchiveNext]_archiveVars
<1> USE DEF vars
<1>1. ASSUME NEW p \in Partitions, SealPartition(p)
      PROVE  ArchiveNext
    BY <1>1 DEF SealPartition, ArchiveNext
<1>2. CASE ArchiveStep
    BY <1>2 DEF ArchiveNext
<1> QED
    BY <1>1, <1>2
    DEF Next, RunStep, StartRun, Skip, Defer, Withhold, PutCreates, PutConflicts,
        AppendLedger, EndRun, PutAnswerLost, PutFails, LifecycleDeletes, Drill,
        AcceptReceipt, RunDies, LoseLedger, Tick

(* The backup only reads the archive: beside it the recorder process is    *)
(* still the one of CaptureArchive (run_backup).                           *)
THEOREM BackupOnlyReads == Spec => ArchiveSpec
<1>1. Init => ArchiveInit
    BY DEF Init
<1> QED BY <1>1, StepsOfTheArchive, PTL DEF Spec, ArchiveSpec

LEMMA ArchiveHolds == Spec => []ArchiveInv
<1> QED BY ArchiveInitially, ArchiveInductive, BackupOnlyReads, PTL DEF ArchiveSpec

(* A partition that was sealed is COMPLETE at every instant of its         *)
(* compaction and after every crash and failure in it                      *)
(* (compact_partition_v1).                                                 *)
THEOREM SealedIsAlwaysComplete == Spec => []SealedStaysComplete
<1>1. ArchiveInv => SealedStaysComplete
    BY DEF ArchiveInv
<1> QED BY <1>1, ArchiveHolds, PTL
--------------------------------------------------------------------------------
(* The tar of a partition is, or was, in the bucket.                       *)
Arrived(p) == bucket[p] = "tar" \/ p \in expired

(* How the times of a partition relate: its manifest, its object and its   *)
(* ledger entry.                                                           *)
Ages(p) ==
    /\ sealedAt[p] <= now
    /\ bucket[p] # "absent" => storedAt[p] <= now
    /\ bucket[p] = "tar" => Finalized(p) /\ sealedAt[p] <= storedAt[p]
    /\ p \in expired => Finalized(p) /\ sealedAt[p] + Lifecycle <= now
    /\ Logged(p) /\ bucket[p] # "absent" => storedAt[p] <= ledger[p].at + MaxRun

(* A PUT that was answered and not yet logged: what its ledger line will   *)
(* say is true, and its bytes fit.                                         *)
PutProven ==
    run # Idle /\ run.put # NoPut =>
        /\ run.sends < MaxUploads
        /\ Bytes[run.counted \cup {run.put.part}] <= Budget
        /\ run.put.created => Arrived(run.put.part)
        /\ bucket[run.put.part] # "absent" => storedAt[run.put.part] <= run.since + MaxRun

RunProven ==
    run # Idle =>
        /\ run.since <= now /\ now <= run.since + MaxRun
        /\ Guarded \subseteq run.counted

ReceiptsTrue == \A p \in Partitions : <<p, "tar">> \in receipts => Arrived(p)

BackupInv ==
    /\ TypeOK
    /\ \A p \in Partitions : Ages(p)
    /\ PutProven
    /\ RunProven
    /\ ReceiptsTrue
    /\ LedgerNeverOverstates
    /\ BucketWithinBudget

LEMMA NumbersAreNatural ==
    /\ Budget \in Nat /\ BudgetWindow \in Nat /\ Horizon \in Nat /\ MaxUploads \in Nat
    /\ Lifecycle \in Nat /\ MaxLosses \in Nat /\ MaxRun \in Nat
    /\ MaxTime \in Nat
BY OffsiteAssumption

LEMMA TypeInitially == Init => TypeOK
<1> SUFFICES ASSUME Init
             PROVE  TypeOK
    OBVIOUS
<1>1. ArchiveTypeOK
    BY ArchiveInitially DEF Init, ArchiveInv
<1> QED
    BY <1>1, NumbersAreNatural DEF Init, TypeOK, Content, Idle

LEMMA TypeInductive == BackupInv /\ ArchiveTypeOK' /\ [Next]_vars => TypeOK'
<1> SUFFICES ASSUME TypeOK, PutProven, ArchiveTypeOK', [Next]_vars
             PROVE  TypeOK'
    BY DEF BackupInv
<1> USE NumbersAreNatural DEF TypeOK
<1>1. CASE ArchiveStep /\ UNCHANGED offsiteVars
    BY <1>1 DEF offsiteVars, bucketVars
<1>2. CASE StartRun
    <2>1. run' \in Run
        BY <1>2 DEF StartRun, Run, InWindow, NoPut
    <2> QED BY <1>2, <2>1 DEF StartRun, bucketVars
<1>3. ASSUME NEW p \in Partitions, Skip(p) \/ Defer(p)
      PROVE  TypeOK'
    <2>1. run' \in Run
        BY <1>3 DEF Skip, Defer, Considers, Scanning, Pass, Run
    <2> QED BY <1>3, <2>1 DEF Skip, Defer, bucketVars
<1>4. ASSUME NEW p \in Partitions, Withhold(p)
      PROVE  TypeOK'
    <2>1. run' \in Run
        BY <1>4 DEF Withhold, Considers, Scanning, Run
    <2> QED BY <1>4, <2>1 DEF Withhold, bucketVars
<1>5. ASSUME NEW p \in Partitions, PutCreates(p)
      PROVE  TypeOK'
    <2>1. run' \in Run
        BY <1>5 DEF PutCreates, Uploads, Considers, Scanning, Run, Put
    <2> QED BY <1>5, <2>1 DEF PutCreates, Store, Content
<1>6. ASSUME NEW p \in Partitions, PutConflicts(p)
      PROVE  TypeOK'
    <2>1. run' \in Run
        BY <1>6 DEF PutConflicts, Uploads, Considers, Scanning, Run, Put
    <2> QED BY <1>6, <2>1 DEF PutConflicts, bucketVars
<1>7. CASE AppendLedger
    <2>1. /\ run \in Run /\ run.put \in Put
          /\ run.sends < MaxUploads
        BY <1>7 DEF AppendLedger, Run, PutProven
    <2>2. run' \in Run
        <3>1. run.sends + 1 \in 0 .. MaxUploads
            BY <2>1 DEF Run
        <3>2. run.put.part \in Partitions
            BY <2>1 DEF Put
        <3>3. run' = [run EXCEPT !.todo = @ \ {run.put.part},
                                 !.counted = @ \cup {run.put.part},
                                 !.sends = @ + 1, !.put = NoPut]
            BY <1>7 DEF AppendLedger
        <3> QED BY <2>1, <3>1, <3>2, <3>3 DEF Run
    <2>3. ledger' \in [Partitions -> Entry \cup {NoEntry}]
        BY <1>7, <2>1 DEF AppendLedger, Run, Put, Entry, EntryState, Outcome
    <2> QED BY <1>7, <2>2, <2>3 DEF AppendLedger, bucketVars
<1>8. CASE EndRun \/ RunDies \/ LoseLedger \/ Tick
    BY <1>8 DEF EndRun, RunDies, LoseLedger, Tick, Loss, bucketVars
<1>9. ASSUME NEW p \in Partitions, SealPartition(p) \/ LifecycleDeletes(p) \/ Drill(p)
      PROVE  TypeOK'
    BY <1>9 DEF SealPartition, LifecycleDeletes, Drill, Content, bucketVars
<1>10. ASSUME NEW p \in Partitions, PutAnswerLost(p) \/ PutFails(p)
       PROVE  TypeOK'
    <2>1. run' \in Run
        BY <1>10 DEF PutAnswerLost, PutFails, Uploads, Considers, Scanning, Pass, Run
    <2> QED BY <1>10, <2>1 DEF PutAnswerLost, PutFails, Store, Loss, Content, bucketVars
<1>11. ASSUME NEW p \in Partitions, AcceptReceipt(p)
       PROVE  TypeOK'
    <2>1. ledger[p] \in Entry
        BY <1>11 DEF AcceptReceipt, Logged
    <2>2. ledger' \in [Partitions -> Entry \cup {NoEntry}]
        BY <1>11, <2>1 DEF AcceptReceipt, Entry, EntryState
    <2> QED BY <1>11, <2>2 DEF AcceptReceipt, bucketVars
<1>12. CASE UNCHANGED vars
    BY <1>12 DEF vars, offsiteVars, bucketVars
<1> QED
    BY <1>1, <1>2, <1>3, <1>4, <1>5, <1>6, <1>7, <1>8, <1>9, <1>10, <1>11, <1>12
    DEF Next, RunStep

(* What was finalized stays so, and keeps the time of its manifest.        *)
LEMMA FinalizedStays ==
    ASSUME ArchiveInv, TypeOK, [Next]_vars, NEW q \in Partitions, Finalized(q)
    PROVE  Finalized(q)' /\ sealedAt'[q] = sealedAt[q]
<1>1. Finalized(q)'
    <2>1. [ArchiveNext]_archiveVars
        BY StepsOfTheArchive
    <2> QED
        BY <2>1
        DEF ArchiveInv, ArchiveTypeOK, FileName, ArchiveNext, archiveVars, Finalized,
            ArchiveStep, OpenPartition, RemoveMarker, AbandonPartition, CompactorStep,
            BeginCompaction, ReplaceCompressed, RecordCompaction, UnlinkOriginal,
            CompactionFails, Crash, Restart, WriteManifest, Create, Unlink
<1>2. sealedAt'[q] = sealedAt[q]
    <2>1. ASSUME NEW p \in Partitions, SealPartition(p)
          PROVE  sealedAt'[q] = sealedAt[q]
        BY <2>1 DEF SealPartition, WriteManifest, Finalized, TypeOK
    <2>2. CASE \A p \in Partitions : ~SealPartition(p)
        BY <2>2
        DEF Next, RunStep, vars, offsiteVars, StartRun, Skip, Defer, Withhold,
            PutCreates, PutConflicts, AppendLedger, EndRun, PutAnswerLost, PutFails,
            LifecycleDeletes, Drill, AcceptReceipt, RunDies, LoseLedger, Tick
    <2> QED BY <2>1, <2>2
<1> QED BY <1>1, <1>2

LEMMA PutIsRecent ==
    ASSUME ArchiveInv, BackupInv, NEW p \in Partitions, Uploads(p)
    PROVE  /\ run \in Run /\ run.put = NoPut
           /\ Finalized(p) /\ ~Logged(p)
           /\ run.sends < MaxUploads
           /\ Bytes[run.counted \cup {p}] <= Budget
           /\ run.since <= now /\ now <= run.since + MaxRun
           /\ sealedAt[p] <= now /\ now < sealedAt[p] + Lifecycle
<1>1. run \in Run /\ run # Idle /\ run.put = NoPut
    BY DEF BackupInv, TypeOK, Uploads, Considers, Scanning
<1>2. run.since \in Nat /\ sealedAt[p] \in Nat /\ now \in Nat
    BY <1>1 DEF Run, BackupInv, TypeOK
<1>3. run.since <= now /\ now <= run.since + MaxRun
    BY <1>1 DEF BackupInv, RunProven
<1>4. run.since <= sealedAt[p] + Horizon
    BY DEF Uploads, Considers, Sendable
<1>5. now < sealedAt[p] + Lifecycle
    BY <1>2, <1>3, <1>4, NumbersAreNatural, NumbersMoveTogether
<1> QED
    BY <1>1, <1>3, <1>5
    DEF BackupInv, Ages, Uploads, Considers, Sendable, Complete, MayUpload, Fits

(* History that the bucket's lifecycle deleted is not sent by a step, also *)
(* not by a run that finds its ledger lost.                                *)
LEMMA NoStepResends ==
    ArchiveInv /\ BackupInv /\ [Next]_vars =>
        \A p \in expired : bucket'[p] = "tar" => bucket[p] = "tar"
<1> SUFFICES ASSUME ArchiveInv, BackupInv, [Next]_vars,
                    NEW p \in expired, bucket'[p] = "tar", bucket[p] # "tar"
             PROVE  FALSE
    OBVIOUS
<1>1. p \in Partitions /\ sealedAt[p] + Lifecycle <= now
    BY DEF BackupInv, TypeOK, Ages
<1>2. ASSUME NEW q \in Partitions, PutCreates(q) \/ PutAnswerLost(q)
      PROVE  FALSE
    <2>1. q = p
        BY <1>2 DEF PutCreates, PutAnswerLost, Store, BackupInv, TypeOK
    <2>2. now < sealedAt[p] + Lifecycle
        BY <1>2, <2>1, PutIsRecent DEF PutCreates, PutAnswerLost
    <2>3. sealedAt[p] \in Nat /\ now \in Nat
        BY <1>1 DEF BackupInv, TypeOK
    <2> QED BY <1>1, <2>2, <2>3, NumbersAreNatural
<1>3. ASSUME NEW q \in Partitions, LifecycleDeletes(q)
      PROVE  FALSE
    BY <1>3 DEF LifecycleDeletes, BackupInv, TypeOK
<1>4. bucket' # bucket
    OBVIOUS
<1> QED
    BY <1>2, <1>3, <1>4
    DEF Next, RunStep, vars, offsiteVars, bucketVars, StartRun, Skip, Defer, Withhold,
        PutConflicts, AppendLedger, EndRun, SealPartition, PutFails, Drill,
        AcceptReceipt, RunDies, LoseLedger, Tick

(* A tar that arrived is in the bucket until the lifecycle deletes it.     *)
LEMMA ArrivedStays ==
    ASSUME TypeOK, [Next]_vars, NEW q \in Partitions, Arrived(q)
    PROVE  Arrived(q)'
<1> USE DEF Arrived, TypeOK
<1>1. ASSUME NEW p \in Partitions, LifecycleDeletes(p)
      PROVE  Arrived(q)'
    BY <1>1 DEF LifecycleDeletes
<1>2. ASSUME NEW p \in Partitions, PutCreates(p) \/ PutAnswerLost(p)
      PROVE  Arrived(q)'
    BY <1>2 DEF PutCreates, PutAnswerLost, Store
<1>3. CASE UNCHANGED bucketVars
    BY <1>3 DEF bucketVars
<1> QED
    BY <1>1, <1>2, <1>3
    DEF Next, RunStep, vars, offsiteVars, StartRun, Skip, Defer, Withhold, PutConflicts,
        AppendLedger, EndRun, SealPartition, PutFails, Drill, AcceptReceipt, RunDies,
        LoseLedger, Tick

LEMMA ReceiptsStayTrue == BackupInv /\ [Next]_vars => ReceiptsTrue'
<1> SUFFICES ASSUME BackupInv, [Next]_vars,
                    NEW q \in Partitions, <<q, "tar">> \in receipts'
             PROVE  Arrived(q)'
    BY DEF ReceiptsTrue
<1>1. TypeOK /\ ReceiptsTrue
    BY DEF BackupInv
<1>2. CASE <<q, "tar">> \in receipts
    BY <1>1, <1>2, ArrivedStays DEF ReceiptsTrue
<1>3. ASSUME NEW p \in Partitions, Drill(p), <<q, "tar">> \notin receipts
      PROVE  Arrived(q)'
    BY <1>3 DEF Drill, bucketVars, Arrived
<1> QED
    BY <1>2, <1>3
    DEF Next, RunStep, vars, offsiteVars, StartRun, Skip, Defer, Withhold, PutCreates,
        PutConflicts, AppendLedger, EndRun, SealPartition, PutAnswerLost, PutFails,
        LifecycleDeletes, AcceptReceipt, RunDies, LoseLedger, Tick

LEMMA LedgerStaysTrue == BackupInv /\ [Next]_vars => LedgerNeverOverstates'
<1> SUFFICES ASSUME BackupInv, [Next]_vars, NEW q \in Partitions, Logged(q)',
                    ledger'[q].state # "REMOTE_EXISTS_UNVERIFIED"
             PROVE  Arrived(q)'
    BY DEF LedgerNeverOverstates, Arrived
<1>1. TypeOK /\ ReceiptsTrue /\ LedgerNeverOverstates /\ PutProven
    BY DEF BackupInv
<1>2. CASE ledger'[q] = ledger[q]
    BY <1>1, <1>2, ArrivedStays DEF LedgerNeverOverstates, Logged, Arrived
<1>3. CASE AppendLedger /\ ledger'[q] # ledger[q]
    <2>1. run \in Run /\ run # Idle /\ run.put \in Put
        BY <1>1, <1>3 DEF AppendLedger, TypeOK, Run
    <2>2. q = run.put.part /\ ledger'[q].state = Outcome(run.put.created)
        BY <1>1, <1>3, <2>1 DEF AppendLedger, TypeOK, Put
    <2>3. run.put.created
        BY <2>1, <2>2 DEF Outcome, Put
    <2>4. Arrived(q)
        BY <1>1, <1>3, <2>1, <2>2, <2>3 DEF PutProven, AppendLedger
    <2> QED BY <1>1, <2>4, ArrivedStays
<1>4. ASSUME NEW p \in Partitions, AcceptReceipt(p), ledger'[q] # ledger[q]
      PROVE  Arrived(q)'
    <2>1. p = q
        BY <1>1, <1>4 DEF AcceptReceipt, TypeOK
    <2>2. Arrived(q)
        BY <1>1, <1>4, <2>1 DEF AcceptReceipt, ReceiptsTrue
    <2> QED BY <1>1, <2>2, ArrivedStays
<1>5. CASE LoseLedger
    BY <1>5 DEF LoseLedger, Logged
<1> QED
    BY <1>2, <1>3, <1>4, <1>5
    DEF Next, RunStep, vars, offsiteVars, StartRun, Skip, Defer, Withhold, PutCreates,
        PutConflicts, EndRun, SealPartition, PutAnswerLost, PutFails, LifecycleDeletes,
        Drill, RunDies, Tick

LEMMA AgesInductive ==
    ASSUME ArchiveInv, BackupInv, TypeOK', [Next]_vars, NEW q \in Partitions
    PROVE  Ages(q)'
<1>1. TypeOK /\ Ages(q) /\ RunProven /\ PutProven
    BY DEF BackupInv
<1>2. /\ sealedAt[q] \in Nat /\ sealedAt'[q] \in Nat /\ storedAt[q] \in Nat
      /\ now \in Nat /\ now' \in Nat
      /\ Finalized(q) => Finalized(q)' /\ sealedAt'[q] = sealedAt[q]
    BY <1>1, FinalizedStays DEF TypeOK
<1> USE NumbersAreNatural DEF Ages
<1>3. CASE UNCHANGED <<now, sealedAt, bucket, storedAt, expired, ledger>>
    BY <1>1, <1>2, <1>3 DEF Logged
<1>4. CASE Tick
    BY <1>1, <1>2, <1>4 DEF Tick, bucketVars, Logged
<1>5. ASSUME NEW p \in Partitions, SealPartition(p)
      PROVE  Ages(q)'
    <2>1. UNCHANGED <<now, bucket, storedAt, expired, ledger>>
        BY <1>5 DEF SealPartition, bucketVars
    <2>2. sealedAt'[q] = now \/ sealedAt'[q] = sealedAt[q]
        BY <1>1, <1>5 DEF SealPartition, TypeOK
    <2> QED BY <1>1, <1>2, <2>1, <2>2 DEF Logged
<1>6. ASSUME NEW p \in Partitions, LifecycleDeletes(p)
      PROVE  Ages(q)'
    <2>1. UNCHANGED <<now, sealedAt, ledger>>
        BY <1>6 DEF LifecycleDeletes
    <2>2. CASE q = p
        <3>1. bucket'[q] = "absent"
            BY <1>1, <1>6, <2>2 DEF LifecycleDeletes, TypeOK
        <3>2. q \in expired' =>
                \/ q \in expired
                \/ bucket[q] = "tar" /\ now >= storedAt[q] + Lifecycle
            BY <1>6, <2>2 DEF LifecycleDeletes
        <3> QED BY <1>1, <1>2, <2>1, <3>1, <3>2
    <2>3. CASE q # p
        <3>1. bucket'[q] = bucket[q] /\ storedAt'[q] = storedAt[q]
            BY <1>1, <1>6, <2>3 DEF LifecycleDeletes, TypeOK
        <3>2. q \in expired' <=> q \in expired
            BY <1>6, <2>3 DEF LifecycleDeletes
        <3> QED BY <1>1, <1>2, <2>1, <3>1, <3>2 DEF Logged
    <2> QED BY <2>2, <2>3
<1>7. ASSUME NEW p \in Partitions, PutCreates(p) \/ PutAnswerLost(p)
      PROVE  Ages(q)'
    <2>1. UNCHANGED <<now, sealedAt, ledger, expired>> /\ Store(p) /\ Uploads(p)
        BY <1>7 DEF PutCreates, PutAnswerLost
    <2>2. CASE q = p
        <3>1. storedAt'[q] = now
            BY <1>1, <2>1, <2>2 DEF Store, TypeOK
        <3>2. Finalized(q) /\ ~Logged(q)
            BY <2>1, <2>2, PutIsRecent
        <3> QED BY <1>1, <1>2, <2>1, <3>1, <3>2 DEF Logged
    <2>3. CASE q # p
        <3>1. bucket'[q] = bucket[q] /\ storedAt'[q] = storedAt[q]
            BY <1>1, <2>1, <2>3 DEF Store, TypeOK
        <3> QED BY <1>1, <1>2, <2>1, <3>1 DEF Logged
    <2> QED BY <2>2, <2>3
<1>8. CASE AppendLedger
    <2>1. /\ UNCHANGED <<now, sealedAt, bucket, storedAt, expired>>
          /\ run \in Run /\ run # Idle /\ run.put # NoPut
        BY <1>1, <1>8 DEF AppendLedger, bucketVars, TypeOK
    <2>2. CASE q = run.put.part
        <3>1. ledger'[q].at = run.since
            BY <1>1, <1>8, <2>2 DEF AppendLedger, TypeOK
        <3>2. bucket[q] # "absent" => storedAt[q] <= run.since + MaxRun
            BY <1>1, <2>1, <2>2 DEF PutProven
        <3> QED BY <1>1, <1>2, <2>1, <3>1, <3>2
    <2>3. CASE q # run.put.part
        <3>1. ledger'[q] = ledger[q]
            BY <1>1, <1>8, <2>3 DEF AppendLedger, TypeOK
        <3> QED BY <1>1, <1>2, <2>1, <3>1 DEF Logged
    <2> QED BY <2>2, <2>3
<1>9. ASSUME NEW p \in Partitions, AcceptReceipt(p)
      PROVE  Ages(q)'
    <2>1. UNCHANGED <<now, sealedAt, bucket, storedAt, expired>>
        BY <1>9 DEF AcceptReceipt, bucketVars
    <2>2. Logged(q)' => Logged(q) /\ ledger'[q].at = ledger[q].at
        <3>1. p # q => ledger'[q] = ledger[q]
            BY <1>1, <1>9 DEF AcceptReceipt, TypeOK
        <3>2. ledger[p] \in Entry
            BY <1>1, <1>9 DEF AcceptReceipt, Logged, TypeOK
        <3>3. p = q => ledger'[q].at = ledger[q].at
            BY <1>1, <1>9, <3>2 DEF AcceptReceipt, TypeOK, Entry
        <3> QED BY <1>9, <3>1, <3>3 DEF AcceptReceipt, Logged
    <2> QED BY <1>1, <1>2, <2>1, <2>2
<1>10. CASE LoseLedger
    BY <1>1, <1>2, <1>10 DEF LoseLedger, bucketVars, Logged
<1> QED
    BY <1>3, <1>4, <1>5, <1>6, <1>7, <1>8, <1>9, <1>10
    DEF Next, RunStep, vars, offsiteVars, bucketVars, StartRun, Skip, Defer, Withhold,
        PutConflicts, EndRun, PutFails, Drill, RunDies

(* Only a ledger line adds to the tars that the guard covers.              *)
LEMMA OnlyAppendKeepsMore ==
    ASSUME ArchiveInv, BackupInv, [Next]_vars
    PROVE  \/ Guarded' \subseteq Guarded
           \/ AppendLedger /\ Guarded' \subseteq Guarded \cup {run.put.part}
<1>1. TypeOK
    BY DEF BackupInv
<1>0. /\ now \in Nat /\ MaxRun \in Nat /\ BudgetWindow \in Nat
      /\ \A p \in Partitions : storedAt[p] \in Nat
    BY <1>1, NumbersAreNatural DEF TypeOK
<1> USE DEF Guarded, Logged
<1>2. CASE UNCHANGED <<now, bucket, storedAt, ledger>>
    BY <1>2
<1>8. CASE Tick
    BY <1>0, <1>8 DEF Tick, bucketVars
<1>3. ASSUME NEW p \in Partitions, LifecycleDeletes(p)
      PROVE  Guarded' \subseteq Guarded
    BY <1>1, <1>3 DEF LifecycleDeletes, TypeOK
<1>4. ASSUME NEW p \in Partitions, PutCreates(p) \/ PutAnswerLost(p)
      PROVE  Guarded' \subseteq Guarded
    <2>1. ~Logged(p) /\ UNCHANGED <<now, ledger>> /\ Store(p)
        BY <1>4, PutIsRecent DEF PutCreates, PutAnswerLost
    <2>2. \A q \in Partitions : q # p => /\ bucket'[q] = bucket[q]
                                        /\ storedAt'[q] = storedAt[q]
        BY <1>1, <2>1 DEF Store, TypeOK
    <2> QED BY <2>1, <2>2
<1>5. CASE AppendLedger
    <2>1. /\ UNCHANGED <<now, bucket, storedAt>>
          /\ \A q \in Partitions : q # run.put.part => ledger'[q] = ledger[q]
        BY <1>1, <1>5 DEF AppendLedger, bucketVars, TypeOK
    <2> QED BY <1>5, <2>1
<1>6. ASSUME NEW p \in Partitions, AcceptReceipt(p)
      PROVE  Guarded' \subseteq Guarded
    BY <1>1, <1>6 DEF AcceptReceipt, bucketVars, TypeOK
<1>7. CASE LoseLedger
    BY <1>7 DEF LoseLedger, bucketVars
<1> QED
    BY <1>2, <1>3, <1>4, <1>5, <1>6, <1>7, <1>8
    DEF Next, RunStep, vars, offsiteVars, bucketVars, StartRun, Skip, Defer, Withhold,
        PutConflicts, EndRun, SealPartition, PutFails, Drill, RunDies

(* What the guard covers is in the window of a run that starts.             *)
LEMMA KeptIsInWindow ==
    ASSUME BackupInv
    PROVE  Guarded \subseteq InWindow(now)
<1> SUFFICES ASSUME NEW q \in Guarded
             PROVE  Logged(q) /\ ledger[q].at + BudgetWindow > now
    BY DEF Guarded, InWindow
<1>1. /\ Logged(q)
      /\ now + MaxRun < storedAt[q] + BudgetWindow
      /\ storedAt[q] <= ledger[q].at + MaxRun
    BY DEF BackupInv, Ages, Guarded
<1>2. /\ now \in Nat /\ storedAt[q] \in Nat /\ ledger[q] \in Entry
    BY DEF BackupInv, TypeOK, Guarded, Logged
<1> QED BY <1>1, <1>2, NumbersAreNatural DEF Entry

LEMMA RunInductive ==
    ASSUME ArchiveInv, BackupInv, [Next]_vars
    PROVE  RunProven'
<1>1. TypeOK /\ RunProven
    BY DEF BackupInv
<1>2. now \in Nat /\ (run # Idle => run.since \in Nat)
    BY <1>1 DEF TypeOK, Run
<1> USE NumbersAreNatural DEF RunProven
<1>3. CASE StartRun
    <2>1. Guarded' = Guarded
        BY <1>3 DEF StartRun, bucketVars, Guarded, Logged
    <2> QED BY <1>2, <1>3, <2>1, KeptIsInWindow DEF StartRun
<1>4. CASE AppendLedger
    <2>1. /\ run # Idle /\ run \in Run /\ now' = now
          /\ run'.since = run.since
          /\ run'.counted = run.counted \cup {run.put.part}
        BY <1>1, <1>4 DEF AppendLedger, TypeOK, Run
    <2> QED BY <1>1, <2>1, OnlyAppendKeepsMore
<1>5. CASE Tick
    BY <1>1, <1>2, <1>5, OnlyAppendKeepsMore DEF Tick, AppendLedger, bucketVars, Guarded, Logged
<1>6. ASSUME NEW p \in Partitions,
             \/ Skip(p) \/ Defer(p) \/ Withhold(p) \/ PutCreates(p) \/ PutConflicts(p)
             \/ PutAnswerLost(p) \/ PutFails(p)
      PROVE  RunProven'
    <2>1. Scanning /\ now' = now /\ ledger' = ledger
        BY <1>6
        DEF Skip, Defer, Withhold, PutCreates, PutConflicts, PutAnswerLost, PutFails,
            Uploads, Considers
    <2>2. run # Idle /\ run \in Run
        BY <1>1, <2>1 DEF Scanning, TypeOK
    <2>3. run'.since = run.since /\ run'.counted = run.counted
        BY <1>6, <2>2
        DEF Skip, Defer, Withhold, PutCreates, PutConflicts, PutAnswerLost, PutFails,
            Pass, Run
    <2>4. ~AppendLedger
        BY <2>1 DEF AppendLedger, Scanning
    <2> QED BY <1>1, <2>1, <2>2, <2>3, <2>4, OnlyAppendKeepsMore
<1>7. CASE run' = Idle
    BY <1>7
<1>8. CASE UNCHANGED <<run, now>> /\ ~AppendLedger
    BY <1>1, <1>8, OnlyAppendKeepsMore
<1> QED
    BY <1>3, <1>4, <1>5, <1>6, <1>7, <1>8
    DEF Next, RunStep, vars, offsiteVars, EndRun, SealPartition, LifecycleDeletes,
        Drill, AcceptReceipt, RunDies, LoseLedger

LEMMA BudgetInductive ==
    ASSUME ArchiveInv, BackupInv, [Next]_vars
    PROVE  BucketWithinBudget'
<1>1. Bytes[Guarded] <= Budget /\ TypeOK
    BY DEF BackupInv, BucketWithinBudget
<1>2. Guarded \subseteq Partitions /\ Guarded' \subseteq Partitions
    BY DEF Guarded
<1>3. CASE Guarded' \subseteq Guarded
    <2>1. Bytes[Guarded'] <= Bytes[Guarded] /\ Bytes[Guarded'] \in Nat /\ Bytes[Guarded] \in Nat
        BY <1>2, <1>3, OffsiteAssumption
    <2> QED BY <1>1, <2>1, NumbersAreNatural DEF BucketWithinBudget
<1>4. CASE AppendLedger /\ Guarded' \subseteq Guarded \cup {run.put.part}
    <2>1. run \in Run /\ run # Idle /\ run.put # NoPut
        BY <1>1, <1>4 DEF AppendLedger, TypeOK
    <2>2. /\ Guarded' \subseteq run.counted \cup {run.put.part}
          /\ Bytes[run.counted \cup {run.put.part}] <= Budget
        BY <1>4, <2>1 DEF BackupInv, RunProven, PutProven
    <2>3. run.counted \cup {run.put.part} \in SUBSET Partitions
        BY <2>1 DEF Run, Put
    <2>4. /\ Bytes[Guarded'] <= Bytes[run.counted \cup {run.put.part}]
          /\ Bytes[Guarded'] \in Nat /\ Bytes[run.counted \cup {run.put.part}] \in Nat
        BY <1>2, <2>2, <2>3, OffsiteAssumption
    <2> QED BY <2>2, <2>4, NumbersAreNatural DEF BucketWithinBudget
<1> QED BY <1>3, <1>4, OnlyAppendKeepsMore

LEMMA PutInductive ==
    ASSUME ArchiveInv, BackupInv, [Next]_vars
    PROVE  PutProven'
<1>1. TypeOK /\ PutProven /\ RunProven /\ \A p \in Partitions : Ages(p)
    BY DEF BackupInv
<1> USE NumbersAreNatural DEF PutProven
<1>2. ASSUME NEW p \in Partitions, PutCreates(p)
      PROVE  PutProven'
    <2>1. /\ run \in Run /\ run.sends < MaxUploads
          /\ Bytes[run.counted \cup {p}] <= Budget
          /\ now <= run.since + MaxRun
        BY <1>2, PutIsRecent DEF PutCreates
    <2>2. /\ run'.put = [part |-> p, created |-> TRUE] /\ run'.sends = run.sends
          /\ run'.counted = run.counted /\ run'.since = run.since
        BY <1>2, <2>1 DEF PutCreates, Run
    <2>3. bucket'[p] = "tar" /\ storedAt'[p] = now
        BY <1>1, <1>2 DEF PutCreates, Store, TypeOK
    <2>4. run'.put.part = p /\ Arrived(p)'
        BY <2>2, <2>3 DEF Arrived
    <2> QED BY <2>1, <2>2, <2>3, <2>4
<1>3. ASSUME NEW p \in Partitions, PutConflicts(p)
      PROVE  PutProven'
    <2>1. /\ run \in Run /\ run.sends < MaxUploads
          /\ Bytes[run.counted \cup {p}] <= Budget
          /\ now <= run.since + MaxRun
        BY <1>3, PutIsRecent DEF PutConflicts
    <2>2. /\ run'.put = [part |-> p, created |-> FALSE] /\ run'.sends = run.sends
          /\ run'.counted = run.counted /\ run'.since = run.since
        BY <1>3, <2>1 DEF PutConflicts, Run
    <2>3. storedAt[p] <= run.since + MaxRun
        <3>1. storedAt[p] <= now
            BY <1>1, <1>3 DEF Ages, PutConflicts
        <3>2. storedAt[p] \in Nat /\ now \in Nat /\ run.since \in Nat
            BY <1>1, <2>1 DEF TypeOK, Run
        <3> QED BY <2>1, <3>1, <3>2
    <2>4. run'.put.part = p /\ run'.put.created = FALSE
        BY <2>2
    <2>5. bucket' = bucket /\ storedAt' = storedAt
        BY <1>3 DEF PutConflicts, bucketVars
    <2> QED BY <2>1, <2>2, <2>3, <2>4, <2>5
<1>4. ASSUME NEW p \in Partitions,
             Skip(p) \/ Defer(p) \/ Withhold(p) \/ PutAnswerLost(p) \/ PutFails(p)
      PROVE  PutProven'
    <2>1. Scanning
        BY <1>4 DEF Skip, Defer, Withhold, PutAnswerLost, PutFails, Uploads, Considers
    <2>2. run \in Run /\ run.put = NoPut
        BY <1>1, <2>1 DEF Scanning, TypeOK
    <2>3. run'.put = NoPut
        BY <1>4, <2>2 DEF Skip, Defer, Withhold, PutAnswerLost, PutFails, Pass, Run
    <2> QED BY <2>3
<1>5. CASE StartRun
    BY <1>5 DEF StartRun
<1>6. CASE AppendLedger
    <2>1. run \in Run
        BY <1>1, <1>6 DEF AppendLedger, TypeOK
    <2>2. run'.put = NoPut
        BY <1>6, <2>1 DEF AppendLedger, Run
    <2> QED BY <2>2
<1>7. CASE run' = Idle
    BY <1>7
<1>8. ASSUME NEW p \in Partitions, LifecycleDeletes(p)
      PROVE  PutProven'
    <2> SUFFICES ASSUME run # Idle, run.put # NoPut
                 PROVE  PutProven'
        BY <1>8 DEF LifecycleDeletes
    <2>1. run' = run /\ run.put.part \in Partitions
        BY <1>1, <1>8 DEF LifecycleDeletes, TypeOK, Run, Put
    <2>2. Arrived(run.put.part) => Arrived(run.put.part)'
        BY <1>1, <2>1, ArrivedStays
    <2>3. bucket'[run.put.part] # "absent" =>
            /\ bucket[run.put.part] # "absent"
            /\ storedAt'[run.put.part] = storedAt[run.put.part]
        BY <1>1, <1>8, <2>1 DEF LifecycleDeletes, TypeOK
    <2> QED BY <1>1, <2>1, <2>2, <2>3
<1>9. CASE UNCHANGED <<run, bucket, storedAt, expired>>
    BY <1>1, <1>9 DEF Arrived
<1> QED
    BY <1>2, <1>3, <1>4, <1>5, <1>6, <1>7, <1>8, <1>9
    DEF Next, RunStep, vars, offsiteVars, bucketVars, EndRun, SealPartition, Drill,
        AcceptReceipt, RunDies, LoseLedger, Tick
--------------------------------------------------------------------------------
LEMMA BackupInitially == Init => BackupInv
<1> SUFFICES ASSUME Init
             PROVE  BackupInv
    OBVIOUS
<1>1. TypeOK
    BY TypeInitially
<1>2. \A p \in Partitions : Ages(p)
    BY NumbersAreNatural DEF Init, Ages, Logged
<1>3. BucketWithinBudget
    <2>1. Guarded = {}
        BY DEF Init, Guarded, Logged
    <2> QED BY <2>1, OffsiteAssumption, NumbersAreNatural DEF BucketWithinBudget
<1> QED
    BY <1>1, <1>2, <1>3
    DEF Init, BackupInv, PutProven, RunProven, ReceiptsTrue, LedgerNeverOverstates, Logged

LEMMA BackupInductive ==
    ArchiveInv /\ ArchiveInv' /\ BackupInv /\ [Next]_vars => BackupInv'
<1> SUFFICES ASSUME ArchiveInv, ArchiveInv', BackupInv, [Next]_vars
             PROVE  BackupInv'
    OBVIOUS
<1>1. TypeOK'
    BY TypeInductive DEF ArchiveInv
<1>2. \A p \in Partitions : Ages(p)'
    BY <1>1, AgesInductive
<1> QED
    BY <1>1, <1>2, PutInductive, RunInductive, ReceiptsStayTrue, LedgerStaysTrue,
       BudgetInductive
    DEF BackupInv

LEMMA BackupHolds == Spec => []BackupInv
<1> QED BY BackupInitially, BackupInductive, ArchiveHolds, PTL DEF Spec

(* The variables of the archive, the run, the bucket and the ledger keep   *)
(* their types, and a run never logs more uploads than it may.             *)
THEOREM OffsiteTypeCorrect == Spec => []TypeOK
<1>1. BackupInv => TypeOK
    BY DEF BackupInv
<1> QED BY <1>1, BackupHolds, PTL

(* What the ledger calls sent or restored has arrived in the bucket, for   *)
(* every number of crashes, lost answers and lost ledgers (run_backup,     *)
(* accept_restore_receipt).                                                *)
THEOREM LedgerIsTrue == Spec => []LedgerNeverOverstates
<1>1. BackupInv => LedgerNeverOverstates
    BY DEF BackupInv
<1> QED BY <1>1, BackupHolds, PTL

(* The tars that are logged and still stored fit into the budget, however  *)
(* long a run takes, as far as the guard sees: but for those that are      *)
(* older than the window less a run.  Nothing is assumed about how the     *)
(* window relates to the lifecycle, or how late the bucket deletes         *)
(* (run_backup).                                                           *)
THEOREM BudgetIsKept == Spec => []BucketWithinBudget
<1>1. BackupInv => BucketWithinBudget
    BY DEF BackupInv
<1> QED BY <1>1, BackupHolds, PTL

(* What the bucket's lifecycle deleted is never sent again, because the    *)
(* horizon and a run together are shorter than the lifecycle (run_backup). *)
THEOREM HistoryIsNotResent == Spec => NeverResent
<1> QED BY NoStepResends, ArchiveHolds, BackupHolds, PTL DEF Spec, NeverResent
================================================================================
