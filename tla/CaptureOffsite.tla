---------------------------- MODULE CaptureOffsite ----------------------------
(***************************************************************************)
(* The off-site backup of the capture archive (deploy/oci/capture_offsite):*)
(* an hourly run sends each partition that is sealed and compacted to a    *)
(* bucket it can write and not read, and keeps a ledger of what it sent.   *)
(* The bucket deletes objects by age.  A run may die, or lose the answer   *)
(* to a PUT, before its ledger line is written; the ledger may be lost;    *)
(* restore drills on another host answer with receipts.  It runs beside    *)
(* the recorder process of CaptureArchive.                                 *)
(***************************************************************************)
EXTENDS CaptureArchive

CONSTANTS
    Foreign,        \* the partitions under whose name something else is stored
    Bytes,          \* the size of the tars of each set of partitions
    Budget,         \* --budget-bytes
    BudgetWindow,   \* --budget-window-days
    Horizon,        \* --horizon-days
    MaxUploads,     \* --max-uploads
    Lifecycle,      \* age at which the bucket may delete an object, or later
    MaxLosses,      \* bound on answers, runs and ledgers that are lost
    MaxRun,         \* a run that takes longer is killed (TimeoutStartSec)
    MaxTime         \* bound on the clock

ASSUME OffsiteAssumption ==
    /\ {Budget, BudgetWindow, Horizon, MaxUploads} \subseteq Nat
    /\ {Lifecycle, MaxLosses, MaxRun, MaxTime} \subseteq Nat
    /\ Foreign \subseteq Partitions
    /\ Bytes \in [SUBSET Partitions -> Nat]
    /\ Bytes[{}] = 0
    /\ \A S, T \in SUBSET Partitions : S \subseteq T => Bytes[S] <= Bytes[T]

\* deploy/oci/README.md keeps the horizon below the lifecycle, both in days; a run
\* started within the horizon is over, or killed, before the lifecycle applies.
ASSUME NumbersMoveTogether == Horizon + MaxRun < Lifecycle

VARIABLES
    now,
    sealedAt,       \* the mtime of each manifest
    bucket,         \* what the bucket holds under each partition's name
    storedAt,       \* since when
    expired,        \* the partitions whose tar the bucket deleted
    ledger,         \* what read_ledger makes of the ledger file
    receipts,       \* the lines that drills wrote
    run,            \* the backup run, or Idle
    losses          \* answers, runs and ledgers lost so far

bucketVars == <<bucket, storedAt, expired>>
offsiteVars == <<now, sealedAt, bucketVars, ledger, receipts, run, losses>>
vars == <<archiveVars, offsiteVars>>

\* The bytes of an object are those of the partition's deterministic tar, or not.
Content == {"tar", "other"}

EntryState == {"UPLOADED", "REMOTE_EXISTS_UNVERIFIED", "RESTORE_VERIFIED"}
NoEntry == [state |-> "NONE"]
Entry == [state: EntryState, at: Nat]

\* A run read the clock at since, has the directories of todo left, counts the
\* partitions of counted against the budget, and logged sends PUTs.  After the
\* answer to a PUT, and before its ledger line, put says what was sent.
NoPut == [part |-> "none"]
Put == [part: Partitions, created: BOOLEAN]
Run == [since: Nat, todo: SUBSET Partitions, counted: SUBSET Partitions,
        over: BOOLEAN, sends: 0 .. MaxUploads, put: Put \cup {NoPut}]

TypeOK ==
    /\ ArchiveTypeOK
    /\ now \in 0 .. MaxTime
    /\ sealedAt \in [Partitions -> Nat]
    /\ bucket \in [Partitions -> Content \cup {"absent"}]
    /\ storedAt \in [Partitions -> Nat]
    /\ expired \subseteq Partitions
    /\ ledger \in [Partitions -> Entry \cup {NoEntry}]
    /\ receipts \subseteq Partitions \X Content
    /\ run = Idle \/ run \in Run
    /\ losses \in 0 .. MaxLosses

Init ==
    /\ ArchiveInit
    /\ now = 0
    /\ sealedAt = [p \in Partitions |-> 0]
    /\ bucket = [p \in Partitions |-> IF p \in Foreign THEN "other" ELSE "absent"]
    /\ storedAt = [p \in Partitions |-> 0]
    /\ expired = {}
    /\ ledger = [p \in Partitions |-> NoEntry]
    /\ receipts = {}
    /\ run = Idle
    /\ losses = 0

Loss ==
    /\ losses < MaxLosses
    /\ losses' = losses + 1
--------------------------------------------------------------------------------
(***************************************************************************)
(* The bucket and the clock                                                *)
(***************************************************************************)

\* A run that takes too long was killed.
Tick ==
    /\ now < MaxTime
    /\ run # Idle => now < run.since + MaxRun
    /\ now' = now + 1
    /\ UNCHANGED <<archiveVars, sealedAt, bucketVars, ledger, receipts, run, losses>>

\* The lifecycle rule runs whenever it does, so an object may stay for longer.
LifecycleDeletes(p) ==
    /\ bucket[p] # "absent"
    /\ now >= storedAt[p] + Lifecycle
    /\ bucket' = [bucket EXCEPT ![p] = "absent"]
    /\ storedAt' = [storedAt EXCEPT ![p] = 0]
    /\ expired' = IF bucket[p] = "tar" THEN expired \cup {p} ELSE expired
    /\ UNCHANGED <<archiveVars, now, sealedAt, ledger, receipts, run, losses>>

SealPartition(p) ==
    /\ WriteManifest(p)
    /\ sealedAt' = [sealedAt EXCEPT ![p] = now]
    /\ UNCHANGED <<now, bucketVars, ledger, receipts, run, losses>>
--------------------------------------------------------------------------------
(***************************************************************************)
(* A backup run                                                            *)
(***************************************************************************)

Logged(p) == ledger[p] # NoEntry

\* The entries whose bytes a run that starts at t counts.
InWindow(t) == {p \in Partitions : Logged(p) /\ ledger[p].at + BudgetWindow > t}

Scanning == run # Idle /\ run.put = NoPut

StartRun ==
    /\ run = Idle
    /\ run' = [since |-> now, todo |-> {p \in Partitions : files[p] # {}},
               counted |-> InWindow(now), over |-> FALSE, sends |-> 0, put |-> NoPut]
    /\ UNCHANGED <<archiveVars, now, sealedAt, bucketVars, ledger, receipts, losses>>

Compacted(p) == "records" \notin files[p] /\ "COMPACTION" \in files[p]

\* Mutant of Sendable: however old, what the ledger does not name is sent.
SendableAtAnyAge(p) == Complete(p) /\ Compacted(p) /\ ~Logged(p)

\* Whether the loop of run_backup goes on to the upload of a partition.
Sendable(p) ==
    /\ Complete(p)
    /\ Compacted(p)
    /\ ~Logged(p)
    /\ run.since <= sealedAt[p] + Horizon

\* Mutant of Fits: what was sent so far fits.
SoFarFits(p) == Bytes[run.counted] <= Budget

Fits(p) == Bytes[run.counted \cup {p}] <= Budget

MayUpload == run.sends < MaxUploads

Pass(p) == run' = [run EXCEPT !.todo = @ \ {p}]

\* Not complete, not compacted yet, in the ledger, or beyond the horizon.
Skip(p) ==
    /\ Scanning
    /\ p \in run.todo
    /\ ~Sendable(p)
    /\ Pass(p)
    /\ UNCHANGED <<archiveVars, now, sealedAt, bucketVars, ledger, receipts, losses>>

Considers(p) == Scanning /\ p \in run.todo /\ Sendable(p)

Defer(p) ==
    /\ Considers(p)
    /\ ~MayUpload
    /\ Pass(p)
    /\ UNCHANGED <<archiveVars, now, sealedAt, bucketVars, ledger, receipts, losses>>

\* The first partition that does not fit withholds those after it too.
Withhold(p) ==
    /\ Considers(p)
    /\ MayUpload
    /\ run.over \/ ~Fits(p)
    /\ run' = [run EXCEPT !.todo = @ \ {p}, !.over = TRUE]
    /\ UNCHANGED <<archiveVars, now, sealedAt, bucketVars, ledger, receipts, losses>>

Uploads(p) == Considers(p) /\ MayUpload /\ ~run.over /\ Fits(p)

Store(p) ==
    /\ bucket[p] = "absent"
    /\ bucket' = [bucket EXCEPT ![p] = "tar"]
    /\ storedAt' = [storedAt EXCEPT ![p] = now]

PutCreates(p) ==
    /\ Uploads(p)
    /\ Store(p)
    /\ run' = [run EXCEPT !.put = [part |-> p, created |-> TRUE]]
    /\ UNCHANGED <<archiveVars, now, sealedAt, expired, ledger, receipts, losses>>

\* 409 or 412: If-None-Match met an object.
PutConflicts(p) ==
    /\ Uploads(p)
    /\ bucket[p] # "absent"
    /\ run' = [run EXCEPT !.put = [part |-> p, created |-> FALSE]]
    /\ UNCHANGED <<archiveVars, now, sealedAt, bucketVars, ledger, receipts, losses>>

\* The object is stored, the answer is lost: nothing is logged.
PutAnswerLost(p) ==
    /\ Uploads(p)
    /\ Store(p)
    /\ Loss
    /\ Pass(p)
    /\ UNCHANGED <<archiveVars, now, sealedAt, expired, ledger, receipts>>

PutFails(p) ==
    /\ Uploads(p)
    /\ Loss
    /\ Pass(p)
    /\ UNCHANGED <<archiveVars, now, sealedAt, bucketVars, ledger, receipts>>

\* Mutant of Outcome: the name an earlier version gave to a conflict.
OutcomeUnknown(created) == IF created THEN "UPLOADED" ELSE "ALREADY_PRESENT"

\* Mutant of Outcome: an object that exists is taken for the one to send.
OutcomeAlreadyPresent(created) == "UPLOADED"

Outcome(created) == IF created THEN "UPLOADED" ELSE "REMOTE_EXISTS_UNVERIFIED"

AppendLedger ==
    /\ run # Idle
    /\ run.put # NoPut
    /\ LET p == run.put.part
       IN  /\ ledger' = [ledger EXCEPT
                    ![p] = [state |-> Outcome(run.put.created), at |-> run.since]]
           /\ run' = [run EXCEPT !.todo = @ \ {p}, !.counted = @ \cup {p},
                                 !.sends = @ + 1, !.put = NoPut]
    /\ UNCHANGED <<archiveVars, now, sealedAt, bucketVars, receipts, losses>>

EndRun ==
    /\ Scanning
    /\ run.todo = {}
    /\ run' = Idle
    /\ UNCHANGED <<archiveVars, now, sealedAt, bucketVars, ledger, receipts, losses>>

\* Killed, also within the append: read_ledger skips a line that is torn.
RunDies ==
    /\ run # Idle
    /\ Loss
    /\ run' = Idle
    /\ UNCHANGED <<archiveVars, now, sealedAt, bucketVars, ledger, receipts>>

LoseLedger ==
    /\ run = Idle
    /\ \E p \in Partitions : Logged(p)
    /\ Loss
    /\ ledger' = [p \in Partitions |-> NoEntry]
    /\ UNCHANGED <<archiveVars, now, sealedAt, bucketVars, receipts, run>>
--------------------------------------------------------------------------------
(***************************************************************************)
(* A restore drill                                                         *)
(***************************************************************************)

\* run_restore_verify, without the ledger, which stays on the VM.
Drill(p) ==
    /\ bucket[p] # "absent"
    /\ receipts' = receipts \cup {<<p, bucket[p]>>}
    /\ UNCHANGED <<archiveVars, now, sealedAt, bucketVars, ledger, run, losses>>

\* Only a receipt for the ledger's SHA-256 upgrades an entry.
AcceptReceipt(p) ==
    /\ <<p, "tar">> \in receipts
    /\ Logged(p)
    /\ ledger[p].state # "RESTORE_VERIFIED"
    /\ ledger' = [ledger EXCEPT ![p].state = "RESTORE_VERIFIED"]
    /\ UNCHANGED <<archiveVars, now, sealedAt, bucketVars, receipts, run, losses>>
--------------------------------------------------------------------------------
RunStep ==
    \/ StartRun
    \/ \E p \in Partitions :
        Skip(p) \/ Defer(p) \/ Withhold(p) \/ PutCreates(p) \/ PutConflicts(p)
    \/ AppendLedger
    \/ EndRun

Next ==
    \/ ArchiveStep /\ UNCHANGED offsiteVars
    \/ RunStep
    \/ \E p \in Partitions :
        \/ SealPartition(p)
        \/ PutAnswerLost(p)
        \/ PutFails(p)
        \/ LifecycleDeletes(p)
        \/ Drill(p)
        \/ AcceptReceipt(p)
    \/ RunDies
    \/ LoseLedger
    \/ Tick

Spec == Init /\ [][Next]_vars

WriterStep ==
    \E p \in Partitions :
        \/ SealPartition(p)
        \/ (RemoveMarker(p) \/ AbandonPartition(p)) /\ UNCHANGED offsiteVars

\* A partition does not outlive its UTC day, the supervisor's loop compacts, a
\* fleet process is stopped and followed by the next one, and a run, once
\* started, goes on; the timer starts another.
FairSpec ==
    /\ Spec
    /\ WF_vars(WriterStep)
    /\ WF_vars(CompactorStep /\ UNCHANGED offsiteVars)
    /\ WF_vars(Restart /\ UNCHANGED offsiteVars)
    /\ WF_vars(RunStep)
--------------------------------------------------------------------------------
(***************************************************************************)
(* Properties                                                              *)
(***************************************************************************)

(* What the ledger calls UPLOADED or RESTORE_VERIFIED arrived: the bucket  *)
(* holds the partition's tar, or did until its lifecycle deleted it,       *)
(* whichever answers and ledger lines were lost (run_backup,               *)
(* accept_restore_receipt).                                                *)
LedgerNeverOverstates ==
    \A p \in Partitions :
        Logged(p) /\ ledger[p].state # "REMOTE_EXISTS_UNVERIFIED" =>
            bucket[p] = "tar" \/ p \in expired

\* The tars the ledger names and the bucket still holds, but for those that are
\* older than the window less the length of a run: an entry is dated by the start
\* of the run that sent it, and the guard cannot see what has left the window.
Guarded ==
    {p \in Partitions : /\ Logged(p)
                        /\ bucket[p] = "tar"
                        /\ now + MaxRun < storedAt[p] + BudgetWindow}

(* The storage budget holds for every tar that the guard can still see,    *)
(* although its bytes are totalled once, at the start of a run, and dated  *)
(* before they are sent, and although answers and ledgers are lost and the *)
(* bucket deletes at any time after its lifecycle (run_backup).            *)
BucketWithinBudget == Bytes[Guarded] <= Budget

(* History that the bucket's lifecycle deleted is never sent again, not    *)
(* even by a run that finds its ledger lost (run_backup, horizon_days).    *)
NeverResent ==
    [][\A p \in expired : bucket'[p] = "tar" => bucket[p] = "tar"]_vars

(* A partition that was sealed is sent and logged, whatever was            *)
(* interrupted on its way through compaction and upload, unless it passes  *)
(* the horizon or something does not fit the budget (run_backup).          *)
SealedEventuallySent ==
    \A p \in Partitions :
        Finalized(p) ~>
            \/ Logged(p)
            \/ now > sealedAt[p] + Horizon
            \/ \E q \in Partitions : Bytes[InWindow(now) \cup {q}] > Budget
================================================================================
