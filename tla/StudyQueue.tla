------------------------------- MODULE StudyQueue -------------------------------
(***************************************************************************)
(* The trial queue of one Strategy Lab study (strategy_lab_ledger_v1.py)   *)
(* and the workers that drain it (strategy_lab_worker_v1.py).              *)
(*                                                                         *)
(* A worker claims trials in batches under a lease, renews, evaluates and  *)
(* reports one after the other.  Every call of the ledger reads the clock  *)
(* first and then runs one transaction, so a call is two steps here.  Row  *)
(* locks make the transaction of a call atomic.                            *)
(*                                                                         *)
(* Time is relative: `left` is the time to lease_expires_at, `elapsed` the *)
(* time since a worker's last clock reading.                               *)
(***************************************************************************)
EXTENDS Integers, Sequences, FiniteSets

CONSTANTS
    Workers,
    Planned,            \* planned_trial_count: trials are their ordinals
    BatchSize,          \* batch_size of a claim
    Lease,              \* lease_seconds
    MaxWork,            \* an evaluation takes no longer, unless it is delayed
    MaxLatency,         \* a transaction commits within this time of its clock reading
    MaxMishaps,         \* bound on crashes, stops and delayed workers
    MaxRetries,         \* bound on retry_failed
    NoOne

ASSUME StudyAssumption ==
    /\ IsFiniteSet(Workers)
    /\ Planned \in Nat \ {0}
    /\ BatchSize \in Nat \ {0}
    /\ Lease \in Nat \ {0}
    /\ MaxWork \in Nat
    /\ MaxLatency \in Nat
    /\ MaxLatency < Lease
    /\ MaxMishaps \in Nat
    /\ MaxRetries \in Nat
    /\ NoOne \notin Workers

\* An evaluation that starts with half a lease reports before the lease ends.
ASSUME EvaluationsFit == 2 * (MaxWork + MaxLatency) < Lease

VARIABLES
    queue,          \* strategy_lab_trial_queue, a row per trial
    log,            \* strategy_lab_trial_events of each trial, in commit order
    results,        \* strategy_lab_trial_results, at most one row per trial
    pc,             \* where each worker is in run_trial_worker_v1
    batch,          \* the claims of its batch that it has not dealt with
    elapsed,        \* the time since its last clock reading or step
    delayed,        \* whether its current trial has exceeded MaxWork
    mishaps, retries

tables == <<queue, log, results>>
bounds == <<mishaps, retries>>
vars == <<queue, log, results, pc, batch, elapsed, delayed, bounds>>

Trials == 1 .. Planned

\* UNPLANNED: the study is not registered and the row does not exist.
TrialState == {"UNPLANNED", "PENDING", "CLAIMED", "SUCCEEDED", "FAILED", "CANCELLED"}

EventType == {"CLAIMED", "LEASE_EXPIRED", "SUCCEEDED", "FAILED", "RETRY_REQUESTED", "CANCELLED"}

Row == [state : TrialState, attempt : Nat, owner : Workers \cup {NoOne},
        left : (0 - MaxLatency) .. Lease]

Event == [attempt : Nat, kind : EventType, worker : Workers \cup {NoOne}]

Result == [attempt : Nat, worker : Workers \cup {NoOne}]

NoResult == [attempt |-> 0, worker |-> NoOne]

Claim == [trial : Trials, attempt : Nat, left : 0 .. Lease]

\* Between the clock reading of a ledger call and its commit.
Reporting == {"completing", "failing"}
Calling == {"claiming", "renewing"} \cup Reporting

TypeOK ==
    /\ queue \in [Trials -> Row]
    /\ log \in [Trials -> Seq(Event)]
    /\ results \in [Trials -> Result]
    /\ pc \in [Workers -> {"off", "looping", "evaluating"} \cup Calling]
    /\ batch \in [Workers -> SUBSET Claim]
    /\ elapsed \in [Workers -> Nat]
    /\ \A w \in Workers : pc[w] \in Calling => elapsed[w] <= MaxLatency
    /\ delayed \in [Workers -> BOOLEAN]
    /\ mishaps \in 0 .. MaxMishaps
    /\ retries \in 0 .. MaxRetries

Init ==
    /\ queue = [t \in Trials |-> [state |-> "UNPLANNED", attempt |-> 0, owner |-> NoOne, left |-> 0]]
    /\ log = [t \in Trials |-> <<>>]
    /\ results = [t \in Trials |-> NoResult]
    /\ pc = [w \in Workers |-> "off"]
    /\ batch = [w \in Workers |-> {}]
    /\ elapsed = [w \in Workers |-> 0]
    /\ delayed = [w \in Workers |-> FALSE]
    /\ mishaps = 0
    /\ retries = 0

--------------------------------------------------------------------------------
\* Rows and events.

\* A row after an UPDATE that ends its lease.
Released(row, state) == [row EXCEPT !.state = state, !.owner = NoOne, !.left = 0]

\* _event: event_id is made of trial, attempt and event_type.
EventOf(t, kind, worker) == [attempt |-> queue[t].attempt, kind |-> kind, worker |-> worker]

\* lease_expires_at <= now, for a clock reading that is `age` old.
Expired(row, age) == row.left <= 0 - age

\* Mutant of Claimable: a claim with an expired lease is not taken again.
ClaimablePending(t, age) == queue[t].state = "PENDING"

\* The WHERE clause of claim.
Claimable(t, age) ==
    \/ queue[t].state = "PENDING"
    \/ queue[t].state = "CLAIMED" /\ Expired(queue[t], age)

\* c is the claim that a worker deals with: a batch is processed by ordinal.
Current(w, c) == \A d \in batch[w] : c.trial <= d.trial

\* _hold_lease, as of the worker's clock reading.
HoldsLease(w, c) ==
    /\ queue[c.trial].state = "CLAIMED"
    /\ queue[c.trial].attempt = c.attempt
    /\ queue[c.trial].owner = w
    /\ ~Expired(queue[c.trial], elapsed[w])

\* Rows that a refused call of another worker may have locked, until it rolls
\* back: FOR UPDATE SKIP LOCKED passes over them.
Contended(w) ==
    {t \in Trials : \E v \in Workers \ {w} :
        pc[v] \in {"renewing"} \cup Reporting /\ \E c \in batch[v] : Current(v, c) /\ c.trial = t}

--------------------------------------------------------------------------------
\* A worker.

\* The worker's next step is a clock reading, or begins an evaluation.
GoTo(w, place) ==
    /\ pc' = [pc EXCEPT ![w] = place]
    /\ elapsed' = [elapsed EXCEPT ![w] = 0]

\* The worker is done with its current trial.
NextTrial(w, c) ==
    /\ batch' = [batch EXCEPT ![w] = @ \ {c}]
    /\ delayed' = [delayed EXCEPT ![w] = FALSE]
    /\ GoTo(w, "looping")

\* run_trial_worker_v1 up to its loop: register_study inserts the rows of an
\* unknown study and leaves those of a known one alone.
Start(w) ==
    /\ pc[w] = "off"
    /\ queue' = [t \in Trials |->
            IF queue[t].state = "UNPLANNED" THEN [queue[t] EXCEPT !.state = "PENDING"] ELSE queue[t]]
    /\ GoTo(w, "looping")
    /\ UNCHANGED <<log, results, batch, delayed, bounds>>

\* claim reads the clock.
BeginClaim(w) ==
    /\ pc[w] = "looping"
    /\ batch[w] = {}
    /\ GoTo(w, "claiming")
    /\ UNCHANGED <<tables, batch, delayed, bounds>>

\* The first BatchSize trials of a set, by ordinal.
FirstOf(S) == {t \in S : Cardinality({u \in S : u < t}) < BatchSize}

\* The trials that claim picks when it passes over the locked rows `skipped`.
Picked(w, skipped) == FirstOf({t \in Trials : Claimable(t, elapsed[w])} \ skipped)

ClaimedRow(w, row) ==
    [state |-> "CLAIMED", attempt |-> row.attempt + 1, owner |-> w, left |-> Lease - elapsed[w]]

\* Mutant of ClaimedLog: the event of the abandoned attempt is numbered like
\* the new one.
ClaimedLogNewAttempt(w, t) ==
    LET next == queue[t].attempt + 1
        abandoned == IF queue[t].state = "CLAIMED"
                     THEN Append(log[t], [attempt |-> next, kind |-> "LEASE_EXPIRED", worker |-> queue[t].owner])
                     ELSE log[t]
    IN  Append(abandoned, [attempt |-> next, kind |-> "CLAIMED", worker |-> w])

\* The events of a trial that claim picks: an expired lease ends the abandoned
\* attempt, then the new one is recorded.
ClaimedLog(w, t) ==
    LET abandoned == IF queue[t].state = "CLAIMED"
                     THEN Append(log[t], EventOf(t, "LEASE_EXPIRED", queue[t].owner))
                     ELSE log[t]
    IN  Append(abandoned, [attempt |-> queue[t].attempt + 1, kind |-> "CLAIMED", worker |-> w])

ClaimBatch(w) ==
    /\ pc[w] = "claiming"
    /\ \E skipped \in SUBSET Contended(w) :
         LET picked == Picked(w, skipped)
         IN  /\ picked # {}
             /\ queue' = [t \in Trials |-> IF t \in picked THEN ClaimedRow(w, queue[t]) ELSE queue[t]]
             /\ log' = [t \in Trials |-> IF t \in picked THEN ClaimedLog(w, t) ELSE log[t]]
             /\ batch' = [batch EXCEPT ![w] =
                    {[trial |-> t, attempt |-> queue[t].attempt + 1, left |-> Lease - elapsed[w]] : t \in picked}]
    /\ GoTo(w, "looping")
    /\ UNCHANGED <<results, delayed, bounds>>

\* Nothing is claimable: the worker returns its report.
Drained(w) ==
    /\ pc[w] = "claiming"
    /\ \E skipped \in SUBSET Contended(w) : Picked(w, skipped) = {}
    /\ GoTo(w, "off")
    /\ UNCHANGED <<tables, batch, delayed, bounds>>

\* Mutant of TakeTrial: the lease is never looked at before an evaluation.
TakeTrialUnrenewed(w, c) ==
    /\ pc[w] = "looping"
    /\ GoTo(w, "evaluating")
    /\ UNCHANGED <<tables, batch, delayed, bounds>>

\* _renew_if_needed: less than half of the lease is left by the claim's own
\* lease_expires_at.
TakeTrial(w, c) ==
    /\ pc[w] = "looping"
    /\ GoTo(w, IF 2 * c.left < Lease THEN "renewing" ELSE "evaluating")
    /\ UNCHANGED <<tables, batch, delayed, bounds>>

\* Mutant of Renew: the lease is prolonged instead of counted from now.
RenewProlonged(w, c) ==
    LET left == queue[c.trial].left + Lease
    IN  /\ pc[w] = "renewing"
        /\ HoldsLease(w, c)
        /\ queue' = [queue EXCEPT ![c.trial].left = left]
        /\ batch' = [batch EXCEPT ![w] = (@ \ {c}) \cup {[c EXCEPT !.left = left]}]
        /\ GoTo(w, "evaluating")
        /\ UNCHANGED <<log, results, delayed, bounds>>

Renew(w, c) ==
    LET left == Lease - elapsed[w]
    IN  /\ pc[w] = "renewing"
        /\ HoldsLease(w, c)
        /\ queue' = [queue EXCEPT ![c.trial].left = left]
        /\ batch' = [batch EXCEPT ![w] = (@ \ {c}) \cup {[c EXCEPT !.left = left]}]
        /\ GoTo(w, "evaluating")
        /\ UNCHANGED <<log, results, delayed, bounds>>

\* _evaluate returns an evaluation or the reason of a failure; complete or
\* fail reads the clock.
Evaluated(w) ==
    /\ pc[w] = "evaluating"
    /\ \E call \in Reporting : GoTo(w, call)
    /\ UNCHANGED <<tables, batch, delayed, bounds>>

\* Mutant of Complete: the result is stored without the lease.
CompleteUnheld(w, c) ==
    /\ pc[w] = "completing"
    /\ results' = [results EXCEPT ![c.trial] = [attempt |-> c.attempt, worker |-> w]]
    /\ queue' = [queue EXCEPT ![c.trial] =
            IF @.state = "CANCELLED" THEN @ ELSE Released(@, "SUCCEEDED")]
    /\ log' = [log EXCEPT ![c.trial] = Append(@, EventOf(c.trial, "SUCCEEDED", w))]
    /\ NextTrial(w, c)
    /\ UNCHANGED bounds

Complete(w, c) ==
    /\ pc[w] = "completing"
    /\ HoldsLease(w, c)
    /\ results' = [results EXCEPT ![c.trial] = [attempt |-> c.attempt, worker |-> w]]
    /\ queue' = [queue EXCEPT ![c.trial] = Released(@, "SUCCEEDED")]
    /\ log' = [log EXCEPT ![c.trial] = Append(@, EventOf(c.trial, "SUCCEEDED", w))]
    /\ NextTrial(w, c)
    /\ UNCHANGED bounds

Fail(w, c) ==
    /\ pc[w] = "failing"
    /\ HoldsLease(w, c)
    /\ queue' = [queue EXCEPT ![c.trial] = Released(@, "FAILED")]
    /\ log' = [log EXCEPT ![c.trial] = Append(@, EventOf(c.trial, "FAILED", w))]
    /\ NextTrial(w, c)
    /\ UNCHANGED <<results, bounds>>

\* lease_lost or lease_expired: the trial is counted as lost and passed over.
LoseLease(w, c) ==
    /\ pc[w] \in {"renewing"} \cup Reporting
    /\ ~HoldsLease(w, c)
    /\ NextTrial(w, c)
    /\ UNCHANGED <<tables, bounds>>

\* The run ends and leaves its claims to lease expiry.
LeaveClaims(w) ==
    /\ mishaps < MaxMishaps
    /\ mishaps' = mishaps + 1
    /\ batch' = [batch EXCEPT ![w] = {}]
    /\ delayed' = [delayed EXCEPT ![w] = FALSE]
    /\ GoTo(w, "off")
    /\ UNCHANGED <<tables, retries>>

\* should_stop, before a claim, before a trial, and after the evaluation of an
\* evaluator that has a batch scope.
Stop(w) == pc[w] \in {"looping", "evaluating"} /\ LeaveClaims(w)

\* The process dies; a transaction that has not committed is rolled back.
Crash(w) == pc[w] # "off" /\ LeaveClaims(w)

TrialStep(w, c) == TakeTrial(w, c) \/ Renew(w, c) \/ Complete(w, c) \/ Fail(w, c) \/ LoseLease(w, c)

WorkerStep(w) ==
    \/ BeginClaim(w)
    \/ ClaimBatch(w)
    \/ Drained(w)
    \/ Evaluated(w)
    \/ \E c \in batch[w] : Current(w, c) /\ TrialStep(w, c)

--------------------------------------------------------------------------------
\* Operator commands and time.

RetryFailed ==
    LET retried == {t \in Trials : queue[t].state = "FAILED"}
    IN  /\ retries < MaxRetries
        /\ retried # {}
        /\ retries' = retries + 1
        /\ queue' = [t \in Trials |-> IF t \in retried THEN [queue[t] EXCEPT !.state = "PENDING"] ELSE queue[t]]
        /\ log' = [t \in Trials |->
                IF t \in retried THEN Append(log[t], EventOf(t, "RETRY_REQUESTED", NoOne)) ELSE log[t]]
        /\ UNCHANGED <<results, pc, batch, elapsed, delayed, mishaps>>

CancelStudy ==
    LET cancelled == {t \in Trials : queue[t].state \in {"PENDING", "CLAIMED", "FAILED"}}
    IN  /\ cancelled # {}
        /\ queue' = [t \in Trials |-> IF t \in cancelled THEN Released(queue[t], "CANCELLED") ELSE queue[t]]
        /\ log' = [t \in Trials |->
                IF t \in cancelled THEN Append(log[t], EventOf(t, "CANCELLED", NoOne)) ELSE log[t]]
        /\ UNCHANGED <<results, pc, batch, elapsed, delayed, bounds>>

\* A worker that waits for no transaction and has a trial in hand.
Working(w) ==
    \/ pc[w] = "evaluating"
    \/ pc[w] = "looping" /\ batch[w] # {}

\* How long a worker stays where it is, unless it is delayed: between two
\* trials of a batch no time passes.
Limit(w) == CASE pc[w] = "evaluating" -> MaxWork
              [] pc[w] = "looping" -> 0
              [] OTHER -> MaxLatency

\* The workers that one more unit of time delays: a process that is suspended
\* between two trials, or an evaluation that takes too long.
Delayed == {w \in Workers : Working(w) /\ elapsed[w] = Limit(w)}

Later(left, least) == IF left > least THEN left - 1 ELSE left

\* Time passes.  A worker that has nothing to do, or is already delayed, is not
\* timed.
Tick ==
    /\ \A w \in Workers : pc[w] \in Calling => elapsed[w] < MaxLatency
    /\ mishaps + Cardinality(Delayed) <= MaxMishaps
    /\ mishaps' = mishaps + Cardinality(Delayed)
    /\ queue' = [t \in Trials |->
            IF queue[t].state = "CLAIMED" THEN [queue[t] EXCEPT !.left = Later(@, 0 - MaxLatency)] ELSE queue[t]]
    /\ batch' = [w \in Workers |-> {[c EXCEPT !.left = Later(@, 0)] : c \in batch[w]}]
    /\ elapsed' = [w \in Workers |->
            IF pc[w] \in Calling \/ (Working(w) /\ elapsed[w] <= Limit(w)) THEN elapsed[w] + 1 ELSE elapsed[w]]
    /\ delayed' = [w \in Workers |-> delayed[w] \/ (w \in Delayed /\ pc[w] = "evaluating")]
    /\ UNCHANGED <<log, results, pc, retries>>

Next ==
    \/ \E w \in Workers : Start(w) \/ WorkerStep(w) \/ Stop(w) \/ Crash(w)
    \/ RetryFailed
    \/ CancelStudy
    \/ Tick

Spec == Init /\ [][Next]_vars

\* A worker that runs goes on, time passes, and the study is run again.
FairSpec ==
    /\ Spec
    /\ \A w \in Workers : WF_vars(WorkerStep(w)) /\ WF_vars(Start(w))
    /\ SF_vars(Tick)

--------------------------------------------------------------------------------
\* Properties.

\* The attempts of which there is an event of a kind.
Attempts(events, kind) == {events[i].attempt : i \in {j \in DOMAIN events : events[j].kind = kind}}

\* event_id is a primary key made of trial, attempt and type.
EventIdsDistinct(events) ==
    \A i, j \in DOMAIN events :
        events[i].attempt = events[j].attempt /\ events[i].kind = events[j].kind => i = j

\* What the events of a trial say when its row has this state and attempt.
Accounted(last, state, events) ==
    LET lost == Attempts(events, "LEASE_EXPIRED")
        failed == Attempts(events, "FAILED")
        retried == Attempts(events, "RETRY_REQUESTED")
    IN  /\ EventIdsDistinct(events)
        /\ Attempts(events, "CLAIMED") = 1 .. last
        /\ lost \subseteq 1 .. (last - 1)
        /\ failed \subseteq 1 .. last
        /\ lost \cap failed = {}
        /\ retried \subseteq failed
        /\ 1 .. (last - 1) \subseteq lost \cup retried
        /\ \A a \in failed \ retried : a = last /\ state \in {"FAILED", "CANCELLED"}
        /\ state = "UNPLANNED" => last = 0
        /\ state = "CLAIMED" => last > 0
        /\ state = "FAILED" => last \in failed \ retried
        /\ state = "PENDING" => last = 0 \/ last \in retried
        /\ last \in retried => state \in {"PENDING", "CANCELLED"}
        /\ Attempts(events, "SUCCEEDED") = (IF state = "SUCCEEDED" THEN {last} ELSE {})
        /\ Attempts(events, "CANCELLED") = (IF state = "CANCELLED" THEN {last} ELSE {})

\* The evidence accounts for every attempt: no two events share an identifier,
\* each attempt was claimed, each one but the last either lost its lease or
\* failed and was retried, never both, and the last one ended as the queue says
\* (_event, claim, complete, fail, retry_failed, cancel_study).
AttemptsAccounted == \A t \in Trials : Accounted(queue[t].attempt, queue[t].state, log[t])

\* A trial has a result exactly when it has succeeded, and the result is that
\* of its last attempt by the worker to whom that attempt was given: a worker
\* that lost its lease to a reclaim or a cancellation leaves nothing behind
\* (complete, _hold_lease).
ResultIsOfHolder ==
    \A t \in Trials :
        /\ results[t] # NoResult <=> queue[t].state = "SUCCEEDED"
        /\ queue[t].state = "SUCCEEDED" =>
               /\ results[t].attempt = queue[t].attempt
               /\ \E i \in DOMAIN log[t] :
                      log[t][i] = [attempt |-> results[t].attempt, kind |-> "CLAIMED",
                                   worker |-> results[t].worker]

\* Work is not wasted: while an evaluation that is not delayed runs and
\* reports, its lease lasts and is not taken by another worker; only the
\* cancellation of the study makes it void (_renew_if_needed, claim).
LeaseOutlastsWork ==
    \A w \in Workers : \A c \in batch[w] :
        pc[w] \in {"evaluating"} \cup Reporting /\ ~delayed[w] /\ Current(w, c) =>
            LET row == queue[c.trial]
            IN  \/ row.state = "CANCELLED"
                \/ row.state = "CLAIMED" /\ row.attempt = c.attempt /\ row.owner = w /\ row.left > 0

\* Rerunning the workers finishes the study: whatever they leave behind when
\* they die, stop or are delayed is claimed again, until every trial has
\* succeeded, failed or been cancelled (run_trial_worker_v1, claim).
StudySettles == <>[](\A t \in Trials : queue[t].state \in {"SUCCEEDED", "FAILED", "CANCELLED"})
================================================================================
