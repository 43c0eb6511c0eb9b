----------------------------- MODULE JobScheduler -----------------------------
(***************************************************************************)
(* The scheduler worker processes (worker_app.WorkerRuntime running        *)
(* scheduler.SchedulerWorker) and the PostgreSQL state they share: the     *)
(* approved job policies, the terminal run records, the session advisory   *)
(* locks and the operational alerts.                                       *)
(*                                                                         *)
(* A worker step is one database transaction or one clock reading: between *)
(* any two of them another worker may act, the worker may crash, and       *)
(* PostgreSQL may end the worker's session.  A worker opens one connection *)
(* when it starts and never another one (persistence.PostgresDatabase), so *)
(* a worker that has lost its session lives on, and every transaction it   *)
(* tries fails.                                                            *)
(***************************************************************************)
EXTENDS Integers, FiniteSets, OperationalAlerts

CONSTANTS
    Workers,        \* worker processes
    Jobs,           \* job names; a job name is a number, ordered as the names are
    MonitorJob,     \* the job whose runner is run_operational_job_monitor
    Registered,     \* the job names that have a runner in the registry
    Policies,       \* policy_id of every policy version that may be approved; ids are ordered
    JobOf,          \* job_name of a policy
    Interval,       \* interval_seconds of a policy
    Grace,          \* grace_seconds of a policy
    Enabled,        \* the enabled flag of a policy
    ApprovalTimes,  \* bound: the approved_at values an operator may give
    WatchedJobs,    \* bound: the jobs whose alerts an operator works on
    MaxTime,        \* bound on the clock
    MaxEnds,        \* bound on sessions that end, with their worker or without
    MaxFaults       \* bound on transactions that fail on a session that lives on

ASSUME ConstantsAssumption ==
    /\ Jobs \subseteq Nat
    /\ MonitorJob \in Nat
    /\ Registered \subseteq Jobs
    /\ WatchedJobs \subseteq Jobs
    /\ Policies \subseteq Nat
    /\ JobOf \in [Policies -> Jobs]
    /\ Interval \in [Policies -> Nat \ {0}]
    /\ Grace \in [Policies -> Nat]
    /\ Enabled \in [Policies -> BOOLEAN]
    /\ MaxTime \in Nat
    /\ ApprovalTimes \subseteq 0 .. MaxTime
    /\ MaxEnds \in Nat
    /\ MaxFaults \in Nat

VARIABLES
    now,            \* the clock every process reads (utc_now)
    approvedAt,     \* operational_job_policy_versions
    runs,           \* operational_job_runs
    locks,          \* session advisory locks
    alerts,         \* operational_alerts, by fingerprint
    pc,             \* where each worker is
    lost,           \* the live workers whose PostgreSQL session has ended
    asOf,           \* the as_of of the worker's current tick
    pending,        \* due states of the tick not reached yet
    current,        \* the due state being executed: none or one
    completedAt,    \* clock reading after the runner
    outcome,        \* status of the finished runner
    ends,           \* sessions that have ended so far
    faults          \* failed transactions so far

dbVars == <<approvedAt, runs, locks, alerts>>
workVars == <<asOf, pending, current, completedAt, outcome>>
envVars == <<now, lost, ends, faults>>
vars == <<now, approvedAt, runs, locks, alerts, pc, lost, asOf, pending, current,
          completedAt, outcome, ends, faults>>

--------------------------------------------------------------------------------
Times == 0 .. MaxTime

NotApproved == -1

\* The last instant a due date can fall on: every interval ends by then.
DueTimes == UNION {{t + Interval[p] : t \in Times} : p \in Policies}

RunStatus == {"SUCCEEDED", "FAILED"}

\* OperationalJobRun.  The idempotency key of the code is the policy, scheduled_for
\* and started_at in microseconds, which tells any two attempts apart; here the
\* worker and completed_at do.
Run == [policy: Policies, scheduledFor: DueTimes,
        completedAt: Times, status: RunStatus, by: Workers]

\* OperationalJobDueState of a due job.
DueState == [policy: Policies, dueAt: DueTimes]

\* One held advisory lock: the key (job_name, due_at) and the session.
Lock == [job: Jobs, dueAt: DueTimes, holder: Workers]

Fingerprints == {"FAILED", "OVERDUE"} \X Jobs

PC == {"idle", "reading", "ticking", "running", "returned",
       "recorded", "releasing", "aborting", "down"}

\* The states of a worker between a granted claim and its release.
Executing == {"running", "returned", "recorded", "releasing", "aborting"}

TypeOK ==
    /\ now \in Times
    /\ approvedAt \in [Policies -> Times \cup {NotApproved}]
    /\ runs \subseteq Run
    /\ locks \subseteq Lock
    /\ alerts \in [Fingerprints -> Alert]
    /\ pc \in [Workers -> PC]
    /\ lost \subseteq Workers
    /\ asOf \in [Workers -> Times]
    /\ pending \in [Workers -> SUBSET DueState]
    /\ current \in [Workers -> SUBSET DueState]
    /\ completedAt \in [Workers -> Times]
    /\ outcome \in [Workers -> RunStatus]
    /\ ends \in 0 .. MaxEnds
    /\ faults \in 0 .. MaxFaults

--------------------------------------------------------------------------------
\* The due state (_due_jobs and evaluate_job_due).

ApprovedBy(p, t) == approvedAt[p] # NotApproved /\ approvedAt[p] <= t

\* The policy version in force for its job: of those approved by t, the one
\* approved last, and of two approved together the one with the larger id.
InForce(p, t) ==
    /\ ApprovedBy(p, t)
    /\ \A q \in Policies :
          (JobOf[q] = JobOf[p] /\ ApprovedBy(q, t)) =>
              \/ approvedAt[q] < approvedAt[p]
              \/ approvedAt[q] = approvedAt[p] /\ q <= p

\* Mutant of Successes: a success at the instant of the evaluation is missed.
SuccessesBefore(p, t) ==
    {r.completedAt : r \in {r \in runs : /\ r.policy = p
                                         /\ r.status = "SUCCEEDED"
                                         /\ r.completedAt < t}}

Successes(p, t) ==
    {r.completedAt : r \in {r \in runs : /\ r.policy = p
                                         /\ r.status = "SUCCEEDED"
                                         /\ r.completedAt <= t}}

\* b is the instant the interval counts from: the newest success of the
\* policy, or its approval when it has none.
IsBase(p, t, b) ==
    \/ b \in Successes(p, t) /\ \A c \in Successes(p, t) : c <= b
    \/ Successes(p, t) = {} /\ b = approvedAt[p]

IsDueAt(p, t, d) == \E b \in Times : IsBase(p, t, b) /\ d = b + Interval[p]

DueStates(t) ==
    {s \in DueState : /\ InForce(s.policy, t)
                      /\ Enabled[s.policy]
                      /\ IsDueAt(s.policy, t, s.dueAt)
                      /\ t >= s.dueAt}

Overdue(j, t) ==
    \E s \in DueStates(t) : JobOf[s.policy] = j /\ t > s.dueAt + Grace[s.policy]

Monitored(j, t) == \E p \in Policies : JobOf[p] = j /\ InForce(p, t)

\* Mutant of MonitorOverdue: alerts that moved after t are resolved as well.
MonitorOverdueAnyTime(t) ==
    [f \in Fingerprints |->
        IF f[1] # "OVERDUE" \/ ~Monitored(f[2], t) THEN alerts[f]
        ELSE IF Overdue(f[2], t) THEN RaiseAlert(alerts[f], t)
        ELSE IF Active(alerts[f])
             THEN TransitionAlert(alerts[f], "RESOLVED", t)
             ELSE alerts[f]]

\* monitor_overdue, in one transaction: raise the overdue alert of every
\* overdue job, resolve it for the others unless it moved after t.
MonitorOverdue(t) ==
    [f \in Fingerprints |->
        IF f[1] # "OVERDUE" \/ ~Monitored(f[2], t) THEN alerts[f]
        ELSE IF Overdue(f[2], t) THEN RaiseAlert(alerts[f], t)
        ELSE IF CanTransition(alerts[f], "RESOLVED", t)
             THEN TransitionAlert(alerts[f], "RESOLVED", t)
             ELSE alerts[f]]

--------------------------------------------------------------------------------
Init ==
    /\ now = 0
    /\ approvedAt = [p \in Policies |-> NotApproved]
    /\ runs = {}
    /\ locks = {}
    /\ alerts = [f \in Fingerprints |-> NeverRaised]
    /\ pc = [w \in Workers |-> "idle"]
    /\ asOf = [w \in Workers |-> 0]
    /\ pending = [w \in Workers |-> {}]
    /\ current = [w \in Workers |-> {}]
    /\ completedAt = [w \in Workers |-> 0]
    /\ outcome = [w \in Workers |-> "SUCCEEDED"]
    /\ lost = {}
    /\ ends = 0
    /\ faults = 0

--------------------------------------------------------------------------------
\* The environment: the clock, and the operator who approves policy versions
\* and works on alerts.

Tick ==
    /\ now < MaxTime
    /\ now' = now + 1
    /\ UNCHANGED <<dbVars, pc, lost, workVars, ends, faults>>

\* append_policy of a new version.  approved_at is the operator's, so it may lie
\* in the past or in the future; a second append of a version changes nothing.
AppendPolicy(p, t) ==
    /\ approvedAt[p] = NotApproved
    /\ approvedAt' = [approvedAt EXCEPT ![p] = t]
    /\ UNCHANGED <<runs, locks, alerts, pc, workVars, envVars>>

\* PostgresOperationalAlertStore.transition by an operator, at the current time.
OperatorTransition(f, status) ==
    /\ CanTransition(alerts[f], status, now)
    /\ alerts' = [alerts EXCEPT ![f] = TransitionAlert(@, status, now)]
    /\ UNCHANGED <<approvedAt, runs, locks, pc, workVars, envVars>>

--------------------------------------------------------------------------------
\* The worker loop (WorkerRuntime._loop) and one tick (SchedulerWorker.run_tick).

Goto(w, label) == pc' = [pc EXCEPT ![w] = label]

\* A transaction of the worker can commit.
Connected(w) == w \notin lost

\* A transaction of the worker fails: every one does once its session has ended,
\* and at most MaxFaults on sessions that live on.
TransactionFails(w) ==
    /\ \/ ~Connected(w) /\ UNCHANGED faults
       \/ Connected(w) /\ faults < MaxFaults /\ faults' = faults + 1
    /\ UNCHANGED <<now, lost, ends>>

\* The locals of _execute and of run_tick go out of scope.
LeaveExecute(w) ==
    /\ current' = [current EXCEPT ![w] = {}]
    /\ completedAt' = [completedAt EXCEPT ![w] = 0]
    /\ outcome' = [outcome EXCEPT ![w] = "SUCCEEDED"]

LeaveTick(w) ==
    /\ asOf' = [asOf EXCEPT ![w] = 0]
    /\ pending' = [pending EXCEPT ![w] = {}]

\* Mutant of Wake: as_of is rounded up to the next instant.
WakeRoundedUp(w) ==
    /\ pc[w] = "idle"
    /\ asOf' = [asOf EXCEPT ![w] = now + 1]
    /\ Goto(w, "reading")
    /\ UNCHANGED <<dbVars, pending, current, completedAt, outcome, envVars>>

\* as_of = utc_now(), read before the database is.
Wake(w) ==
    /\ pc[w] = "idle"
    /\ asOf' = [asOf EXCEPT ![w] = now]
    /\ Goto(w, "reading")
    /\ UNCHANGED <<dbVars, pending, current, completedAt, outcome, envVars>>

\* Mutant of ReadDue: a tick serves only the first due job.
ReadDueFirstOnly(w) ==
    /\ pc[w] = "reading"
    /\ Connected(w)
    /\ pending' = [pending EXCEPT ![w] =
                     {s \in DueStates(asOf[w]) :
                        /\ JobOf[s.policy] \in Registered
                        /\ \A r \in DueStates(asOf[w]) : JobOf[s.policy] <= JobOf[r.policy]}]
    /\ Goto(w, "ticking")
    /\ UNCHANGED <<dbVars, asOf, current, completedAt, outcome, envVars>>

\* due_jobs(as_of): the one read of the due state that the whole tick uses.
ReadDue(w) ==
    /\ pc[w] = "reading"
    /\ Connected(w)
    /\ pending' = [pending EXCEPT ![w] =
                     {s \in DueStates(asOf[w]) : JobOf[s.policy] \in Registered}]
    /\ Goto(w, "ticking")
    /\ UNCHANGED <<dbVars, asOf, current, completedAt, outcome, envVars>>

\* The read raises: the tick has failed and the loop sleeps.
DueReadFails(w) ==
    /\ pc[w] = "reading"
    /\ TransactionFails(w)
    /\ LeaveTick(w)
    /\ Goto(w, "idle")
    /\ UNCHANGED <<dbVars, current, completedAt, outcome>>

\* Rows come back ordered by job name.
IsNext(w, s) ==
    /\ s \in pending[w]
    /\ \A r \in pending[w] : JobOf[s.policy] <= JobOf[r.policy]

\* Mutant of Free: the result of pg_try_advisory_lock is ignored.
FreeUnchecked(w, s) == TRUE

\* pg_try_advisory_lock succeeds when no other session holds the key.
Free(w, s) ==
    \A l \in locks :
        (l.job = JobOf[s.policy] /\ l.dueAt = s.dueAt) => l.holder = w

LockOf(w, s) == [job |-> JobOf[s.policy], dueAt |-> s.dueAt, holder |-> w]

TryClaim(w, s) ==
    /\ pc[w] = "ticking"
    /\ Connected(w)
    /\ IsNext(w, s)
    /\ Free(w, s)
    /\ locks' = locks \cup {LockOf(w, s)}
    /\ pending' = [pending EXCEPT ![w] = @ \ {s}]
    /\ current' = [current EXCEPT ![w] = {s}]
    /\ Goto(w, "running")
    /\ UNCHANGED <<approvedAt, runs, alerts, asOf, completedAt, outcome, envVars>>

\* The claim is refused: the occurrence is skipped for this tick.
SkipClaim(w, s) ==
    /\ pc[w] = "ticking"
    /\ Connected(w)
    /\ IsNext(w, s)
    /\ ~Free(w, s)
    /\ pending' = [pending EXCEPT ![w] = @ \ {s}]
    /\ UNCHANGED <<dbVars, pc, asOf, current, completedAt, outcome, envVars>>

\* _try_claim raises, outside the try of run_tick: the rest of the tick is lost.
ClaimFails(w) ==
    /\ pc[w] = "ticking"
    /\ pending[w] # {}
    /\ TransactionFails(w)
    /\ LeaveTick(w)
    /\ Goto(w, "idle")
    /\ UNCHANGED <<dbVars, current, completedAt, outcome>>

EndTick(w) ==
    /\ pc[w] = "ticking"
    /\ pending[w] = {}
    /\ LeaveTick(w)
    /\ Goto(w, "idle")
    /\ UNCHANGED <<dbVars, current, completedAt, outcome, envVars>>

--------------------------------------------------------------------------------
\* SchedulerWorker._execute.

\* The runner returns or raises, and completed_at = clock().  The monitor's
\* runner commits monitor_overdue(as_of) first, for which it needs the session;
\* a runner that raises commits nothing of it.  The effects of the other runners
\* are not modelled here.
RunnerReturns(w, status) ==
    /\ pc[w] = "running"
    /\ (status = "SUCCEEDED" /\ \E s \in current[w] : JobOf[s.policy] = MonitorJob)
          => Connected(w)
    /\ outcome' = [outcome EXCEPT ![w] = status]
    /\ completedAt' = [completedAt EXCEPT ![w] = now]
    /\ alerts' = IF /\ status = "SUCCEEDED"
                    /\ \E s \in current[w] : JobOf[s.policy] = MonitorJob
                 THEN MonitorOverdue(asOf[w])
                 ELSE alerts
    /\ Goto(w, "returned")
    /\ UNCHANGED <<approvedAt, runs, locks, asOf, pending, current, envVars>>

RunOf(w, s) ==
    [policy |-> s.policy, scheduledFor |-> s.dueAt,
     completedAt |-> completedAt[w], status |-> outcome[w], by |-> w]

\* append_run
AppendRun(w) ==
    /\ pc[w] = "returned"
    /\ Connected(w)
    /\ runs' = runs \cup {RunOf(w, s) : s \in current[w]}
    /\ Goto(w, IF outcome[w] = "FAILED" THEN "recorded" ELSE "releasing")
    /\ UNCHANGED <<approvedAt, locks, alerts, workVars, envVars>>

\* raise_alert for a FAILED run, dated as_of.
RaiseFailureAlert(w) ==
    /\ pc[w] = "recorded"
    /\ Connected(w)
    /\ alerts' = [f \in Fingerprints |->
                    IF \E s \in current[w] : f = <<"FAILED", JobOf[s.policy]>>
                    THEN RaiseAlert(alerts[f], asOf[w])
                    ELSE alerts[f]]
    /\ Goto(w, "releasing")
    /\ UNCHANGED <<approvedAt, runs, locks, workVars, envVars>>

\* append_run or raise_alert raises (a lost session, a failed transaction or an
\* idempotency conflict): the exception leaves _execute through the finally
\* clause.
EvidenceFails(w) ==
    /\ pc[w] \in {"returned", "recorded"}
    /\ TransactionFails(w)
    /\ Goto(w, "aborting")
    /\ UNCHANGED <<dbVars, workVars>>

\* _release in the finally clause, and the loop goes on to the next due state.
Release(w) ==
    /\ pc[w] = "releasing"
    /\ Connected(w)
    /\ locks' = locks \ {LockOf(w, s) : s \in current[w]}
    /\ LeaveExecute(w)
    /\ Goto(w, "ticking")
    /\ UNCHANGED <<approvedAt, runs, alerts, asOf, pending, envVars>>

\* Mutant of ReleaseAndAbort: the lock is released only when nothing was raised.
AbortWithoutRelease(w) ==
    /\ pc[w] = "aborting"
    /\ Connected(w)
    /\ LeaveExecute(w)
    /\ LeaveTick(w)
    /\ Goto(w, "idle")
    /\ UNCHANGED <<dbVars, envVars>>

\* The same release while an exception is on its way out of run_tick: the due
\* states not reached yet wait for the next tick.
ReleaseAndAbort(w) ==
    /\ pc[w] = "aborting"
    /\ Connected(w)
    /\ locks' = locks \ {LockOf(w, s) : s \in current[w]}
    /\ LeaveExecute(w)
    /\ LeaveTick(w)
    /\ Goto(w, "idle")
    /\ UNCHANGED <<approvedAt, runs, alerts, envVars>>

\* _release raises in the finally clause, because the session has ended and its
\* locks with it: the tick fails, whatever _execute had done.
ReleaseFails(w) ==
    /\ pc[w] \in {"releasing", "aborting"}
    /\ ~Connected(w)
    /\ LeaveExecute(w)
    /\ LeaveTick(w)
    /\ Goto(w, "idle")
    /\ UNCHANGED <<dbVars, envVars>>

--------------------------------------------------------------------------------
\* A worker dies anywhere; PostgreSQL ends its session, and with it every
\* advisory lock the session holds.
Crash(w) ==
    /\ pc[w] # "down"
    /\ ends < MaxEnds
    /\ ends' = ends + 1
    /\ locks' = {l \in locks : l.holder # w}
    /\ lost' = lost \ {w}
    /\ LeaveExecute(w)
    /\ LeaveTick(w)
    /\ Goto(w, "down")
    /\ UNCHANGED <<approvedAt, runs, alerts, now, faults>>

\* A new process opens a new session.
Restart(w) ==
    /\ pc[w] = "down"
    /\ Goto(w, "idle")
    /\ UNCHANGED <<dbVars, workVars, envVars>>

\* PostgreSQL ends the session of a live worker (a restart of the server, a
\* terminated backend): its advisory locks are free at once, and the worker goes
\* on with what it was doing until its next transaction fails.
LoseSession(w) ==
    /\ pc[w] # "down"
    /\ Connected(w)
    /\ ends < MaxEnds
    /\ ends' = ends + 1
    /\ lost' = lost \cup {w}
    /\ locks' = {l \in locks : l.holder # w}
    /\ UNCHANGED <<approvedAt, runs, alerts, pc, workVars, now, faults>>

--------------------------------------------------------------------------------
\* What a live worker does next: it sleeps, reads, claims, executes and releases,
\* or finds that one of these fails.
WorkerStep(w) ==
    \/ Wake(w)
    \/ ReadDue(w) \/ DueReadFails(w)
    \/ \E s \in DueState : TryClaim(w, s) \/ SkipClaim(w, s)
    \/ ClaimFails(w)
    \/ EndTick(w)
    \/ \E status \in RunStatus : RunnerReturns(w, status)
    \/ AppendRun(w)
    \/ RaiseFailureAlert(w)
    \/ EvidenceFails(w)
    \/ Release(w)
    \/ ReleaseAndAbort(w)
    \/ ReleaseFails(w)

Next ==
    \/ Tick
    \/ \E p \in Policies, t \in ApprovalTimes : AppendPolicy(p, t)
    \/ \E kind \in {"FAILED", "OVERDUE"}, j \in WatchedJobs, status \in AlertStatus :
          OperatorTransition(<<kind, j>>, status)
    \/ \E w \in Workers :
          \/ WorkerStep(w)
          \/ Crash(w)
          \/ Restart(w)
          \/ LoseSession(w)

Spec == Init /\ [][Next]_vars

\* The event loop of a live worker keeps polling, every runner returns in the
\* end, and the deployment restarts a dead worker.  Nothing restarts a worker
\* that lives without a session: /health/live and /health/ready stay good.
FairSpec ==
    /\ Spec
    /\ \A w \in Workers : WF_vars(WorkerStep(w)) /\ WF_vars(Restart(w))

--------------------------------------------------------------------------------
\* Properties.

\* Mutual exclusion (_try_claim .. _release): of the workers between claim and
\* release of one due occurrence of a job at most one still has its session.  The
\* others lost theirs, and their lock with it, while they executed: another worker
\* may have claimed the occurrence since, but they can record and resolve nothing.
OneExecutorPerOccurrence ==
    \A v, w \in Workers \ lost :
        \A s \in current[v], r \in current[w] :
            (JobOf[s.policy] = JobOf[r.policy] /\ s.dueAt = r.dueAt) => v = w

\* No advisory lock outlives its use: whoever holds one has its session and is
\* executing the occurrence it names.  A crash, a lost session, a failed claim, a
\* failed runner and a failed append_run or raise_alert all give the lock back.
NoLeakedLock ==
    \A l \in locks :
        /\ Connected(l.holder)
        /\ pc[l.holder] \in Executing
        /\ \E s \in current[l.holder] : l = LockOf(l.holder, s)

\* A worker process records at most one success of an occurrence: its next tick
\* reads a due date that starts from that success (_due_jobs, evaluate_job_due),
\* whatever other workers recorded in between.
OneSuccessPerWorker ==
    \A r, q \in runs :
        (/\ r.status = "SUCCEEDED" /\ q.status = "SUCCEEDED"
         /\ r.by = q.by /\ r.policy = q.policy
         /\ r.scheduledFor = q.scheduledFor) => r = q

\* The history of one alert never runs backwards, although ticks that started
\* earlier may act later: while an alert is not replaced by a new one, the time
\* of its newest event does not decrease (transition_in_transaction and the
\* as_of condition of monitor_overdue).
AlertHistoryMonotone ==
    [][\A f \in Fingerprints :
          Active(alerts[f]) =>
              /\ alerts'[f].openedAt = alerts[f].openedAt
              /\ alerts'[f].lastAt >= alerts[f].lastAt]_vars

DueNow(j) == \E s \in DueStates(now) : JobOf[s.policy] = j

\* A worker that can still record the outcome is running the job.
Running(j) ==
    \E w \in Workers : /\ pc[w] = "running"
                       /\ Connected(w)
                       /\ \E s \in current[w] : JobOf[s.policy] = j

\* A registered job that is due is eventually executed, or stops being due, unless
\* every worker process is one that lives without a session.  Crashes, failed
\* transactions, refused claims and the lost sessions of other workers only delay
\* it; a worker that lost its own never serves a job again (run_tick, _loop).
DueEventuallyExecuted ==
    \A j \in Registered :
        DueNow(j) ~> (Running(j) \/ ~DueNow(j) \/ lost = Workers)

\* The scheduler's own claim (scheduler.py, module docstring): of two live
\* workers "only one actually executes a given due occurrence".
OccurrenceExecutedOnce ==
    \A r, q \in runs :
        (/\ r.status = "SUCCEEDED" /\ q.status = "SUCCEEDED"
         /\ r.policy = q.policy
         /\ r.scheduledFor = q.scheduledFor) => r = q

--------------------------------------------------------------------------------
\* Inductive invariants.

\* A worker has a current occurrence only while it is executing, and the locks are
\* the locks of the current occurrences of the workers with a session, no two of
\* different workers with one key.
LockInvariant ==
    /\ \A w \in Workers : pc[w] \notin Executing => current[w] = {}
    /\ \A w \in Workers : \A s, r \in current[w] : s = r
    /\ \A w \in Workers \ lost : \A s \in current[w] : LockOf(w, s) \in locks
    /\ \A l \in locks : l.holder \notin lost
    /\ \A l \in locks : \E s \in current[l.holder] : l = LockOf(l.holder, s)
    /\ \A l, m \in locks : (l.job = m.job /\ l.dueAt = m.dueAt) => l.holder = m.holder

\* What a worker still has to do in a tick: one due state per policy, each
\* already due at as_of.
TickInvariant ==
    \A w \in Workers :
        /\ asOf[w] <= now
        /\ pc[w] = "reading" => pending[w] = {}
        /\ pc[w] \in {"idle", "down"} => pending[w] = {}
        /\ \A s \in pending[w] \cup current[w] : s.dueAt <= asOf[w]
        /\ \A s, r \in pending[w] : s.policy = r.policy => s = r
        /\ \A s \in pending[w], r \in current[w] : s.policy # r.policy
        /\ pc[w] \in {"returned", "recorded"} => completedAt[w] \in asOf[w] .. now

\* A worker's own successes lie behind everything it still has to do: they are
\* visible to its next read, and what it holds is due only after them.
SuccessInvariant ==
    /\ \A r \in runs : r.scheduledFor <= r.completedAt /\ r.completedAt <= now
    /\ \A w \in Workers : \A r \in runs :
          (r.by = w /\ r.status = "SUCCEEDED") =>
              /\ pc[w] = "reading" => r.completedAt <= asOf[w]
              /\ \A s \in pending[w] : s.policy = r.policy => r.completedAt < s.dueAt
              /\ pc[w] \in {"running", "returned"} =>
                    \A s \in current[w] : s.policy = r.policy => r.completedAt < s.dueAt
================================================================================
