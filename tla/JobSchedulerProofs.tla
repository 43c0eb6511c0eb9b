-------------------------- MODULE JobSchedulerProofs --------------------------
(***************************************************************************)
(* Proofs about JobScheduler, for every set of workers, jobs and policies  *)
(* and every bound.                                                        *)
(***************************************************************************)
EXTENDS JobScheduler, TLAPS

USE DEF NotApproved

\* Raising an alert (raise_alert_in_transaction) yields an alert.
LEMMA RaiseAlertType ==
    ASSUME NEW a \in Alert, NEW t \in Nat
    PROVE  RaiseAlert(a, t) \in Alert
BY DEF RaiseAlert, Alert, AlertStatus, Active

\* A transition (transition_in_transaction) yields an alert.
LEMMA TransitionAlertType ==
    ASSUME NEW a \in Alert, NEW st \in AlertStatus, NEW t \in Nat
    PROVE  TransitionAlert(a, st, t) \in Alert
BY DEF TransitionAlert, Alert

\* The monitor's transaction (monitor_overdue) yields one alert per fingerprint.
LEMMA MonitorOverdueType ==
    ASSUME TypeOK, NEW t \in Nat
    PROVE  MonitorOverdue(t) \in [Fingerprints -> Alert]
<1>1. ASSUME NEW f \in Fingerprints
      PROVE  /\ alerts[f] \in Alert
             /\ RaiseAlert(alerts[f], t) \in Alert
             /\ TransitionAlert(alerts[f], "RESOLVED", t) \in Alert
  <2>1. alerts[f] \in Alert
    BY DEF TypeOK
  <2>2. "RESOLVED" \in AlertStatus
    BY DEF AlertStatus
  <2>. QED
    BY <2>1, <2>2, RaiseAlertType, TransitionAlertType
<1>. QED
  BY <1>1 DEF MonitorOverdue

\* Every variable keeps its type in every state the scheduler reaches.
THEOREM TypeCorrect == Spec => []TypeOK
<1>. USE ConstantsAssumption
<1>1. Init => TypeOK
  <2>1. 0 \in Times /\ 0 \in 0 .. MaxEnds /\ 0 \in 0 .. MaxFaults
    BY DEF Times
  <2>2. NeverRaised \in Alert
    BY DEF NeverRaised, Alert, AlertStatus
  <2>. QED
    BY <2>1, <2>2 DEF Init, TypeOK, RunStatus, PC
<1>2. TypeOK /\ [Next]_vars => TypeOK'
  <2>. SUFFICES ASSUME TypeOK, [Next]_vars PROVE TypeOK'
    OBVIOUS
  <2>. USE DEF TypeOK
  <2>1. CASE Tick
    BY <2>1 DEF Tick, Times, dbVars, workVars
  <2>2. ASSUME NEW p \in Policies, NEW t \in ApprovalTimes, AppendPolicy(p, t)
        PROVE  TypeOK'
    BY <2>2 DEF AppendPolicy, Times, workVars, envVars
  <2>3. ASSUME NEW f \in Fingerprints, NEW st \in AlertStatus, OperatorTransition(f, st)
        PROVE  TypeOK'
    <3>1. alerts[f] \in Alert /\ now \in Nat
      BY DEF Times
    <3>2. TransitionAlert(alerts[f], st, now) \in Alert
      BY <3>1, TransitionAlertType
    <3>. QED
      BY <2>3, <3>2 DEF OperatorTransition, workVars, envVars
  <2>4. ASSUME NEW w \in Workers, WorkerStep(w) PROVE TypeOK'
    <3>. USE DEF PC, Goto, LeaveTick, LeaveExecute, dbVars, workVars, envVars
    <3>0. asOf[w] \in Nat /\ 0 \in Times
      BY DEF Times
    <3>1. CASE Wake(w)
      BY <3>1 DEF Wake
    <3>2. CASE ReadDue(w)
      BY <3>2 DEF ReadDue, DueStates
    <3>3. ASSUME NEW s \in DueState, TryClaim(w, s) PROVE TypeOK'
      <4>1. LockOf(w, s) \in Lock
        BY DEF LockOf, Lock, DueState
      <4>. QED
        BY <3>3, <4>1 DEF TryClaim
    <3>4. ASSUME NEW s \in DueState, SkipClaim(w, s) PROVE TypeOK'
      BY <3>4 DEF SkipClaim
    <3>5. CASE EndTick(w)
      BY <3>5, <3>0 DEF EndTick
    <3>6. ASSUME NEW st \in RunStatus, RunnerReturns(w, st) PROVE TypeOK'
      <4>1. alerts' \in [Fingerprints -> Alert]
        BY <3>6, <3>0, MonitorOverdueType DEF RunnerReturns
      <4>. QED
        BY <3>6, <4>1 DEF RunnerReturns
    <3>7. CASE AppendRun(w)
      <4>1. \A s \in current[w] : RunOf(w, s) \in Run
        BY DEF RunOf, Run, DueState
      <4>. QED
        BY <3>7, <4>1 DEF AppendRun
    <3>8. CASE RaiseFailureAlert(w)
      <4>1. \A f \in Fingerprints : RaiseAlert(alerts[f], asOf[w]) \in Alert
        BY <3>0, RaiseAlertType
      <4>2. alerts' \in [Fingerprints -> Alert]
        BY <3>8, <4>1 DEF RaiseFailureAlert
      <4>. QED
        BY <3>8, <4>2 DEF RaiseFailureAlert
    <3>9. CASE Release(w)
      BY <3>9, <3>0 DEF Release, RunStatus
    <3>10. CASE ReleaseAndAbort(w)
      BY <3>10, <3>0 DEF ReleaseAndAbort, RunStatus
    <3>11. CASE DueReadFails(w) \/ ClaimFails(w) \/ EvidenceFails(w)
      <4>1. faults' \in 0 .. MaxFaults
        BY <3>11 DEF DueReadFails, ClaimFails, EvidenceFails, TransactionFails
      <4>. QED
        BY <3>11, <3>0, <4>1 DEF DueReadFails, ClaimFails, EvidenceFails, TransactionFails
    <3>12. CASE ReleaseFails(w)
      BY <3>12, <3>0 DEF ReleaseFails, RunStatus
    <3>. QED
      BY <2>4, <3>1, <3>2, <3>3, <3>4, <3>5, <3>6, <3>7, <3>8, <3>9, <3>10, <3>11, <3>12
      DEF WorkerStep
  <2>5. ASSUME NEW w \in Workers, Crash(w) \/ Restart(w) \/ LoseSession(w)
        PROVE  TypeOK'
    <3>. USE DEF PC, Goto, LeaveTick, LeaveExecute, dbVars, workVars, envVars
    <3>0. 0 \in Times
      BY DEF Times
    <3>1. CASE Crash(w)
      BY <3>1, <3>0 DEF Crash, RunStatus
    <3>2. CASE Restart(w)
      BY <3>2 DEF Restart
    <3>3. CASE LoseSession(w)
      BY <3>3 DEF LoseSession
    <3>. QED
      BY <2>5, <3>1, <3>2, <3>3
  <2>6. CASE UNCHANGED vars
    BY <2>6 DEF vars
  <2>. QED
    BY <2>1, <2>2, <2>3, <2>4, <2>5, <2>6 DEF Next, Fingerprints
<1>. QED
  BY <1>1, <1>2, PTL DEF Spec

--------------------------------------------------------------------------------
\* One step of the system, with the actions of the workers singled out: the
\* disjunction the invariance proofs below split on.
LEMMA NextCases ==
    ASSUME [Next]_vars
    PROVE  \/ UNCHANGED <<runs, locks, pc, lost, workVars>> /\ (now' = now \/ Tick)
           \/ \E w \in Workers :
                 \/ Wake(w) \/ ReadDue(w) \/ EndTick(w) \/ AppendRun(w)
                 \/ \E s \in DueState : TryClaim(w, s) \/ SkipClaim(w, s)
                 \/ \E st \in RunStatus : RunnerReturns(w, st)
                 \/ RaiseFailureAlert(w) \/ Release(w) \/ ReleaseAndAbort(w)
                 \/ DueReadFails(w) \/ ClaimFails(w) \/ EvidenceFails(w)
                 \/ ReleaseFails(w)
                 \/ Crash(w) \/ Restart(w) \/ LoseSession(w)
<1>1. CASE Tick
  BY <1>1 DEF Tick, dbVars, workVars
<1>2. CASE \E p \in Policies, t \in ApprovalTimes : AppendPolicy(p, t)
  BY <1>2 DEF AppendPolicy, workVars, envVars
<1>3. CASE \E kind \in {"FAILED", "OVERDUE"}, j \in WatchedJobs, st \in AlertStatus :
              OperatorTransition(<<kind, j>>, st)
  BY <1>3 DEF OperatorTransition, workVars, envVars
<1>4. CASE UNCHANGED vars
  BY <1>4 DEF vars, workVars
<1>5. CASE \E w \in Workers :
              WorkerStep(w) \/ Crash(w) \/ Restart(w) \/ LoseSession(w)
  BY <1>5 DEF WorkerStep
<1>. QED
  BY <1>1, <1>2, <1>3, <1>4, <1>5 DEF Next

\* The advisory locks in the database and the occurrences the workers execute
\* stay in step (_try_claim, _release, session end).
LEMMA LockInvariantStep ==
    ASSUME TypeOK, LockInvariant, [Next]_vars
    PROVE  LockInvariant'
<1>. USE DEF LockInvariant, Executing
<1>1. CASE UNCHANGED <<runs, locks, pc, lost, workVars>>
  BY <1>1 DEF workVars, LockOf
<1>2. ASSUME NEW w \in Workers,
             \/ Wake(w) \/ ReadDue(w) \/ EndTick(w) \/ AppendRun(w)
             \/ \E s \in DueState : SkipClaim(w, s)
             \/ \E st \in RunStatus : RunnerReturns(w, st)
             \/ RaiseFailureAlert(w) \/ DueReadFails(w) \/ ClaimFails(w)
             \/ EvidenceFails(w) \/ Restart(w)
      PROVE  LockInvariant'
  <2>1. UNCHANGED <<locks, current, lost>>
    BY <1>2 DEF Wake, ReadDue, EndTick, AppendRun, SkipClaim, RunnerReturns, RaiseFailureAlert,
                DueReadFails, ClaimFails, EvidenceFails, Restart, TransactionFails,
                dbVars, workVars, envVars
  <2>2. \A v \in Workers : pc'[v] \notin Executing => pc[v] \notin Executing
    BY <1>2 DEF TypeOK, Goto, Wake, ReadDue, EndTick, AppendRun, SkipClaim, RunnerReturns,
                RaiseFailureAlert, DueReadFails, ClaimFails, EvidenceFails, Restart
  <2>. QED
    BY <2>1, <2>2 DEF LockOf
<1>3. ASSUME NEW w \in Workers, NEW s \in DueState, TryClaim(w, s)
      PROVE  LockInvariant'
  <2>1. /\ current[w] = {}
        /\ current' = [current EXCEPT ![w] = {s}]
        /\ locks' = locks \cup {LockOf(w, s)}
        /\ pc' = [pc EXCEPT ![w] = "running"]
        /\ Free(w, s)
        /\ w \notin lost /\ lost' = lost
    BY <1>3 DEF TryClaim, Goto, Connected, envVars
  <2>2. LockOf(w, s).job = JobOf[s.policy] /\ LockOf(w, s).dueAt = s.dueAt
        /\ LockOf(w, s).holder = w
    BY DEF LockOf
  <2>3. \A l \in locks : l.holder # w /\ l.holder \in Workers
    BY <2>1 DEF TypeOK, Lock
  <2>4. \A l \in locks' : \E r \in current'[l.holder] : l = LockOf(l.holder, r)
    BY <2>1, <2>2, <2>3 DEF TypeOK
  <2>5. \A l, m \in locks' : (l.job = m.job /\ l.dueAt = m.dueAt) => l.holder = m.holder
    BY <2>1, <2>2, <2>3 DEF Free
  <2>6. \A v \in Workers \ lost' : \A r \in current'[v] : LockOf(v, r) \in locks'
    BY <2>1 DEF TypeOK
  <2>7. \A v \in Workers : pc'[v] \notin Executing => current'[v] = {}
    BY <2>1 DEF TypeOK
  <2>8. \A v \in Workers : \A r, q \in current'[v] : r = q
    BY <2>1 DEF TypeOK
  <2>9. \A l \in locks' : l.holder \notin lost'
    BY <2>1, <2>2
  <2>. QED
    BY <2>4, <2>5, <2>6, <2>7, <2>8, <2>9 DEF LockOf
<1>4. ASSUME NEW w \in Workers,
             Release(w) \/ ReleaseAndAbort(w) \/ ReleaseFails(w) \/ Crash(w)
      PROVE  LockInvariant'
  <2>1. /\ current' = [current EXCEPT ![w] = {}]
        /\ pc'[w] \notin Executing
        /\ \A v \in Workers : v # w => pc'[v] = pc[v]
        /\ lost' = lost \/ lost' = lost \ {w}
    BY <1>4 DEF TypeOK, Goto, LeaveExecute, Release, ReleaseAndAbort, ReleaseFails, Crash,
                envVars
  <2>2. \A l \in locks : l.holder \in Workers
    BY DEF TypeOK, Lock
  <2>3. locks' = {l \in locks : l.holder # w}
    <3>1. CASE Crash(w)
      BY <3>1 DEF Crash
    <3>2. CASE Release(w) \/ ReleaseAndAbort(w)
      <4>1. locks' = locks \ {LockOf(w, s) : s \in current[w]}
        BY <3>2 DEF Release, ReleaseAndAbort
      <4>2. \A l \in locks : l.holder = w <=> l \in {LockOf(w, s) : s \in current[w]}
        BY <2>2 DEF LockOf
      <4>. QED
        BY <4>1, <4>2
    <3>3. CASE ReleaseFails(w)
      BY <3>3 DEF ReleaseFails, Connected, dbVars
    <3>. QED
      BY <1>4, <3>1, <3>2, <3>3
  <2>4. \A v \in Workers : v # w => current'[v] = current[v]
    BY <2>1 DEF TypeOK
  <2>5. current'[w] = {}
    BY <2>1 DEF TypeOK
  <2>6. \A v \in Workers : \A r \in current[v] : LockOf(v, r).holder = v
    BY DEF LockOf
  <2>. QED
    BY <2>1, <2>2, <2>3, <2>4, <2>5, <2>6 DEF LockOf
<1>5. ASSUME NEW w \in Workers, LoseSession(w)
      PROVE  LockInvariant'
  <2>1. /\ locks' = {l \in locks : l.holder # w}
        /\ lost' = lost \cup {w}
        /\ UNCHANGED <<pc, current>>
    BY <1>5 DEF LoseSession, workVars
  <2>2. \A v \in Workers : \A r \in current[v] : LockOf(v, r).holder = v
    BY DEF LockOf
  <2>. QED
    BY <2>1, <2>2 DEF LockOf
<1>. QED
  BY <1>1, <1>2, <1>3, <1>4, <1>5, NextCases

\* The lock keyed by (job_name, due_at) gives mutual exclusion among the workers
\* whose session is alive, and no lock is ever left behind by a crash, a lost
\* session, a failed claim, a failed runner or a failed evidence write.
THEOREM ClaimsAreExclusive == Spec => [](OneExecutorPerOccurrence /\ NoLeakedLock)
<1>1. Init => LockInvariant
  BY DEF Init, LockInvariant
<1>2. TypeOK /\ LockInvariant /\ [Next]_vars => LockInvariant'
  BY LockInvariantStep
<1>3. TypeOK /\ LockInvariant => OneExecutorPerOccurrence
  <2>. SUFFICES ASSUME LockInvariant,
                       NEW v \in Workers \ lost, NEW w \in Workers \ lost,
                       NEW s \in current[v], NEW r \in current[w],
                       JobOf[s.policy] = JobOf[r.policy], s.dueAt = r.dueAt
                PROVE  v = w
    BY DEF OneExecutorPerOccurrence
  <2>1. LockOf(v, s) \in locks /\ LockOf(w, r) \in locks
    BY DEF LockInvariant
  <2>2. LockOf(v, s).job = LockOf(w, r).job /\ LockOf(v, s).dueAt = LockOf(w, r).dueAt
    BY DEF LockOf
  <2>3. LockOf(v, s).holder = LockOf(w, r).holder
    BY <2>1, <2>2 DEF LockInvariant
  <2>. QED
    BY <2>3 DEF LockOf
<1>4. TypeOK /\ LockInvariant => NoLeakedLock
  <2>. SUFFICES ASSUME TypeOK, LockInvariant, NEW l \in locks
                PROVE  /\ Connected(l.holder)
                       /\ pc[l.holder] \in Executing
                       /\ \E s \in current[l.holder] : l = LockOf(l.holder, s)
    BY DEF NoLeakedLock
  <2>1. l.holder \in Workers
    BY DEF TypeOK, Lock
  <2>. QED
    BY <2>1 DEF LockInvariant, Connected
<1>. QED
  BY <1>1, <1>2, <1>3, <1>4, TypeCorrect, PTL DEF Spec

\* In particular no crash, no lost session and no failure leaves an advisory lock behind that
\* would stop its job for good.
THEOREM LocksAreReturned == Spec => []NoLeakedLock
BY ClaimsAreExclusive, PTL

--------------------------------------------------------------------------------
\* Due dates are integers.
LEMMA DueTimesInt == DueTimes \subseteq Int
<1>1. \A p \in Policies : Interval[p] \in Nat
  BY ConstantsAssumption
<1>2. \A t \in Times : t \in Int
  BY DEF Times
<1>. QED
  BY <1>1, <1>2 DEF DueTimes

LEMMA CurrentDueInt ==
    ASSUME TypeOK, NEW w \in Workers, NEW s \in current[w]
    PROVE  s.dueAt \in Int
<1>1. s \in DueState
  BY DEF TypeOK
<1>2. s.dueAt \in DueTimes
  BY <1>1 DEF DueState
<1>. QED
  BY <1>2, DueTimesInt

\* The due date of a policy at an instant is unique, and lies after every
\* success of the policy that the evaluation sees (_due_jobs, evaluate_job_due).
LEMMA DueAfterSuccess ==
    ASSUME TypeOK, NEW t \in Times, NEW s \in DueStates(t), NEW r \in runs,
           r.policy = s.policy, r.status = "SUCCEEDED", r.completedAt <= t
    PROVE  r.completedAt < s.dueAt
<1>1. r.completedAt \in Successes(s.policy, t)
  BY DEF Successes
<1>2. PICK b \in Times : IsBase(s.policy, t, b) /\ s.dueAt = b + Interval[s.policy]
  BY DEF DueStates, IsDueAt
<1>3. r.completedAt <= b
  BY <1>1, <1>2 DEF IsBase
<1>4. Interval[s.policy] \in Nat \ {0} /\ r.completedAt \in Nat /\ b \in Nat
  <2>1. s.policy \in Policies
    BY DEF DueStates, DueState
  <2>2. r.completedAt \in Times
    BY DEF TypeOK, Run
  <2>3. Interval[s.policy] \in Nat \ {0}
    BY <2>1, ConstantsAssumption
  <2>. QED
    BY <2>2, <2>3 DEF Times
<1>. QED
  BY <1>2, <1>3, <1>4

LEMMA DueStateUnique ==
    ASSUME TypeOK, NEW t \in Times, NEW s \in DueStates(t), NEW r \in DueStates(t),
           s.policy = r.policy
    PROVE  s = r
<1>1. PICK b \in Times : IsBase(s.policy, t, b) /\ s.dueAt = b + Interval[s.policy]
  BY DEF DueStates, IsDueAt
<1>2. PICK c \in Times : IsBase(s.policy, t, c) /\ r.dueAt = c + Interval[s.policy]
  BY DEF DueStates, IsDueAt
<1>3. b = c
  BY <1>1, <1>2 DEF IsBase, Times
<1>4. s \in DueState /\ r \in DueState
  BY DEF DueStates
<1>. QED
  BY <1>1, <1>2, <1>3, <1>4 DEF DueState

\* A tick's unserved due states stay due at its as_of, one per policy.
LEMMA TickInvariantStep ==
    ASSUME TypeOK, LockInvariant, TickInvariant, [Next]_vars
    PROVE  TickInvariant'
<1>. USE ConstantsAssumption DEF TickInvariant
<1>0. /\ now \in Nat
      /\ \A w \in Workers : asOf[w] \in Nat /\ completedAt[w] \in Nat
  BY DEF TypeOK, Times
<1>1. CASE UNCHANGED <<runs, locks, pc, lost, workVars>> /\ (now' = now \/ Tick)
  BY <1>0, <1>1 DEF workVars, Tick
<1>2. ASSUME NEW w \in Workers, ReadDue(w) PROVE TickInvariant'
  <2>1. asOf[w] \in Times
    BY DEF TypeOK
  <2>2. /\ pending' = [pending EXCEPT ![w] =
                       {s \in DueStates(asOf[w]) : JobOf[s.policy] \in Registered}]
        /\ pc[w] = "reading" /\ pc' = [pc EXCEPT ![w] = "ticking"]
        /\ UNCHANGED <<now, asOf, current, completedAt>>
    BY <1>2 DEF ReadDue, Goto, envVars
  <2>3. current[w] = {}
    BY <2>2 DEF LockInvariant, Executing
  <2>4. \A s \in pending'[w] : s.dueAt <= asOf[w]
    BY <2>2 DEF TypeOK, DueStates
  <2>5. \A s, r \in pending'[w] : s.policy = r.policy => s = r
    BY <2>1, <2>2, DueStateUnique DEF TypeOK
  <2>. QED
    BY <2>2, <2>3, <2>4, <2>5 DEF TypeOK
<1>3. ASSUME NEW w \in Workers, Wake(w) PROVE TickInvariant'
  <2>1. /\ current[w] = {} /\ pending[w] = {} /\ pc[w] = "idle"
        /\ asOf' = [asOf EXCEPT ![w] = now]
        /\ pc' = [pc EXCEPT ![w] = "reading"]
        /\ UNCHANGED <<now, pending, current, completedAt>>
    BY <1>3 DEF Wake, Goto, LockInvariant, Executing, envVars
  <2>. QED
    BY <1>0, <2>1 DEF TypeOK
<1>4. ASSUME NEW w \in Workers, NEW s \in DueState, TryClaim(w, s) PROVE TickInvariant'
  <2>1. /\ pc[w] = "ticking" /\ s \in pending[w]
        /\ pending' = [pending EXCEPT ![w] = @ \ {s}]
        /\ current' = [current EXCEPT ![w] = {s}]
        /\ pc' = [pc EXCEPT ![w] = "running"]
        /\ UNCHANGED <<now, asOf, completedAt>>
    BY <1>4 DEF TryClaim, IsNext, Goto, envVars
  <2>. QED
    BY <2>1 DEF TypeOK
<1>5. ASSUME NEW w \in Workers, NEW s \in DueState, SkipClaim(w, s) PROVE TickInvariant'
  BY <1>5 DEF SkipClaim, TypeOK, envVars
<1>6. ASSUME NEW w \in Workers, NEW st \in RunStatus, RunnerReturns(w, st) PROVE TickInvariant'
  <2>1. /\ pc[w] = "running"
        /\ completedAt' = [completedAt EXCEPT ![w] = now]
        /\ pc' = [pc EXCEPT ![w] = "returned"]
        /\ UNCHANGED <<now, asOf, pending, current>>
    BY <1>6 DEF RunnerReturns, Goto, envVars
  <2>. QED
    BY <1>0, <2>1 DEF TypeOK
<1>7. ASSUME NEW w \in Workers,
             AppendRun(w) \/ RaiseFailureAlert(w) \/ EvidenceFails(w)
      PROVE  TickInvariant'
  <2>1. /\ pc[w] \in {"returned", "recorded"}
        /\ pc'[w] \in {"recorded", "releasing", "aborting"}
        /\ \A v \in Workers : v # w => pc'[v] = pc[v]
        /\ UNCHANGED <<now, asOf, pending, current, completedAt>>
    BY <1>7 DEF AppendRun, RaiseFailureAlert, EvidenceFails, TransactionFails, Goto, TypeOK,
                workVars, envVars
  <2>. QED
    BY <2>1
<1>8. ASSUME NEW w \in Workers, Release(w) PROVE TickInvariant'
  <2>1. /\ pc[w] = "releasing"
        /\ current' = [current EXCEPT ![w] = {}]
        /\ completedAt' = [completedAt EXCEPT ![w] = 0]
        /\ pc' = [pc EXCEPT ![w] = "ticking"]
        /\ UNCHANGED <<now, asOf, pending>>
    BY <1>8 DEF Release, Goto, LeaveExecute, envVars
  <2>. QED
    BY <2>1 DEF TypeOK
<1>9. ASSUME NEW w \in Workers, ReleaseAndAbort(w) \/ ReleaseFails(w) \/ Crash(w)
      PROVE  TickInvariant'
  <2>1. /\ current' = [current EXCEPT ![w] = {}]
        /\ completedAt' = [completedAt EXCEPT ![w] = 0]
        /\ asOf' = [asOf EXCEPT ![w] = 0]
        /\ pending' = [pending EXCEPT ![w] = {}]
        /\ pc'[w] \in {"idle", "down"}
        /\ \A v \in Workers : v # w => pc'[v] = pc[v]
        /\ now' = now
    BY <1>9 DEF ReleaseAndAbort, ReleaseFails, Crash, Goto, LeaveExecute, LeaveTick, envVars, TypeOK
  <2>. QED
    BY <1>0, <2>1 DEF TypeOK
<1>10. ASSUME NEW w \in Workers,
              EndTick(w) \/ DueReadFails(w) \/ ClaimFails(w) \/ Restart(w)
       PROVE  TickInvariant'
  <2>1. /\ current[w] = {} /\ current' = current
        /\ pending'[w] = {}
        /\ asOf'[w] = 0 \/ asOf'[w] = asOf[w]
        /\ pc'[w] = "idle"
        /\ \A v \in Workers : v # w => /\ pc'[v] = pc[v] /\ pending'[v] = pending[v]
                                     /\ asOf'[v] = asOf[v]
        /\ UNCHANGED <<now, completedAt>>
    <3>1. current[w] = {}
      BY <1>10 DEF EndTick, DueReadFails, ClaimFails, Restart, LockInvariant, Executing
    <3>. QED
      BY <1>10, <3>1 DEF EndTick, DueReadFails, ClaimFails, TransactionFails, Restart, Goto,
                         LeaveTick, TypeOK, envVars, workVars
  <2>. QED
    BY <1>0, <2>1
<1>11. ASSUME NEW w \in Workers, LoseSession(w) PROVE TickInvariant'
  BY <1>11 DEF LoseSession, workVars
<1>. QED
  BY <1>1, <1>2, <1>3, <1>4, <1>5, <1>6, <1>7, <1>8, <1>9, <1>10, <1>11, NextCases

\* A worker's successes stay behind what it still has to do.
LEMMA SuccessInvariantStep ==
    ASSUME TypeOK, LockInvariant, TickInvariant, SuccessInvariant, [Next]_vars
    PROVE  SuccessInvariant'
<1>. USE DEF SuccessInvariant
<1>0. /\ now \in Nat
      /\ \A w \in Workers : asOf[w] \in Nat
      /\ \A r \in runs : r.completedAt \in Nat /\ r.by \in Workers
  BY ConstantsAssumption DEF TypeOK, Times, Run
<1>1. CASE UNCHANGED <<runs, locks, pc, lost, workVars>> /\ (now' = now \/ Tick)
  <2>1. now <= now'
    BY <1>0, <1>1 DEF Tick
  <2>2. now' \in Nat
    BY <1>0, <1>1 DEF Tick
  <2>. QED
    BY <1>0, <1>1, <2>1, <2>2 DEF workVars
<1>2. ASSUME NEW w \in Workers, ReadDue(w) PROVE SuccessInvariant'
  <2>1. asOf[w] \in Times
    BY DEF TypeOK
  <2>2. /\ pending' = [pending EXCEPT ![w] =
                       {s \in DueStates(asOf[w]) : JobOf[s.policy] \in Registered}]
        /\ pc[w] = "reading" /\ pc' = [pc EXCEPT ![w] = "ticking"]
        /\ UNCHANGED <<now, runs, asOf, current>>
    BY <1>2 DEF ReadDue, Goto, envVars, dbVars
  <2>3. \A r \in runs : (r.by = w /\ r.status = "SUCCEEDED") =>
           \A s \in pending'[w] : s.policy = r.policy => r.completedAt < s.dueAt
    BY <2>1, <2>2, DueAfterSuccess DEF TypeOK
  <2>. QED
    BY <2>2, <2>3 DEF TypeOK
<1>3. ASSUME NEW w \in Workers, AppendRun(w) PROVE SuccessInvariant'
  <2>1. /\ pc[w] = "returned"
        /\ runs' = runs \cup {RunOf(w, s) : s \in current[w]}
        /\ pc'[w] \in {"recorded", "releasing"}
        /\ \A v \in Workers : v # w => pc'[v] = pc[v]
        /\ UNCHANGED <<now, asOf, pending, current>>
    BY <1>3 DEF AppendRun, Goto, TypeOK, workVars, envVars
  <2>2. ASSUME NEW s \in current[w]
        PROVE  /\ RunOf(w, s).scheduledFor <= RunOf(w, s).completedAt
               /\ RunOf(w, s).completedAt <= now
               /\ RunOf(w, s).by = w
               /\ RunOf(w, s).policy = s.policy
    <3>1. s.dueAt <= asOf[w] /\ completedAt[w] \in asOf[w] .. now
      BY <2>1 DEF TickInvariant
    <3>2. RunOf(w, s).scheduledFor = s.dueAt /\ RunOf(w, s).completedAt = completedAt[w]
      BY DEF RunOf
    <3>3. s.dueAt \in Int
      BY CurrentDueInt
    <3>. QED
      BY <1>0, <3>1, <3>2, <3>3 DEF RunOf
  <2>3. \A r \in runs' : r.scheduledFor <= r.completedAt /\ r.completedAt <= now
    BY <2>1, <2>2
  <2>4. \A s \in current[w] : \A r \in pending[w] : r.policy # s.policy
    BY DEF TickInvariant
  <2>5. ASSUME NEW v \in Workers, NEW r \in runs', r.by = v, r.status = "SUCCEEDED"
        PROVE  /\ pc'[v] = "reading" => r.completedAt <= asOf[v]
               /\ \A s \in pending[v] : s.policy = r.policy => r.completedAt < s.dueAt
               /\ pc'[v] \in {"running", "returned"} =>
                     \A s \in current[v] : s.policy = r.policy => r.completedAt < s.dueAt
    <3>1. CASE r \in runs
      BY <2>1, <2>5, <3>1
    <3>2. ASSUME NEW s \in current[w], r = RunOf(w, s)
          PROVE  /\ v = w /\ pc'[v] \notin {"reading", "running", "returned"}
                 /\ \A q \in pending[v] : q.policy # r.policy
      BY <2>1, <2>2, <2>4, <2>5, <3>2
    <3>. QED
      BY <2>1, <3>1, <3>2
  <2>. QED
    BY <2>1, <2>3, <2>5
<1>4. ASSUME NEW w \in Workers, NEW s \in DueState, TryClaim(w, s) PROVE SuccessInvariant'
  <2>1. /\ s \in pending[w]
        /\ pending' = [pending EXCEPT ![w] = @ \ {s}]
        /\ current' = [current EXCEPT ![w] = {s}]
        /\ pc' = [pc EXCEPT ![w] = "running"]
        /\ UNCHANGED <<now, runs, asOf>>
    BY <1>4 DEF TryClaim, IsNext, Goto, envVars
  <2>. QED
    BY <2>1 DEF TypeOK
<1>5. ASSUME NEW w \in Workers, Wake(w) PROVE SuccessInvariant'
  <2>1. /\ asOf' = [asOf EXCEPT ![w] = now]
        /\ pc' = [pc EXCEPT ![w] = "reading"]
        /\ UNCHANGED <<now, runs, pending, current>>
    BY <1>5 DEF Wake, Goto, envVars, dbVars
  <2>. QED
    BY <2>1 DEF TypeOK
<1>6. ASSUME NEW w \in Workers,
             \/ \E s \in DueState : SkipClaim(w, s)
             \/ \E st \in RunStatus : RunnerReturns(w, st)
             \/ EndTick(w) \/ RaiseFailureAlert(w) \/ Release(w) \/ ReleaseAndAbort(w)
             \/ DueReadFails(w) \/ ClaimFails(w) \/ EvidenceFails(w) \/ ReleaseFails(w)
             \/ Crash(w) \/ Restart(w) \/ LoseSession(w)
      PROVE  SuccessInvariant'
  <2>1. /\ UNCHANGED <<now, runs>>
        /\ \A v \in Workers : /\ pending'[v] \subseteq pending[v]
                              /\ current'[v] \subseteq current[v]
    BY <1>6 DEF SkipClaim, RunnerReturns, EndTick, RaiseFailureAlert, Release, ReleaseAndAbort,
                DueReadFails, ClaimFails, EvidenceFails, ReleaseFails, TransactionFails, Crash,
                Restart, LoseSession, LeaveTick, LeaveExecute, TypeOK,
                dbVars, workVars, envVars
  <2>2. \A v \in Workers :
          /\ pc'[v] = "reading" => pc[v] = "reading" /\ asOf'[v] = asOf[v]
          /\ pc'[v] \in {"running", "returned"} => pc[v] \in {"running", "returned"}
    BY <1>6 DEF SkipClaim, RunnerReturns, EndTick, RaiseFailureAlert, Release, ReleaseAndAbort,
                DueReadFails, ClaimFails, EvidenceFails, ReleaseFails, TransactionFails, Crash,
                Restart, LoseSession, LeaveTick, LeaveExecute, TypeOK,
                Goto, dbVars, workVars, envVars
  <2>3. \A r \in runs' : r.scheduledFor <= r.completedAt /\ r.completedAt <= now'
    BY <2>1
  <2>4. ASSUME NEW v \in Workers, NEW r \in runs, r.by = v, r.status = "SUCCEEDED"
        PROVE  /\ pc'[v] = "reading" => r.completedAt <= asOf'[v]
               /\ \A s \in pending'[v] : s.policy = r.policy => r.completedAt < s.dueAt
               /\ pc'[v] \in {"running", "returned"} =>
                     \A s \in current'[v] : s.policy = r.policy => r.completedAt < s.dueAt
    <3>1. pc'[v] = "reading" => r.completedAt <= asOf'[v]
      BY <2>2, <2>4
    <3>2. \A s \in pending'[v] : s.policy = r.policy => r.completedAt < s.dueAt
      BY <2>1, <2>4
    <3>3. pc'[v] \in {"running", "returned"} =>
             \A s \in current'[v] : s.policy = r.policy => r.completedAt < s.dueAt
      <4>. SUFFICES ASSUME pc'[v] \in {"running", "returned"}, NEW s \in current'[v],
                           s.policy = r.policy
                    PROVE  r.completedAt < s.dueAt
        OBVIOUS
      <4>1. pc[v] \in {"running", "returned"} /\ s \in current[v]
        BY <2>1, <2>2
      <4>. QED
        BY <2>4, <4>1
    <3>. QED
      BY <3>1, <3>2, <3>3
  <2>. QED
    BY <2>1, <2>3, <2>4
<1>. QED
  BY <1>1, <1>2, <1>3, <1>4, <1>5, <1>6, NextCases

\* Two successes of one worker for one occurrence never both get recorded.
LEMMA OneSuccessStep ==
    ASSUME TypeOK, TickInvariant, SuccessInvariant, OneSuccessPerWorker, LockInvariant,
           [Next]_vars
    PROVE  OneSuccessPerWorker'
<1>1. ASSUME NEW w \in Workers, AppendRun(w) PROVE OneSuccessPerWorker'
  <2>1. pc[w] = "returned" /\ runs' = runs \cup {RunOf(w, s) : s \in current[w]}
    BY <1>1 DEF AppendRun
  <2>2. ASSUME NEW s \in current[w], NEW r \in runs, r.by = w, r.status = "SUCCEEDED",
               r.policy = s.policy, r.scheduledFor = s.dueAt
        PROVE  FALSE
    <3>1. r.scheduledFor <= r.completedAt /\ r.completedAt < s.dueAt
      BY <2>1, <2>2 DEF SuccessInvariant
    <3>2. r.completedAt \in Int /\ s.dueAt \in Int
      <4>1. s.dueAt \in Int
        BY CurrentDueInt
      <4>2. r.completedAt \in Times
        BY DEF TypeOK, Run
      <4>. QED
        BY <4>1, <4>2 DEF Times
    <3>. QED
      BY <2>2, <3>1, <3>2
  <2>3. \A s \in current[w] : /\ RunOf(w, s).by = w /\ RunOf(w, s).policy = s.policy
                             /\ RunOf(w, s).scheduledFor = s.dueAt
    BY DEF RunOf
  <2>4. \A s, r \in current[w] : s = r
    BY DEF LockInvariant
  <2>. QED
    BY <2>1, <2>2, <2>3, <2>4 DEF OneSuccessPerWorker
<1>2. CASE UNCHANGED runs
  BY <1>2 DEF OneSuccessPerWorker
<1>3. ASSUME NEW w \in Workers,
             \/ Wake(w) \/ ReadDue(w) \/ EndTick(w)
             \/ \E s \in DueState : TryClaim(w, s) \/ SkipClaim(w, s)
             \/ \E st \in RunStatus : RunnerReturns(w, st)
             \/ RaiseFailureAlert(w) \/ Release(w) \/ ReleaseAndAbort(w)
             \/ DueReadFails(w) \/ ClaimFails(w) \/ EvidenceFails(w) \/ ReleaseFails(w)
             \/ Crash(w) \/ Restart(w) \/ LoseSession(w)
      PROVE  UNCHANGED runs
  BY <1>3 DEF Wake, ReadDue, EndTick, TryClaim, SkipClaim, RunnerReturns, RaiseFailureAlert,
              Release, ReleaseAndAbort, DueReadFails, ClaimFails, EvidenceFails, ReleaseFails,
              Crash, Restart, LoseSession, dbVars
<1>. QED
  BY <1>1, <1>2, <1>3, NextCases

\* A worker process never records two successes of one due occurrence, whatever
\* the interleaving with other workers, crashes, lost sessions and new policies.
THEOREM OneSuccess == Spec => []OneSuccessPerWorker
<1>1. Init => LockInvariant /\ TickInvariant /\ SuccessInvariant /\ OneSuccessPerWorker
  BY DEF Init, LockInvariant, TickInvariant, SuccessInvariant, OneSuccessPerWorker
<1>2. TypeOK /\ LockInvariant /\ TickInvariant /\ SuccessInvariant /\ OneSuccessPerWorker
        /\ [Next]_vars
      => (LockInvariant /\ TickInvariant /\ SuccessInvariant /\ OneSuccessPerWorker)'
  BY LockInvariantStep, TickInvariantStep, SuccessInvariantStep, OneSuccessStep
<1>. QED
  BY <1>1, <1>2, TypeCorrect, PTL DEF Spec

--------------------------------------------------------------------------------
\* b is alert a, at the same time or later.
Continues(a, b) ==
    Active(a) => b.openedAt = a.openedAt /\ b.lastAt >= a.lastAt

\* The two transactions that change an alert never move it back.
LEMMA AlertContinues ==
    ASSUME NEW a \in Alert, NEW t \in Nat
    PROVE  /\ Continues(a, a)
           /\ Continues(a, RaiseAlert(a, t))
           /\ \A st \in AlertStatus :
                 CanTransition(a, st, t) => Continues(a, TransitionAlert(a, st, t))
BY DEF Continues, Alert, RaiseAlert, CanTransition, TransitionAlert

\* A step of the system does to an alert what one of the two transactions does,
\* at some time, or nothing.
LEMMA AlertStep ==
    ASSUME TypeOK, [Next]_vars, NEW f \in Fingerprints
    PROVE  Continues(alerts[f], alerts'[f])
<1>0. /\ alerts \in [Fingerprints -> Alert] /\ alerts[f] \in Alert
      /\ now \in Nat /\ \A w \in Workers : asOf[w] \in Nat
      /\ "RESOLVED" \in AlertStatus
  BY ConstantsAssumption DEF TypeOK, Times, AlertStatus
<1>1. CASE alerts' = alerts
  BY <1>0, <1>1, AlertContinues
<1>2. ASSUME NEW kind \in {"FAILED", "OVERDUE"}, NEW j \in WatchedJobs,
             NEW st \in AlertStatus, OperatorTransition(<<kind, j>>, st)
      PROVE  Continues(alerts[f], alerts'[f])
  <2>1. CanTransition(alerts[<<kind, j>>], st, now)
    BY <1>2 DEF OperatorTransition
  <2>2. alerts'[f] = IF f = <<kind, j>> THEN TransitionAlert(alerts[f], st, now)
                                        ELSE alerts[f]
    BY <1>0, <1>2 DEF OperatorTransition
  <2>. QED
    BY <1>0, <2>1, <2>2, AlertContinues
<1>3. ASSUME NEW w \in Workers, NEW st \in RunStatus, RunnerReturns(w, st)
      PROVE  Continues(alerts[f], alerts'[f])
  <2>1. CASE alerts' = alerts
    BY <1>1, <2>1
  <2>2. CASE alerts' = MonitorOverdue(asOf[w])
    <3>1. \/ alerts'[f] = alerts[f]
          \/ alerts'[f] = RaiseAlert(alerts[f], asOf[w])
          \/ /\ CanTransition(alerts[f], "RESOLVED", asOf[w])
             /\ alerts'[f] = TransitionAlert(alerts[f], "RESOLVED", asOf[w])
      BY <2>2 DEF MonitorOverdue
    <3>. QED
      BY <1>0, <3>1, AlertContinues
  <2>. QED
    BY <1>3, <2>1, <2>2 DEF RunnerReturns
<1>4. ASSUME NEW w \in Workers, RaiseFailureAlert(w)
      PROVE  Continues(alerts[f], alerts'[f])
  <2>1. \/ alerts'[f] = alerts[f]
        \/ alerts'[f] = RaiseAlert(alerts[f], asOf[w])
    BY <1>4 DEF RaiseFailureAlert
  <2>. QED
    BY <1>0, <2>1, AlertContinues
<1>5. ASSUME NEW w \in Workers,
             \/ Wake(w) \/ ReadDue(w) \/ EndTick(w) \/ AppendRun(w)
             \/ \E s \in DueState : TryClaim(w, s) \/ SkipClaim(w, s)
             \/ Release(w) \/ ReleaseAndAbort(w) \/ DueReadFails(w) \/ ClaimFails(w)
             \/ EvidenceFails(w) \/ ReleaseFails(w)
             \/ Crash(w) \/ Restart(w) \/ LoseSession(w)
      PROVE  alerts' = alerts
  BY <1>5 DEF Wake, ReadDue, EndTick, AppendRun, TryClaim, SkipClaim, Release,
              ReleaseAndAbort, DueReadFails, ClaimFails, EvidenceFails, ReleaseFails,
              Crash, Restart, LoseSession, dbVars
<1>6. CASE Tick \/ (\E p \in Policies, t \in ApprovalTimes : AppendPolicy(p, t))
           \/ UNCHANGED vars
  <2>1. alerts' = alerts
    BY <1>6 DEF Tick, AppendPolicy, vars, dbVars
  <2>. QED
    BY <1>1, <2>1
<1>. QED
  BY <1>1, <1>2, <1>3, <1>4, <1>5, <1>6 DEF Next, WorkerStep

\* The history of an alert never runs backwards, however old the as_of of the
\* tick that raises or resolves it is (monitor_overdue, transition_in_transaction).
THEOREM AlertsNeverRunBack == Spec => AlertHistoryMonotone
<1>1. TypeOK /\ [Next]_vars =>
        [\A f \in Fingerprints :
            Active(alerts[f]) =>
                /\ alerts'[f].openedAt = alerts[f].openedAt
                /\ alerts'[f].lastAt >= alerts[f].lastAt]_vars
  BY AlertStep DEF Continues
<1>. QED
  BY <1>1, TypeCorrect, PTL DEF Spec, AlertHistoryMonotone

================================================================================
