---------------------------- MODULE StudyQueueProofs ----------------------------
(***************************************************************************)
(* Theorems about StudyQueue, for any number of workers and trials, any    *)
(* lease and batch size, and any number of crashes, stops and retries.     *)
(***************************************************************************)
EXTENDS StudyQueue, FiniteSetTheorems, TLAPS

--------------------------------------------------------------------------------
\* Types.

\* An UPDATE that ends a lease leaves a row.
LEMMA ReleasedType ==
    ASSUME NEW row \in Row, NEW state \in TrialState
    PROVE  Released(row, state) \in Row
<1>1. 0 \in (0 - MaxLatency) .. Lease
  BY StudyAssumption
<1> QED
  BY <1>1 DEF Released, Row

\* What GoTo does to the program counters.
LEMMA GoToType ==
    ASSUME TypeOK, NEW w \in Workers,
           NEW place \in {"off", "looping", "evaluating"} \cup Calling, GoTo(w, place)
    PROVE  /\ pc' \in [Workers -> {"off", "looping", "evaluating"} \cup Calling]
           /\ elapsed' \in [Workers -> Nat]
           /\ \A v \in Workers : pc'[v] \in Calling => elapsed'[v] <= MaxLatency
BY StudyAssumption DEF TypeOK, GoTo

\* The log of a claimed trial.
LEMMA ClaimedLogType ==
    ASSUME TypeOK, NEW w \in Workers, NEW t \in Trials
    PROVE  ClaimedLog(w, t) \in Seq(Event)
<1>1. queue[t] \in Row /\ log[t] \in Seq(Event)
  BY DEF TypeOK
<1>2. EventOf(t, "LEASE_EXPIRED", queue[t].owner) \in Event
  BY <1>1 DEF EventOf, Event, Row, EventType
<1>3. [attempt |-> queue[t].attempt + 1, kind |-> "CLAIMED", worker |-> w] \in Event
  BY <1>1 DEF Event, Row, EventType
<1> QED
  BY <1>1, <1>2, <1>3 DEF ClaimedLog

\* A claimed row.
LEMMA ClaimedRowType ==
    ASSUME TypeOK, NEW w \in Workers, NEW row \in Row, pc[w] = "claiming"
    PROVE  /\ ClaimedRow(w, row) \in Row
           /\ Lease - elapsed[w] \in 0 .. Lease
<1>1. elapsed[w] \in Nat /\ elapsed[w] <= MaxLatency
  BY DEF TypeOK, Calling
<1>2. Lease - elapsed[w] \in 0 .. Lease
  BY <1>1, StudyAssumption
<1> QED
  BY <1>2, StudyAssumption DEF ClaimedRow, Row, TrialState

\* Every state has the types of TypeOK: no lease is longer than Lease and no
\* call outlives its clock reading by more than MaxLatency.
THEOREM TypeCorrect == Spec => []TypeOK
<1>1. Init => TypeOK
  BY StudyAssumption DEF Init, TypeOK, Row, TrialState, Result, NoResult, Calling
<1>2. ASSUME TypeOK, [Next]_vars
      PROVE  TypeOK'
  <2> USE <1>2
  <2>1. ASSUME NEW w \in Workers, Start(w)
        PROVE  TypeOK'
    <3>1. queue' \in [Trials -> Row]
      BY <2>1 DEF Start, TypeOK, Row, TrialState
    <3> QED
      BY <2>1, <3>1, GoToType DEF Start, TypeOK, bounds
  <2>2. ASSUME NEW w \in Workers, BeginClaim(w) \/ Drained(w)
        PROVE  TypeOK'
    BY <2>2, GoToType DEF BeginClaim, Drained, TypeOK, tables, bounds, Calling
  <2>3. ASSUME NEW w \in Workers, ClaimBatch(w)
        PROVE  TypeOK'
    <3>1. PICK skipped \in SUBSET Contended(w) :
            LET picked == Picked(w, skipped)
            IN  /\ queue' = [t \in Trials |-> IF t \in picked THEN ClaimedRow(w, queue[t]) ELSE queue[t]]
                /\ log' = [t \in Trials |-> IF t \in picked THEN ClaimedLog(w, t) ELSE log[t]]
                /\ batch' = [batch EXCEPT ![w] =
                       {[trial |-> t, attempt |-> queue[t].attempt + 1, left |-> Lease - elapsed[w]] : t \in picked}]
      BY <2>3 DEF ClaimBatch
    <3> DEFINE picked == Picked(w, skipped)
    <3>2. pc[w] = "claiming" /\ picked \subseteq Trials
      BY <2>3 DEF ClaimBatch, Picked, FirstOf
    <3>3. queue' \in [Trials -> Row]
      BY <3>1, <3>2, ClaimedRowType DEF TypeOK
    <3>4. log' \in [Trials -> Seq(Event)]
      <4>1. \A t \in Trials : ClaimedLog(w, t) \in Seq(Event)
        BY ClaimedLogType
      <4> QED
        BY <3>1, <4>1 DEF TypeOK
    <3>5. batch' \in [Workers -> SUBSET Claim]
      <4>0. queue[1] \in Row
        BY StudyAssumption DEF TypeOK, Trials
      <4>1. \A t \in picked : [trial |-> t, attempt |-> queue[t].attempt + 1, left |-> Lease - elapsed[w]] \in Claim
        <5>1. \A t \in picked : t \in Trials /\ queue[t].attempt + 1 \in Nat
          BY <3>2 DEF TypeOK, Row
        <5>2. Lease - elapsed[w] \in 0 .. Lease
          BY <3>2, <4>0, ClaimedRowType
        <5> QED
          BY <5>1, <5>2 DEF Claim
      <4> QED
        BY <3>1, <4>1 DEF TypeOK
    <3> QED
      BY <2>3, <3>3, <3>4, <3>5, GoToType DEF ClaimBatch, TypeOK, bounds
  <2>4. ASSUME NEW w \in Workers, NEW c \in batch[w], TakeTrial(w, c)
        PROVE  TypeOK'
    BY <2>4, GoToType DEF TakeTrial, TypeOK, tables, bounds, Calling
  <2>5. ASSUME NEW w \in Workers, NEW c \in batch[w], Renew(w, c)
        PROVE  TypeOK'
    <3> DEFINE left == Lease - elapsed[w]
    <3>1. elapsed[w] \in Nat /\ elapsed[w] <= MaxLatency
      BY <2>5 DEF Renew, TypeOK, Calling
    <3>2. left \in 0 .. Lease /\ left \in (0 - MaxLatency) .. Lease
      BY <3>1, StudyAssumption
    <3>3. c \in Claim /\ c.trial \in Trials
      BY DEF TypeOK, Claim
    <3>4. queue' = [queue EXCEPT ![c.trial].left = left]
      BY <2>5 DEF Renew
    <3>5. queue' \in [Trials -> Row]
      BY <3>2, <3>3, <3>4 DEF TypeOK, Row
    <3>6. batch' \in [Workers -> SUBSET Claim]
      <4>1. [c EXCEPT !.left = left] \in Claim
        BY <3>2, <3>3 DEF Claim
      <4> QED
        BY <2>5, <4>1 DEF Renew, TypeOK
    <3> QED
      BY <2>5, <3>5, <3>6, GoToType DEF Renew, TypeOK, bounds
  <2>6. ASSUME NEW w \in Workers, Evaluated(w)
        PROVE  TypeOK'
    BY <2>6, GoToType DEF Evaluated, TypeOK, tables, bounds, Calling
  <2>7. ASSUME NEW w \in Workers, NEW c \in batch[w], Complete(w, c)
        PROVE  TypeOK'
    <3>1. c.trial \in Trials /\ c.attempt \in Nat /\ queue[c.trial] \in Row
      BY DEF TypeOK, Claim
    <3>2. queue' \in [Trials -> Row]
      BY <2>7, <3>1, ReleasedType DEF Complete, TypeOK, TrialState
    <3>3. EventOf(c.trial, "SUCCEEDED", w) \in Event
      BY <3>1 DEF EventOf, Event, EventType, Row
    <3>4. log' \in [Trials -> Seq(Event)] /\ results' \in [Trials -> Result]
      BY <2>7, <3>1, <3>3 DEF Complete, TypeOK, Result
    <3> QED
      BY <2>7, <3>2, <3>4, GoToType DEF Complete, NextTrial, TypeOK, bounds
  <2>8. ASSUME NEW w \in Workers, NEW c \in batch[w], Fail(w, c)
        PROVE  TypeOK'
    <3>1. c.trial \in Trials /\ queue[c.trial] \in Row
      BY DEF TypeOK, Claim
    <3>2. queue' \in [Trials -> Row]
      BY <2>8, <3>1, ReleasedType DEF Fail, TypeOK, TrialState
    <3>3. EventOf(c.trial, "FAILED", w) \in Event
      BY <3>1 DEF EventOf, Event, EventType, Row
    <3>4. log' \in [Trials -> Seq(Event)]
      BY <2>8, <3>1, <3>3 DEF Fail, TypeOK
    <3> QED
      BY <2>8, <3>2, <3>4, GoToType DEF Fail, NextTrial, TypeOK, bounds
  <2>9. ASSUME NEW w \in Workers, NEW c \in batch[w], LoseLease(w, c)
        PROVE  TypeOK'
    BY <2>9, GoToType DEF LoseLease, NextTrial, TypeOK, tables, bounds
  <2>10. ASSUME NEW w \in Workers, LeaveClaims(w)
         PROVE  TypeOK'
    BY <2>10, GoToType, StudyAssumption DEF LeaveClaims, TypeOK, tables
  <2>11. CASE RetryFailed
    <3>1. queue' \in [Trials -> Row]
      BY <2>11 DEF RetryFailed, TypeOK, Row, TrialState
    <3>2. \A t \in Trials : EventOf(t, "RETRY_REQUESTED", NoOne) \in Event
      BY DEF EventOf, Event, EventType, TypeOK, Row
    <3>3. log' \in [Trials -> Seq(Event)]
      BY <2>11, <3>2 DEF RetryFailed, TypeOK
    <3> QED
      BY <2>11, <3>1, <3>3, StudyAssumption DEF RetryFailed, TypeOK
  <2>12. CASE CancelStudy
    <3>1. queue' \in [Trials -> Row]
      BY <2>12, ReleasedType DEF CancelStudy, TypeOK, TrialState
    <3>2. \A t \in Trials : EventOf(t, "CANCELLED", NoOne) \in Event
      BY DEF EventOf, Event, EventType, TypeOK, Row
    <3>3. log' \in [Trials -> Seq(Event)]
      BY <2>12, <3>2 DEF CancelStudy, TypeOK
    <3> QED
      BY <2>12, <3>1, <3>3 DEF CancelStudy, TypeOK, bounds
  <2>13. CASE Tick
    <3>1. queue' \in [Trials -> Row]
      <4>1. \A t \in Trials : Later(queue[t].left, 0 - MaxLatency) \in (0 - MaxLatency) .. Lease
        BY StudyAssumption DEF Later, TypeOK, Row
      <4>2. \A t \in Trials : [queue[t] EXCEPT !.left = Later(queue[t].left, 0 - MaxLatency)] \in Row
        BY <4>1 DEF TypeOK, Row
      <4> QED
        BY <2>13, <4>2 DEF Tick, TypeOK
    <3>2. batch' \in [Workers -> SUBSET Claim]
      <4>1. \A w \in Workers : \A c \in batch[w] : Later(c.left, 0) \in 0 .. Lease
        BY StudyAssumption DEF Later, TypeOK, Claim
      <4>2. \A w \in Workers : \A c \in batch[w] : [c EXCEPT !.left = Later(c.left, 0)] \in Claim
        <5>1. \A w \in Workers : \A c \in batch[w] : c \in Claim
          BY DEF TypeOK
        <5> QED
          BY <4>1, <5>1 DEF Claim
      <4> QED
        BY <2>13, <4>2 DEF Tick, TypeOK
    <3>3. /\ elapsed' \in [Workers -> Nat]
          /\ \A w \in Workers : pc'[w] \in Calling => elapsed'[w] <= MaxLatency
      BY <2>13, StudyAssumption DEF Tick, TypeOK
    <3>4. mishaps' \in 0 .. MaxMishaps
      <4>1. Cardinality(Delayed) \in Nat
        BY FS_Subset, FS_CardinalityType, StudyAssumption DEF Delayed
      <4> QED
        BY <2>13, <4>1, StudyAssumption DEF Tick, TypeOK
    <3> QED
      BY <2>13, <3>1, <3>2, <3>3, <3>4 DEF Tick, TypeOK
  <2>14. CASE UNCHANGED vars
    BY <2>14 DEF TypeOK, vars, bounds
  <2> QED
    BY <2>1, <2>2, <2>3, <2>4, <2>5, <2>6, <2>7, <2>8, <2>9, <2>10, <2>11, <2>12, <2>13, <2>14
    DEF Next, WorkerStep, TrialStep, Stop, Crash
<1> QED
  BY <1>1, <1>2, PTL DEF Spec

--------------------------------------------------------------------------------
\* What a step does to one trial: its row, its events and its result.

\* At most the time left of its lease changes.
Kept(t) ==
    /\ queue'[t].state = queue[t].state
    /\ queue'[t].attempt = queue[t].attempt
    /\ queue'[t].owner = queue[t].owner
    /\ log'[t] = log[t]
    /\ results'[t] = results[t]

\* register_study inserts it.
Enters(t) ==
    /\ queue[t].state = "UNPLANNED" /\ queue'[t].state = "PENDING"
    /\ queue'[t].attempt = queue[t].attempt
    /\ log'[t] = log[t]
    /\ results'[t] = results[t]

\* A worker claims it.
Claimed(t, w) ==
    /\ queue[t].state \in {"PENDING", "CLAIMED"} /\ queue'[t].state = "CLAIMED"
    /\ queue'[t].attempt = queue[t].attempt + 1
    /\ queue'[t].owner = w
    /\ log'[t] = ClaimedLog(w, t)
    /\ results'[t] = results[t]

\* Its row moves to another state and one event says so.
Moves(t, state, kind, worker) ==
    /\ queue'[t].state = state
    /\ queue'[t].attempt = queue[t].attempt
    /\ log'[t] = Append(log[t], EventOf(t, kind, worker))

\* Its holder reports a result.
Succeeds(t, w) ==
    /\ queue[t].state = "CLAIMED" /\ queue[t].owner = w
    /\ Moves(t, "SUCCEEDED", "SUCCEEDED", w)
    /\ results'[t] = [attempt |-> queue[t].attempt, worker |-> w]

\* It ends without a result, or is queued again.
Resultless(t) ==
    /\ results'[t] = results[t]
    /\ \/ queue[t].state = "CLAIMED" /\ \E w \in Workers : Moves(t, "FAILED", "FAILED", w)
       \/ queue[t].state = "FAILED" /\ Moves(t, "PENDING", "RETRY_REQUESTED", NoOne)
       \/ queue[t].state \in {"PENDING", "CLAIMED", "FAILED"} /\ Moves(t, "CANCELLED", "CANCELLED", NoOne)

TrialMove(t) ==
    \/ Kept(t)
    \/ Enters(t)
    \/ \E w \in Workers : Claimed(t, w) \/ Succeeds(t, w)
    \/ Resultless(t)

\* Every step of the system is one of these for every trial.
LEMMA EveryStepMoves ==
    ASSUME TypeOK, [Next]_vars, NEW t \in Trials
    PROVE  TrialMove(t)
<1> USE DEF TypeOK
<1>0. queue[t] \in Row /\ DOMAIN queue = Trials
  OBVIOUS
<1>1. ASSUME NEW w \in Workers, Start(w)
      PROVE  TrialMove(t)
  <2>1. queue'[t] = IF queue[t].state = "UNPLANNED" THEN [queue[t] EXCEPT !.state = "PENDING"] ELSE queue[t]
    BY <1>1 DEF Start
  <2>2. log'[t] = log[t] /\ results'[t] = results[t]
    BY <1>1 DEF Start
  <2> QED
    BY <1>0, <2>1, <2>2 DEF TrialMove, Kept, Enters, Row
<1>2. ASSUME NEW w \in Workers, ClaimBatch(w)
      PROVE  TrialMove(t)
  <2>1. PICK skipped \in SUBSET Contended(w) :
          /\ queue' = [u \in Trials |-> IF u \in Picked(w, skipped) THEN ClaimedRow(w, queue[u]) ELSE queue[u]]
          /\ log' = [u \in Trials |-> IF u \in Picked(w, skipped) THEN ClaimedLog(w, u) ELSE log[u]]
    BY <1>2 DEF ClaimBatch
  <2>2. results' = results
    BY <1>2 DEF ClaimBatch
  <2>3. CASE t \in Picked(w, skipped)
    <3>1. queue[t].state \in {"PENDING", "CLAIMED"}
      BY <2>3 DEF Picked, FirstOf, Claimable
    <3>2. queue'[t] = ClaimedRow(w, queue[t]) /\ log'[t] = ClaimedLog(w, t)
      BY <2>1, <2>3
    <3> QED
      BY <2>2, <3>1, <3>2 DEF TrialMove, Claimed, ClaimedRow
  <2>4. CASE t \notin Picked(w, skipped)
    BY <2>1, <2>2, <2>4 DEF TrialMove, Kept
  <2> QED
    BY <2>3, <2>4
<1>3. ASSUME NEW w \in Workers, NEW c \in batch[w], Renew(w, c)
      PROVE  TrialMove(t)
  <2>1. queue' = [queue EXCEPT ![c.trial].left = Lease - elapsed[w]] /\ log' = log /\ results' = results
    BY <1>3 DEF Renew
  <2>2. queue'[t] = IF t = c.trial THEN [queue[t] EXCEPT !.left = Lease - elapsed[w]] ELSE queue[t]
    BY <1>0, <2>1
  <2> QED
    BY <1>0, <2>1, <2>2 DEF TrialMove, Kept, Row
<1>4. ASSUME NEW w \in Workers, NEW c \in batch[w], Complete(w, c)
      PROVE  TrialMove(t)
  <2>1. CASE t = c.trial
    <3>1. queue[t].state = "CLAIMED" /\ queue[t].owner = w /\ queue[t].attempt = c.attempt
      BY <1>4, <2>1 DEF Complete, HoldsLease
    <3>2. queue'[t] = Released(queue[t], "SUCCEEDED")
      BY <1>0, <1>4, <2>1 DEF Complete
    <3>3. queue'[t].state = "SUCCEEDED" /\ queue'[t].attempt = queue[t].attempt
      BY <1>0, <3>2 DEF Released, Row
    <3>4. /\ log'[t] = Append(log[t], EventOf(t, "SUCCEEDED", w))
          /\ results'[t] = [attempt |-> c.attempt, worker |-> w]
      BY <1>4, <2>1 DEF Complete
    <3> QED
      BY <3>1, <3>3, <3>4 DEF TrialMove, Succeeds, Moves
  <2>2. CASE t # c.trial
    BY <1>4, <2>2 DEF Complete, TrialMove, Kept
  <2> QED
    BY <2>1, <2>2
<1>5. ASSUME NEW w \in Workers, NEW c \in batch[w], Fail(w, c)
      PROVE  TrialMove(t)
  <2>1. CASE t = c.trial
    <3>1. queue[t].state = "CLAIMED"
      BY <1>5, <2>1 DEF Fail, HoldsLease
    <3>2. queue'[t] = Released(queue[t], "FAILED")
      BY <1>0, <1>5, <2>1 DEF Fail
    <3>3. queue'[t].state = "FAILED" /\ queue'[t].attempt = queue[t].attempt
      BY <1>0, <3>2 DEF Released, Row
    <3>4. log'[t] = Append(log[t], EventOf(t, "FAILED", w)) /\ results'[t] = results[t]
      BY <1>5, <2>1 DEF Fail
    <3> QED
      BY <3>1, <3>3, <3>4 DEF TrialMove, Resultless, Moves
  <2>2. CASE t # c.trial
    BY <1>5, <2>2 DEF Fail, TrialMove, Kept
  <2> QED
    BY <2>1, <2>2
<1>6. CASE RetryFailed
  <2>1. CASE queue[t].state = "FAILED"
    <3>1. queue'[t] = [queue[t] EXCEPT !.state = "PENDING"]
      BY <1>6, <2>1 DEF RetryFailed
    <3>2. queue'[t].state = "PENDING" /\ queue'[t].attempt = queue[t].attempt
      BY <1>0, <3>1 DEF Row
    <3>3. log'[t] = Append(log[t], EventOf(t, "RETRY_REQUESTED", NoOne)) /\ results'[t] = results[t]
      BY <1>6, <2>1 DEF RetryFailed
    <3> QED
      BY <2>1, <3>2, <3>3 DEF TrialMove, Resultless, Moves
  <2>2. CASE queue[t].state # "FAILED"
    BY <1>6, <2>2 DEF RetryFailed, TrialMove, Kept
  <2> QED
    BY <2>1, <2>2
<1>7. CASE CancelStudy
  <2>1. CASE queue[t].state \in {"PENDING", "CLAIMED", "FAILED"}
    <3>1. queue'[t] = Released(queue[t], "CANCELLED")
      BY <1>7, <2>1 DEF CancelStudy
    <3>2. queue'[t].state = "CANCELLED" /\ queue'[t].attempt = queue[t].attempt
      BY <1>0, <3>1 DEF Released, Row
    <3>3. log'[t] = Append(log[t], EventOf(t, "CANCELLED", NoOne)) /\ results'[t] = results[t]
      BY <1>7, <2>1 DEF CancelStudy
    <3> QED
      BY <2>1, <3>2, <3>3 DEF TrialMove, Resultless, Moves
  <2>2. CASE queue[t].state \notin {"PENDING", "CLAIMED", "FAILED"}
    BY <1>7, <2>2 DEF CancelStudy, TrialMove, Kept
  <2> QED
    BY <2>1, <2>2
<1>8. CASE Tick
  <2>1. /\ log' = log /\ results' = results
        /\ queue'[t] = IF queue[t].state = "CLAIMED"
                       THEN [queue[t] EXCEPT !.left = Later(queue[t].left, 0 - MaxLatency)] ELSE queue[t]
    BY <1>8 DEF Tick
  <2> QED
    BY <1>0, <2>1 DEF TrialMove, Kept, Row
<1>9. CASE UNCHANGED tables
  BY <1>9 DEF tables, TrialMove, Kept
<1>10. ASSUME NEW w \in Workers,
              \/ BeginClaim(w) \/ Drained(w) \/ Evaluated(w) \/ LeaveClaims(w)
              \/ \E c \in batch[w] : TakeTrial(w, c) \/ LoseLease(w, c)
       PROVE  UNCHANGED tables
  BY <1>10 DEF BeginClaim, Drained, Evaluated, LeaveClaims, TakeTrial, LoseLease, tables
<1>11. UNCHANGED vars => UNCHANGED tables
  BY DEF vars, tables
<1> QED
  BY <1>1, <1>2, <1>3, <1>4, <1>5, <1>6, <1>7, <1>8, <1>9, <1>10, <1>11
  DEF Next, WorkerStep, TrialStep, Stop, Crash

--------------------------------------------------------------------------------
\* The evidence of the attempts.

\* The attempts of a log that grew by one event.
LEMMA AppendAttempts ==
    ASSUME NEW s \in Seq(Event), NEW e \in Event, NEW kind
    PROVE  Attempts(Append(s, e), kind) = Attempts(s, kind) \cup (IF e.kind = kind THEN {e.attempt} ELSE {})
<1> DEFINE longer == Append(s, e)
<1>1. /\ Len(s) \in Nat
      /\ DOMAIN s = 1 .. Len(s)
      /\ DOMAIN longer = 1 .. Len(s) + 1
      /\ longer[Len(s) + 1] = e
      /\ \A i \in 1 .. Len(s) : longer[i] = s[i]
  OBVIOUS
<1> HIDE DEF longer
<1>2. ASSUME NEW a \in Attempts(longer, kind)
      PROVE  a \in Attempts(s, kind) \cup (IF e.kind = kind THEN {e.attempt} ELSE {})
  <2>1. PICK i \in 1 .. Len(s) + 1 : longer[i].kind = kind /\ a = longer[i].attempt
    BY <1>1, <1>2 DEF Attempts
  <2>2. CASE i = Len(s) + 1
    BY <1>1, <2>1, <2>2
  <2>3. CASE i \in 1 .. Len(s)
    BY <1>1, <2>1, <2>3 DEF Attempts
  <2> QED
    BY <1>1, <2>1, <2>2, <2>3
<1>3. ASSUME NEW a \in Attempts(s, kind)
      PROVE  a \in Attempts(longer, kind)
  <2>1. PICK i \in 1 .. Len(s) : s[i].kind = kind /\ a = s[i].attempt
    BY <1>1, <1>3 DEF Attempts
  <2>2. i \in DOMAIN longer /\ longer[i].kind = kind /\ a = longer[i].attempt
    BY <1>1, <2>1
  <2> QED
    BY <2>2 DEF Attempts
<1>4. e.kind = kind => e.attempt \in Attempts(longer, kind)
  <2>1. Len(s) + 1 \in DOMAIN longer
    BY <1>1
  <2> QED
    BY <1>1, <2>1 DEF Attempts
<1>5. Attempts(longer, kind) = Attempts(s, kind) \cup (IF e.kind = kind THEN {e.attempt} ELSE {})
  BY <1>2, <1>3, <1>4
<1> QED
  BY <1>5 DEF longer

\* A log stays free of duplicates when it grows by a new identifier.
LEMMA AppendDistinct ==
    ASSUME NEW s \in Seq(Event), NEW e \in Event, EventIdsDistinct(s),
           e.attempt \notin Attempts(s, e.kind)
    PROVE  EventIdsDistinct(Append(s, e))
<1> DEFINE longer == Append(s, e)
<1>1. /\ Len(s) \in Nat
      /\ DOMAIN s = 1 .. Len(s)
      /\ DOMAIN longer = 1 .. Len(s) + 1
      /\ longer[Len(s) + 1] = e
      /\ \A i \in 1 .. Len(s) : longer[i] = s[i]
  OBVIOUS
<1> HIDE DEF longer
<1>2. \A i \in 1 .. Len(s) : ~(s[i].attempt = e.attempt /\ s[i].kind = e.kind)
  BY <1>1 DEF Attempts
<1>3. \A i \in 1 .. Len(s) + 1 : i \in 1 .. Len(s) \/ i = Len(s) + 1
  BY <1>1
<1>4. ASSUME NEW i \in 1 .. Len(s) + 1, NEW j \in 1 .. Len(s) + 1,
             longer[i].attempt = longer[j].attempt, longer[i].kind = longer[j].kind
      PROVE  i = j
  <2>1. CASE i \in 1 .. Len(s) /\ j \in 1 .. Len(s)
    BY <1>1, <1>4, <2>1 DEF EventIdsDistinct
  <2>2. CASE i = Len(s) + 1 /\ j \in 1 .. Len(s)
    BY <1>1, <1>2, <1>4, <2>2
  <2>3. CASE i \in 1 .. Len(s) /\ j = Len(s) + 1
    BY <1>1, <1>2, <1>4, <2>3
  <2> QED
    BY <1>3, <2>1, <2>2, <2>3
<1>5. EventIdsDistinct(longer)
  BY <1>1, <1>4 DEF EventIdsDistinct
<1> QED
  BY <1>5 DEF longer

\* What Accounted says of the identifiers that the next events will have: they
\* are new.
LEMMA FreshAttempts ==
    ASSUME NEW last \in Nat, NEW state, NEW s \in Seq(Event), Accounted(last, state, s)
    PROVE  /\ last + 1 \notin Attempts(s, "CLAIMED")
           /\ last \notin Attempts(s, "LEASE_EXPIRED")
           /\ state = "CLAIMED" => last \notin Attempts(s, "FAILED")
           /\ state = "FAILED" => last \notin Attempts(s, "RETRY_REQUESTED")
           /\ state \notin {"SUCCEEDED", "CANCELLED"} =>
                  last \notin Attempts(s, "SUCCEEDED") /\ last \notin Attempts(s, "CANCELLED")
BY DEF Accounted

\* claim accounts for the new attempt, and for the end of an abandoned one.
LEMMA ClaimAccounted ==
    ASSUME TypeOK, NEW t \in Trials, NEW w \in Workers,
           queue[t].state \in {"PENDING", "CLAIMED"},
           Accounted(queue[t].attempt, queue[t].state, log[t])
    PROVE  Accounted(queue[t].attempt + 1, "CLAIMED", ClaimedLog(w, t))
<1> DEFINE last == queue[t].attempt
           s == log[t]
           abandoned == IF queue[t].state = "CLAIMED"
                        THEN Append(s, EventOf(t, "LEASE_EXPIRED", queue[t].owner)) ELSE s
           new == [attempt |-> last + 1, kind |-> "CLAIMED", worker |-> w]
<1>1. last \in Nat /\ s \in Seq(Event) /\ queue[t] \in Row
  BY DEF TypeOK, Row
<1>2. EventOf(t, "LEASE_EXPIRED", queue[t].owner) \in Event
  BY <1>1 DEF EventOf, Event, EventType, Row
<1>3. new \in Event
  BY <1>1 DEF Event, EventType
<1>4. /\ abandoned \in Seq(Event)
      /\ EventIdsDistinct(abandoned)
      /\ \A kind \in EventType \ {"LEASE_EXPIRED"} : Attempts(abandoned, kind) = Attempts(s, kind)
      /\ Attempts(abandoned, "LEASE_EXPIRED") =
             Attempts(s, "LEASE_EXPIRED") \cup (IF queue[t].state = "CLAIMED" THEN {last} ELSE {})
  <2>1. CASE queue[t].state = "CLAIMED"
    <3> DEFINE e == EventOf(t, "LEASE_EXPIRED", queue[t].owner)
    <3>1. e.kind = "LEASE_EXPIRED" /\ e.attempt = last
      BY DEF EventOf
    <3>2. e \in Event
      BY <1>2
    <3>3. e.attempt \notin Attempts(s, e.kind)
      BY <1>1, <3>1, FreshAttempts
    <3>4. EventIdsDistinct(s)
      BY DEF Accounted
    <3>5. abandoned = Append(s, e)
      BY <2>1
    <3> HIDE DEF e, abandoned
    <3>6. EventIdsDistinct(abandoned)
      BY <1>1, <3>2, <3>3, <3>4, <3>5, AppendDistinct
    <3>7. \A kind \in EventType : Attempts(abandoned, kind) =
              Attempts(s, kind) \cup (IF e.kind = kind THEN {e.attempt} ELSE {})
      BY <1>1, <3>2, <3>5, AppendAttempts
    <3>8. abandoned \in Seq(Event)
      BY <1>1, <3>2, <3>5
    <3> QED
      BY <2>1, <3>1, <3>6, <3>7, <3>8 DEF EventType
  <2>2. CASE queue[t].state # "CLAIMED"
    <3>1. abandoned = s
      BY <2>2
    <3> HIDE DEF abandoned
    <3>2. EventIdsDistinct(s)
      BY DEF Accounted
    <3> QED
      BY <1>1, <2>2, <3>1, <3>2
  <2> QED
    BY <2>1, <2>2
<1>5. ClaimedLog(w, t) = Append(abandoned, new)
  BY DEF ClaimedLog
<1> HIDE DEF abandoned
<1>6. last + 1 \notin Attempts(abandoned, "CLAIMED")
  BY <1>1, <1>4, FreshAttempts DEF EventType
<1>7. EventIdsDistinct(Append(abandoned, new))
  BY <1>3, <1>4, <1>6, AppendDistinct
<1>8. \A kind \in EventType : Attempts(Append(abandoned, new), kind) =
          Attempts(abandoned, kind) \cup (IF "CLAIMED" = kind THEN {last + 1} ELSE {})
  BY <1>3, <1>4, AppendAttempts
<1> DEFINE grown == Append(abandoned, new)
<1> HIDE DEF grown
<1>9. /\ Attempts(grown, "CLAIMED") = Attempts(s, "CLAIMED") \cup {last + 1}
      /\ Attempts(grown, "LEASE_EXPIRED") =
             Attempts(s, "LEASE_EXPIRED") \cup (IF queue[t].state = "CLAIMED" THEN {last} ELSE {})
      /\ Attempts(grown, "FAILED") = Attempts(s, "FAILED")
      /\ Attempts(grown, "RETRY_REQUESTED") = Attempts(s, "RETRY_REQUESTED")
      /\ Attempts(grown, "SUCCEEDED") = Attempts(s, "SUCCEEDED")
      /\ Attempts(grown, "CANCELLED") = Attempts(s, "CANCELLED")
      /\ EventIdsDistinct(grown)
  BY <1>4, <1>7, <1>8 DEF EventType, grown
<1>10. Accounted(last + 1, "CLAIMED", grown)
  <2>1. Accounted(last, queue[t].state, s)
    OBVIOUS
  <2>2. Attempts(grown, "CLAIMED") = 1 .. (last + 1)
    <3>1. Attempts(s, "CLAIMED") = 1 .. last
      BY <2>1 DEF Accounted
    <3>2. 1 .. (last + 1) = (1 .. last) \cup {last + 1}
      BY <1>1
    <3> QED
      BY <1>9, <3>1, <3>2
  <2>3. /\ Attempts(grown, "LEASE_EXPIRED") \subseteq 1 .. last
        /\ Attempts(grown, "FAILED") \subseteq 1 .. last
        /\ Attempts(grown, "LEASE_EXPIRED") \cap Attempts(grown, "FAILED") = {}
    BY <1>1, <1>9, <2>1, FreshAttempts DEF Accounted
  <2>4. /\ Attempts(grown, "RETRY_REQUESTED") \subseteq Attempts(grown, "FAILED")
        /\ Attempts(grown, "FAILED") \ Attempts(grown, "RETRY_REQUESTED") = {}
    BY <1>1, <1>9, <2>1 DEF Accounted
  <2>5. 1 .. last \subseteq Attempts(grown, "LEASE_EXPIRED") \cup Attempts(grown, "RETRY_REQUESTED")
    <3>1. 1 .. (last - 1) \subseteq Attempts(s, "LEASE_EXPIRED") \cup Attempts(s, "RETRY_REQUESTED")
      BY <2>1 DEF Accounted
    <3>2. queue[t].state = "PENDING" => last = 0 \/ last \in Attempts(s, "RETRY_REQUESTED")
      BY <2>1 DEF Accounted
    <3>3. \A a \in 1 .. last : a \in 1 .. (last - 1) \/ a = last
      BY <1>1
    <3> QED
      BY <1>1, <1>9, <3>1, <3>2, <3>3
  <2>6. last + 1 \notin Attempts(grown, "RETRY_REQUESTED")
    BY <1>1, <2>3, <2>4
  <2>7. Attempts(grown, "SUCCEEDED") = {} /\ Attempts(grown, "CANCELLED") = {}
    BY <1>9, <2>1 DEF Accounted
  <2>8. (last + 1) - 1 = last /\ last + 1 > 0 /\ 1 .. last \subseteq 1 .. (last + 1)
    BY <1>1
  <2> QED
    BY <1>9, <2>2, <2>3, <2>4, <2>5, <2>6, <2>7, <2>8 DEF Accounted
<1> QED
  BY <1>5, <1>10 DEF grown

\* So does every other event.
LEMMA MoveAccounted ==
    ASSUME TypeOK, NEW t \in Trials, NEW worker \in Workers \cup {NoOne},
           NEW state \in TrialState, NEW kind \in EventType,
           Accounted(queue[t].attempt, queue[t].state, log[t]),
           \/ queue[t].state = "CLAIMED" /\ state = "SUCCEEDED" /\ kind = "SUCCEEDED"
           \/ queue[t].state = "CLAIMED" /\ state = "FAILED" /\ kind = "FAILED"
           \/ queue[t].state = "FAILED" /\ state = "PENDING" /\ kind = "RETRY_REQUESTED"
           \/ queue[t].state \in {"PENDING", "CLAIMED", "FAILED"} /\ state = "CANCELLED" /\ kind = "CANCELLED"
    PROVE  Accounted(queue[t].attempt, state, Append(log[t], EventOf(t, kind, worker)))
<1> DEFINE last == queue[t].attempt
           s == log[t]
           e == EventOf(t, kind, worker)
           grown == Append(s, e)
<1>1. last \in Nat /\ s \in Seq(Event)
  BY DEF TypeOK, Row
<1>2. e \in Event /\ e.attempt = last /\ e.kind = kind
  BY <1>1 DEF EventOf, Event
<1>3. last \notin Attempts(s, kind)
  BY <1>1, FreshAttempts
<1>4. EventIdsDistinct(s)
  BY DEF Accounted
<1> HIDE DEF e
<1>5. EventIdsDistinct(grown)
  BY <1>1, <1>2, <1>3, <1>4, AppendDistinct
<1>6. \A k \in EventType : Attempts(grown, k) = Attempts(s, k) \cup (IF kind = k THEN {last} ELSE {})
  BY <1>1, <1>2, AppendAttempts
<1> HIDE DEF grown
<1>7. /\ Attempts(grown, "CLAIMED") = Attempts(s, "CLAIMED") \cup (IF kind = "CLAIMED" THEN {last} ELSE {})
      /\ Attempts(grown, "LEASE_EXPIRED") =
             Attempts(s, "LEASE_EXPIRED") \cup (IF kind = "LEASE_EXPIRED" THEN {last} ELSE {})
      /\ Attempts(grown, "FAILED") = Attempts(s, "FAILED") \cup (IF kind = "FAILED" THEN {last} ELSE {})
      /\ Attempts(grown, "RETRY_REQUESTED") =
             Attempts(s, "RETRY_REQUESTED") \cup (IF kind = "RETRY_REQUESTED" THEN {last} ELSE {})
      /\ Attempts(grown, "SUCCEEDED") = Attempts(s, "SUCCEEDED") \cup (IF kind = "SUCCEEDED" THEN {last} ELSE {})
      /\ Attempts(grown, "CANCELLED") = Attempts(s, "CANCELLED") \cup (IF kind = "CANCELLED" THEN {last} ELSE {})
  BY <1>6 DEF EventType
<1>8. Accounted(last, queue[t].state, s)
  OBVIOUS
<1>9. queue[t].state = "CLAIMED" => last \in 1 .. last
  BY <1>1, <1>8 DEF Accounted
<1>10. Accounted(last, state, grown)
  <2>1. CASE queue[t].state = "CLAIMED" /\ state = "SUCCEEDED" /\ kind = "SUCCEEDED"
    BY <1>1, <1>5, <1>7, <1>8, <2>1 DEF Accounted
  <2>2. CASE queue[t].state = "CLAIMED" /\ state = "FAILED" /\ kind = "FAILED"
    BY <1>1, <1>5, <1>7, <1>8, <1>9, <2>2 DEF Accounted
  <2>3. CASE queue[t].state = "FAILED" /\ state = "PENDING" /\ kind = "RETRY_REQUESTED"
    BY <1>1, <1>5, <1>7, <1>8, <2>3 DEF Accounted
  <2>4. CASE queue[t].state \in {"PENDING", "CLAIMED", "FAILED"} /\ state = "CANCELLED" /\ kind = "CANCELLED"
    BY <1>1, <1>5, <1>7, <1>8, <2>4 DEF Accounted
  <2> QED
    BY <2>1, <2>2, <2>3, <2>4
<1> QED
  BY <1>10 DEF grown, e

\* The evidence accounts for every attempt, in every state: no call of the
\* ledger is refused because an event of it exists already.
THEOREM AttemptsAreAccounted == Spec => []AttemptsAccounted
<1>1. Init => AttemptsAccounted
  BY DEF Init, AttemptsAccounted, Accounted, Attempts, EventIdsDistinct
<1>2. ASSUME TypeOK, AttemptsAccounted, [Next]_vars
      PROVE  AttemptsAccounted'
  <2> SUFFICES ASSUME NEW t \in Trials
               PROVE  Accounted(queue'[t].attempt, queue'[t].state, log'[t])
    BY DEF AttemptsAccounted
  <2>1. Accounted(queue[t].attempt, queue[t].state, log[t])
    BY <1>2 DEF AttemptsAccounted
  <2>2. TrialMove(t)
    BY <1>2, EveryStepMoves
  <2>3. CASE Kept(t)
    BY <2>1, <2>3 DEF Kept
  <2>4. CASE Enters(t)
    <3>1. queue'[t].attempt = queue[t].attempt /\ log'[t] = log[t]
      BY <2>4 DEF Enters
    <3> QED
      BY <2>1, <2>4, <3>1 DEF Enters, Accounted
  <2>5. ASSUME NEW w \in Workers, Claimed(t, w)
        PROVE  Accounted(queue'[t].attempt, queue'[t].state, log'[t])
    BY <1>2, <2>1, <2>5, ClaimAccounted DEF Claimed
  <2>6. ASSUME NEW w \in Workers, Succeeds(t, w)
        PROVE  Accounted(queue'[t].attempt, queue'[t].state, log'[t])
    BY <1>2, <2>1, <2>6, MoveAccounted DEF Succeeds, Moves, TrialState, EventType
  <2>7. CASE Resultless(t)
    BY <1>2, <2>1, <2>7, MoveAccounted DEF Resultless, Moves, TrialState, EventType
  <2> QED
    BY <2>2, <2>3, <2>4, <2>5, <2>6, <2>7 DEF TrialMove
<1> QED
  BY <1>1, <1>2, TypeCorrect, PTL DEF Spec

--------------------------------------------------------------------------------
\* Results.

Recorded(events, e) == \E i \in DOMAIN events : events[i] = e

\* A longer log records what it recorded before, and the new event.
LEMMA AppendRecorded ==
    ASSUME NEW s \in Seq(Event), NEW e \in Event
    PROVE  /\ Recorded(Append(s, e), e)
           /\ \A d : Recorded(s, d) => Recorded(Append(s, e), d)
<1> DEFINE longer == Append(s, e)
<1>1. /\ Len(s) \in Nat
      /\ DOMAIN s = 1 .. Len(s)
      /\ DOMAIN longer = 1 .. Len(s) + 1
      /\ longer[Len(s) + 1] = e
      /\ \A i \in 1 .. Len(s) : longer[i] = s[i]
  OBVIOUS
<1> HIDE DEF longer
<1>2. Len(s) + 1 \in DOMAIN longer
  BY <1>1
<1>3. Recorded(longer, e)
  BY <1>1, <1>2 DEF Recorded
<1>4. ASSUME NEW d, Recorded(s, d)
      PROVE  Recorded(longer, d)
  <2>1. PICK i \in 1 .. Len(s) : s[i] = d
    BY <1>1, <1>4 DEF Recorded
  <2>2. i \in DOMAIN longer /\ longer[i] = d
    BY <1>1, <2>1
  <2> QED
    BY <2>2 DEF Recorded
<1> QED
  BY <1>3, <1>4 DEF longer

ClaimOf(attempt, worker) == [attempt |-> attempt, kind |-> "CLAIMED", worker |-> worker]

\* Who holds a lease was given the current attempt: without it, nothing ties
\* the worker of a result to the claim.
HolderRecorded ==
    \A t \in Trials : queue[t].state = "CLAIMED" =>
        Recorded(log[t], ClaimOf(queue[t].attempt, queue[t].owner))

\* ResultIsOfHolder for one trial.
ResultOfHolder(t) ==
    /\ results[t] # NoResult <=> queue[t].state = "SUCCEEDED"
    /\ queue[t].state = "SUCCEEDED" =>
           /\ results[t].attempt = queue[t].attempt
           /\ Recorded(log[t], ClaimOf(results[t].attempt, results[t].worker))

\* A trial has a result exactly when it succeeded, from the worker that held
\* the attempt it succeeded in.
THEOREM ResultsAreOfHolders == Spec => []ResultIsOfHolder
<1> DEFINE Inv == HolderRecorded /\ \A t \in Trials : ResultOfHolder(t)
<1>1. Init => Inv
  BY DEF Init, HolderRecorded, ResultOfHolder
<1>2. ASSUME TypeOK, Inv, [Next]_vars
      PROVE  Inv'
  <2> SUFFICES ASSUME NEW t \in Trials
               PROVE  /\ queue'[t].state = "CLAIMED" =>
                             Recorded(log'[t], ClaimOf(queue'[t].attempt, queue'[t].owner))
                      /\ ResultOfHolder(t)'
    BY DEF HolderRecorded
  <2>0. queue[t] \in Row /\ log[t] \in Seq(Event)
    BY <1>2 DEF TypeOK
  <2>1. /\ queue[t].state = "CLAIMED" => Recorded(log[t], ClaimOf(queue[t].attempt, queue[t].owner))
        /\ ResultOfHolder(t)
    BY <1>2 DEF HolderRecorded
  <2>2. TrialMove(t)
    BY <1>2, EveryStepMoves
  <2>3. CASE Kept(t) \/ Enters(t)
    BY <2>1, <2>3 DEF Kept, Enters, ResultOfHolder
  <2>4. ASSUME NEW w \in Workers, Claimed(t, w)
        PROVE  /\ Recorded(log'[t], ClaimOf(queue'[t].attempt, queue'[t].owner))
               /\ ResultOfHolder(t)'
    <3> DEFINE abandoned == IF queue[t].state = "CLAIMED"
                            THEN Append(log[t], EventOf(t, "LEASE_EXPIRED", queue[t].owner)) ELSE log[t]
    <3>1. EventOf(t, "LEASE_EXPIRED", queue[t].owner) \in Event
      BY <2>0 DEF EventOf, Event, EventType, Row
    <3>2. abandoned \in Seq(Event)
      BY <2>0, <3>1
    <3>3. ClaimOf(queue[t].attempt + 1, w) \in Event
      BY <2>0 DEF ClaimOf, Event, EventType, Row
    <3>4. log'[t] = Append(abandoned, ClaimOf(queue[t].attempt + 1, w))
      BY <2>4 DEF Claimed, ClaimedLog, ClaimOf
    <3>5. queue'[t].attempt = queue[t].attempt + 1 /\ queue'[t].owner = w
      BY <2>4 DEF Claimed
    <3> HIDE DEF abandoned
    <3>6. Recorded(log'[t], ClaimOf(queue'[t].attempt, queue'[t].owner))
      BY <3>2, <3>3, <3>4, <3>5, AppendRecorded
    <3> QED
      BY <2>1, <2>4, <3>6 DEF Claimed, ResultOfHolder
  <2>5. ASSUME NEW w \in Workers, Succeeds(t, w)
        PROVE  queue'[t].state # "CLAIMED" /\ ResultOfHolder(t)'
    <3>1. EventOf(t, "SUCCEEDED", w) \in Event
      BY <2>0 DEF EventOf, Event, EventType, Row
    <3>2. Recorded(log'[t], ClaimOf(queue[t].attempt, w))
      BY <2>0, <2>1, <2>5, <3>1, AppendRecorded DEF Succeeds, Moves
    <3>3. results'[t] = [attempt |-> queue[t].attempt, worker |-> w] /\ results'[t] # NoResult
      BY <2>5, StudyAssumption DEF Succeeds, NoResult
    <3>4. queue'[t].state = "SUCCEEDED" /\ queue'[t].attempt = queue[t].attempt
      BY <2>5 DEF Succeeds, Moves
    <3> QED
      BY <3>2, <3>3, <3>4 DEF ResultOfHolder
  <2>6. CASE Resultless(t)
    BY <2>1, <2>6 DEF Resultless, Moves, ResultOfHolder
  <2> QED
    BY <2>2, <2>3, <2>4, <2>5, <2>6, <2>1 DEF TrialMove, Kept, Enters
<1>3. Inv => ResultIsOfHolder
  BY DEF ResultIsOfHolder, ResultOfHolder, Recorded, ClaimOf
<1> QED
  BY <1>1, <1>2, <1>3, TypeCorrect, PTL DEF Spec

--------------------------------------------------------------------------------
\* Leases and work.

\* A claim whose own lease_expires_at has not passed: unless the study was
\* cancelled, the row still says the same.
Held(w, c) ==
    \/ queue[c.trial].state = "CANCELLED"
    \/ /\ queue[c.trial].state = "CLAIMED"
       /\ queue[c.trial].attempt = c.attempt
       /\ queue[c.trial].owner = w
       /\ queue[c.trial].left = c.left

\* A batch has one claim of a trial.
OneClaimPerTrial == \A w \in Workers : \A c, d \in batch[w] : c.trial = d.trial => c = d

\* Nobody takes a trial from a claim that lasts.
LastingClaimsHeld == \A w \in Workers : \A c \in batch[w] : c.left > 0 => Held(w, c)

\* What is left of a lease, and how much of the work it has to cover is done.
EnoughLeft ==
    \A w \in Workers : \A c \in batch[w] :
        Current(w, c) /\ ~delayed[w] =>
            /\ pc[w] = "evaluating" => elapsed[w] <= MaxWork /\ 2 * (c.left + elapsed[w]) >= Lease
            /\ pc[w] \in Reporting => 2 * (c.left + elapsed[w] + MaxWork) >= Lease

LeaseInv == OneClaimPerTrial /\ LastingClaimsHeld /\ EnoughLeft

\* The invariant implies the property because an evaluation and a report fit
\* into half a lease.
LEMMA LeaseInvSuffices ==
    ASSUME TypeOK, LeaseInv
    PROVE  LeaseOutlastsWork
<1> SUFFICES ASSUME NEW w \in Workers, NEW c \in batch[w],
                    pc[w] \in {"evaluating"} \cup Reporting, ~delayed[w], Current(w, c)
             PROVE  \/ queue[c.trial].state = "CANCELLED"
                    \/ /\ queue[c.trial].state = "CLAIMED" /\ queue[c.trial].attempt = c.attempt
                       /\ queue[c.trial].owner = w /\ queue[c.trial].left > 0
  BY DEF LeaseOutlastsWork
<1>1. c.left \in Nat /\ elapsed[w] \in Nat
  BY StudyAssumption DEF TypeOK, Claim
<1>2. pc[w] \in Reporting => elapsed[w] <= MaxLatency
  BY DEF TypeOK, Calling
<1>3. c.left > 0
  <2>1. CASE pc[w] = "evaluating"
    BY <1>1, <2>1, StudyAssumption, EvaluationsFit DEF LeaseInv, EnoughLeft
  <2>2. CASE pc[w] \in Reporting
    <3>1. 2 * (c.left + elapsed[w] + MaxWork) >= Lease
      BY <2>2 DEF LeaseInv, EnoughLeft
    <3> QED
      BY <1>1, <1>2, <2>2, <3>1, StudyAssumption, EvaluationsFit
  <2> QED
    BY <2>1, <2>2
<1> QED
  BY <1>3 DEF LeaseInv, LastingClaimsHeld, Held

\* Only its holder, or the operator, changes the row of a claimed trial whose
\* lease lasts; a step that leaves a worker's batch alone keeps its claims held.
LEMMA HeldKept ==
    ASSUME TypeOK, NEW w \in Workers, NEW c \in batch[w], c.left > 0, Held(w, c),
           \/ queue'[c.trial] = queue[c.trial]
           \/ queue[c.trial].state # "CLAIMED" /\ queue[c.trial].state # "CANCELLED"
           \/ queue[c.trial].state = "CLAIMED" /\ queue[c.trial].owner # w
           \/ queue'[c.trial].state = "CANCELLED"
    PROVE  Held(w, c)'
BY DEF Held

\* Two claims of a batch that are both current are one.
LEMMA CurrentIsUnique ==
    ASSUME TypeOK, OneClaimPerTrial, NEW w \in Workers, NEW c \in batch[w], NEW d \in batch[w],
           Current(w, c), Current(w, d)
    PROVE  c = d
<1>1. c.trial \in Nat /\ d.trial \in Nat
  BY StudyAssumption DEF TypeOK, Claim, Trials
<1>2. c.trial <= d.trial /\ d.trial <= c.trial
  BY DEF Current
<1> QED
  BY <1>1, <1>2 DEF OneClaimPerTrial

\* A claim keeps the invariant: it takes no trial whose lease lasts.
LEMMA ClaimKeepsLeases ==
    ASSUME TypeOK, LeaseInv, NEW w \in Workers, ClaimBatch(w)
    PROVE  LeaseInv'
<1>1. PICK skipped \in SUBSET Contended(w) :
        /\ queue' = [t \in Trials |-> IF t \in Picked(w, skipped) THEN ClaimedRow(w, queue[t]) ELSE queue[t]]
        /\ batch' = [batch EXCEPT ![w] =
               {[trial |-> t, attempt |-> queue[t].attempt + 1, left |-> Lease - elapsed[w]] : t \in Picked(w, skipped)}]
  BY DEF ClaimBatch
<1> DEFINE picked == Picked(w, skipped)
           claim(t) == [trial |-> t, attempt |-> queue[t].attempt + 1, left |-> Lease - elapsed[w]]
<1>2. /\ picked \subseteq Trials
      /\ \A t \in picked : Claimable(t, elapsed[w])
  BY DEF Picked, FirstOf
<1>3. batch' = [batch EXCEPT ![w] = {claim(t) : t \in picked}]
  BY <1>1
<1>4. queue' = [t \in Trials |-> IF t \in picked THEN ClaimedRow(w, queue[t]) ELSE queue[t]]
  BY <1>1
<1>5. pc' = [pc EXCEPT ![w] = "looping"] /\ elapsed' = [elapsed EXCEPT ![w] = 0] /\ delayed' = delayed
  BY DEF ClaimBatch, GoTo
<1> HIDE DEF picked
<1>6. batch'[w] = {claim(t) : t \in picked} /\ \A v \in Workers \ {w} : batch'[v] = batch[v]
  BY <1>3 DEF TypeOK
<1>7. OneClaimPerTrial'
  BY <1>6 DEF LeaseInv, OneClaimPerTrial
<1>8. LastingClaimsHeld'
  <2> SUFFICES ASSUME NEW v \in Workers, NEW c \in batch'[v], c.left > 0
               PROVE  Held(v, c)'
    BY DEF LastingClaimsHeld
  <2>1. CASE v = w
    <3>1. PICK t \in picked : c = claim(t)
      BY <1>6, <2>1
    <3>2. queue'[c.trial] = ClaimedRow(w, queue[c.trial])
      BY <1>2, <1>4, <3>1
    <3> QED
      BY <2>1, <3>1, <3>2 DEF Held, ClaimedRow
  <2>2. CASE v # w
    <3>1. c \in batch[v] /\ c \in Claim /\ c.trial \in Trials
      BY <1>6, <2>2 DEF TypeOK, Claim
    <3>2. Held(v, c)
      BY <3>1 DEF LeaseInv, LastingClaimsHeld
    <3>3. c.trial \notin picked
      <4>1. elapsed[w] \in Nat /\ c.left \in Nat
        BY <3>1, StudyAssumption DEF TypeOK, Claim
      <4>2. ~Claimable(c.trial, elapsed[w])
        BY <3>2, <4>1 DEF Held, Claimable, Expired
      <4> QED
        BY <1>2, <4>2
    <3>4. queue'[c.trial] = queue[c.trial]
      BY <1>4, <3>1, <3>3
    <3> QED
      BY <3>1, <3>2, <3>4, HeldKept
  <2> QED
    BY <2>1, <2>2
<1>9. EnoughLeft'
  <2> SUFFICES ASSUME NEW v \in Workers, NEW c \in batch'[v], Current(v, c)', ~delayed'[v]
               PROVE  /\ pc'[v] = "evaluating" => elapsed'[v] <= MaxWork /\ 2 * (c.left + elapsed'[v]) >= Lease
                      /\ pc'[v] \in Reporting => 2 * (c.left + elapsed'[v] + MaxWork) >= Lease
    BY DEF EnoughLeft
  <2>1. CASE v = w
    BY <1>5, <2>1 DEF TypeOK, Reporting
  <2>2. CASE v # w
    BY <1>5, <1>6, <2>2 DEF TypeOK, LeaseInv, EnoughLeft, Current
  <2> QED
    BY <2>1, <2>2
<1> QED
  BY <1>7, <1>8, <1>9 DEF LeaseInv

\* A renewal gives the claim and the row the same lease, with enough of it left.
LEMMA RenewKeepsLeases ==
    ASSUME TypeOK, LeaseInv, NEW w \in Workers, NEW c \in batch[w], Current(w, c), Renew(w, c)
    PROVE  LeaseInv'
<1> DEFINE left == Lease - elapsed[w]
           renewed == [c EXCEPT !.left = left]
<1>1. /\ queue' = [queue EXCEPT ![c.trial].left = left]
      /\ batch' = [batch EXCEPT ![w] = (batch[w] \ {c}) \cup {renewed}]
      /\ pc' = [pc EXCEPT ![w] = "evaluating"] /\ elapsed' = [elapsed EXCEPT ![w] = 0] /\ delayed' = delayed
      /\ HoldsLease(w, c) /\ pc[w] = "renewing"
  BY DEF Renew, GoTo
<1>2. c \in Claim /\ c.trial \in Trials /\ queue[c.trial] \in Row
  BY DEF TypeOK, Claim
<1>3. elapsed[w] \in Nat /\ elapsed[w] <= MaxLatency
  BY <1>1 DEF TypeOK, Calling
<1>4. left \in Nat /\ 2 * left >= Lease
  BY <1>3, StudyAssumption, EvaluationsFit
<1> HIDE DEF left
<1>5. renewed.trial = c.trial /\ renewed.attempt = c.attempt /\ renewed.left = left
  BY <1>2 DEF Claim
<1> HIDE DEF renewed
<1>6. batch'[w] = (batch[w] \ {c}) \cup {renewed} /\ \A v \in Workers \ {w} : batch'[v] = batch[v]
  BY <1>1 DEF TypeOK
<1>7. \A d \in batch[w] \ {c} : d.trial # c.trial
  BY DEF LeaseInv, OneClaimPerTrial
<1>8. OneClaimPerTrial'
  BY <1>5, <1>6, <1>7 DEF LeaseInv, OneClaimPerTrial
<1>9. /\ queue'[c.trial].state = "CLAIMED" /\ queue'[c.trial].attempt = c.attempt
      /\ queue'[c.trial].owner = w /\ queue'[c.trial].left = left
      /\ \A t \in Trials \ {c.trial} : queue'[t] = queue[t]
  BY <1>1, <1>2 DEF TypeOK, Row, HoldsLease
<1>10. LastingClaimsHeld'
  <2> SUFFICES ASSUME NEW v \in Workers, NEW d \in batch'[v], d.left > 0
               PROVE  Held(v, d)'
    BY DEF LastingClaimsHeld
  <2>1. CASE v = w /\ d = renewed
    BY <1>5, <1>9, <2>1 DEF Held
  <2>2. CASE v = w /\ d # renewed
    <3>1. d \in batch[w] /\ d.trial \in Trials /\ d.trial # c.trial
      BY <1>6, <1>7, <2>2 DEF TypeOK, Claim
    <3> QED
      BY <1>9, <2>2, <3>1, HeldKept DEF LeaseInv, LastingClaimsHeld
  <2>3. CASE v # w
    <3>1. d \in batch[v] /\ d.trial \in Trials /\ Held(v, d)
      BY <1>6, <2>3 DEF TypeOK, Claim, LeaseInv, LastingClaimsHeld
    <3>2. CASE d.trial = c.trial
      BY <1>1, <2>3, <3>1, <3>2, HeldKept DEF HoldsLease
    <3>3. CASE d.trial # c.trial
      BY <1>9, <3>1, <3>3, HeldKept
    <3> QED
      BY <3>2, <3>3
  <2> QED
    BY <2>1, <2>2, <2>3
<1>11. EnoughLeft'
  <2> SUFFICES ASSUME NEW v \in Workers, NEW d \in batch'[v], Current(v, d)', ~delayed'[v]
               PROVE  /\ pc'[v] = "evaluating" => elapsed'[v] <= MaxWork /\ 2 * (d.left + elapsed'[v]) >= Lease
                      /\ pc'[v] \in Reporting => 2 * (d.left + elapsed'[v] + MaxWork) >= Lease
    BY DEF EnoughLeft
  <2>1. CASE v = w
    <3>1. d = renewed
      <4>1. SUFFICES ASSUME d # renewed PROVE FALSE
        OBVIOUS
      <4>2. d \in batch[w] \ {c} /\ renewed \in batch'[w]
        BY <1>6, <2>1, <4>1
      <4>3. d.trial <= c.trial /\ c.trial <= d.trial
        BY <1>5, <2>1, <4>2 DEF Current
      <4>4. d.trial \in Nat /\ c.trial \in Nat
        BY <1>2, <4>2, StudyAssumption DEF TypeOK, Claim, Trials
      <4> QED
        BY <1>7, <4>2, <4>3, <4>4
    <3>2. pc'[w] = "evaluating" /\ elapsed'[w] = 0
      BY <1>1 DEF TypeOK
    <3> QED
      BY <1>4, <1>5, <2>1, <3>1, <3>2, StudyAssumption DEF Reporting
  <2>2. CASE v # w
    BY <1>1, <1>6, <2>2 DEF TypeOK, LeaseInv, EnoughLeft, Current
  <2> QED
    BY <2>1, <2>2
<1> QED
  BY <1>8, <1>10, <1>11 DEF LeaseInv

\* A report ends the claim it is about, and only its holder's report is taken.
LEMMA ReportKeepsLeases ==
    ASSUME TypeOK, LeaseInv, NEW w \in Workers, NEW c \in batch[w],
           NextTrial(w, c),
           \A t \in Trials \ {c.trial} : queue'[t] = queue[t],
           \/ queue'[c.trial] = queue[c.trial]
           \/ queue[c.trial].state = "CLAIMED" /\ queue[c.trial].owner = w
    PROVE  LeaseInv'
<1>1. /\ batch' = [batch EXCEPT ![w] = batch[w] \ {c}]
      /\ pc' = [pc EXCEPT ![w] = "looping"]
      /\ elapsed' = [elapsed EXCEPT ![w] = 0]
      /\ delayed' = [delayed EXCEPT ![w] = FALSE]
  BY DEF NextTrial, GoTo
<1>2. batch'[w] = batch[w] \ {c} /\ \A v \in Workers \ {w} : batch'[v] = batch[v]
  BY <1>1 DEF TypeOK
<1>3. OneClaimPerTrial'
  BY <1>2 DEF LeaseInv, OneClaimPerTrial
<1>4. LastingClaimsHeld'
  <2> SUFFICES ASSUME NEW v \in Workers, NEW d \in batch'[v], d.left > 0
               PROVE  Held(v, d)'
    BY DEF LastingClaimsHeld
  <2>0. d \in batch[v]
    <3>1. CASE v = w
      BY <1>2, <3>1
    <3>2. CASE v # w
      BY <1>2, <3>2
    <3> QED
      BY <3>1, <3>2
  <2>1. d \in batch[v] /\ d.trial \in Trials /\ Held(v, d)
    BY <2>0 DEF TypeOK, Claim, LeaseInv, LastingClaimsHeld
  <2>2. CASE d.trial # c.trial
    BY <2>1, <2>2, HeldKept
  <2>3. CASE d.trial = c.trial
    <3>1. v # w
      BY <1>2, <2>1, <2>3 DEF LeaseInv, OneClaimPerTrial
    <3> QED
      BY <2>1, <2>3, <3>1, HeldKept
  <2> QED
    BY <2>2, <2>3
<1>5. EnoughLeft'
  <2> SUFFICES ASSUME NEW v \in Workers, NEW d \in batch'[v], Current(v, d)', ~delayed'[v]
               PROVE  /\ pc'[v] = "evaluating" => elapsed'[v] <= MaxWork /\ 2 * (d.left + elapsed'[v]) >= Lease
                      /\ pc'[v] \in Reporting => 2 * (d.left + elapsed'[v] + MaxWork) >= Lease
    BY DEF EnoughLeft
  <2>1. CASE v = w
    BY <1>1, <2>1 DEF TypeOK, Reporting
  <2>2. CASE v # w
    BY <1>1, <1>2, <2>2 DEF TypeOK, LeaseInv, EnoughLeft, Current
  <2> QED
    BY <2>1, <2>2
<1> QED
  BY <1>3, <1>4, <1>5 DEF LeaseInv

\* A step that leaves batches alone and brings no worker to an evaluation or a
\* report keeps the invariant, when it keeps the rows of claimed trials or
\* cancels them.
LEMMA OtherStepsKeepLeases ==
    ASSUME TypeOK, LeaseInv, UNCHANGED batch, UNCHANGED delayed,
           \A t \in Trials : \/ queue'[t] = queue[t]
                             \/ queue[t].state \notin {"CLAIMED", "CANCELLED"}
                             \/ queue'[t].state = "CANCELLED",
           \A v \in Workers : \/ pc'[v] = pc[v] /\ elapsed'[v] = elapsed[v]
                              \/ pc'[v] \notin {"evaluating"} \cup Reporting
    PROVE  LeaseInv'
<1>1. OneClaimPerTrial'
  BY DEF LeaseInv, OneClaimPerTrial
<1>2. LastingClaimsHeld'
  <2> SUFFICES ASSUME NEW v \in Workers, NEW d \in batch[v], d.left > 0
               PROVE  Held(v, d)'
    BY DEF LastingClaimsHeld
  <2>1. d.trial \in Trials /\ Held(v, d)
    BY DEF TypeOK, Claim, LeaseInv, LastingClaimsHeld
  <2> QED
    BY <2>1, HeldKept
<1>3. EnoughLeft'
  BY DEF LeaseInv, EnoughLeft, Current
<1> QED
  BY <1>1, <1>2, <1>3 DEF LeaseInv

\* Time takes as much from a claim as from its row.
LEMMA TickKeepsLeases ==
    ASSUME TypeOK, LeaseInv, Tick
    PROVE  LeaseInv'
<1> DEFINE aged(c) == [c EXCEPT !.left = Later(c.left, 0)]
<1>1. \A w \in Workers : batch'[w] = {aged(c) : c \in batch[w]}
  BY DEF Tick
<1>2. \A w \in Workers : \A c \in batch[w] :
        /\ c.trial \in Trials /\ c.trial \in Nat /\ c.left \in Nat
        /\ aged(c).trial = c.trial /\ aged(c).attempt = c.attempt
        /\ aged(c).left = IF c.left > 0 THEN c.left - 1 ELSE c.left
  <2>1. \A w \in Workers : \A c \in batch[w] : c \in Claim
    BY DEF TypeOK
  <2> QED
    BY <2>1, StudyAssumption DEF Claim, Trials, Later
<1> HIDE DEF aged
<1>3. OneClaimPerTrial'
  BY <1>1, <1>2 DEF LeaseInv, OneClaimPerTrial
<1>4. LastingClaimsHeld'
  <2> SUFFICES ASSUME NEW w \in Workers, NEW c \in batch[w], aged(c).left > 0
               PROVE  Held(w, aged(c))'
    BY <1>1 DEF LastingClaimsHeld
  <2>1. c.left > 1 /\ Held(w, c)
    BY <1>2 DEF LeaseInv, LastingClaimsHeld
  <2>2. /\ queue[c.trial] \in Row
        /\ queue'[c.trial] = IF queue[c.trial].state = "CLAIMED"
                             THEN [queue[c.trial] EXCEPT !.left = Later(queue[c.trial].left, 0 - MaxLatency)]
                             ELSE queue[c.trial]
    BY <1>2 DEF Tick, TypeOK
  <2>3. CASE queue[c.trial].state = "CANCELLED"
    BY <1>2, <2>2, <2>3 DEF Held
  <2>4. CASE queue[c.trial].state = "CLAIMED"
    <3>1. queue[c.trial].attempt = c.attempt /\ queue[c.trial].owner = w /\ queue[c.trial].left = c.left
      BY <2>1, <2>4 DEF Held
    <3>2. Later(queue[c.trial].left, 0 - MaxLatency) = c.left - 1
      BY <1>2, <2>1, <3>1, StudyAssumption DEF Later
    <3>3. /\ queue'[c.trial].state = "CLAIMED" /\ queue'[c.trial].attempt = c.attempt
          /\ queue'[c.trial].owner = w /\ queue'[c.trial].left = c.left - 1
      BY <2>2, <2>4, <3>1, <3>2 DEF Row
    <3> QED
      BY <1>2, <2>1, <3>3 DEF Held
  <2> QED
    BY <2>1, <2>3, <2>4 DEF Held
<1>5. EnoughLeft'
  <2> SUFFICES ASSUME NEW w \in Workers, NEW c \in batch[w], Current(w, aged(c))', ~delayed'[w]
               PROVE  /\ pc'[w] = "evaluating" =>
                             elapsed'[w] <= MaxWork /\ 2 * (aged(c).left + elapsed'[w]) >= Lease
                      /\ pc'[w] \in Reporting => 2 * (aged(c).left + elapsed'[w] + MaxWork) >= Lease
    BY <1>1 DEF EnoughLeft
  <2>1. Current(w, c)
    BY <1>1, <1>2 DEF Current
  <2>2. /\ pc' = pc
        /\ ~delayed[w]
        /\ ~(w \in Delayed /\ pc[w] = "evaluating")
        /\ elapsed'[w] = IF pc[w] \in Calling \/ (Working(w) /\ elapsed[w] <= Limit(w))
                         THEN elapsed[w] + 1 ELSE elapsed[w]
    BY DEF Tick, TypeOK
  <2>3. elapsed[w] \in Nat /\ c.left \in Nat
    BY <1>2 DEF TypeOK
  <2>4. CASE pc[w] = "evaluating"
    <3>1. elapsed[w] <= MaxWork /\ 2 * (c.left + elapsed[w]) >= Lease
      BY <2>1, <2>2, <2>4 DEF LeaseInv, EnoughLeft
    <3>2. Limit(w) = MaxWork /\ Working(w) /\ elapsed[w] # MaxWork
      BY <2>2, <2>4 DEF Limit, Working, Delayed
    <3>3. elapsed'[w] = elapsed[w] + 1
      BY <2>2, <3>1, <3>2
    <3> QED
      BY <1>2, <2>2, <2>3, <2>4, <3>1, <3>2, <3>3, StudyAssumption DEF Reporting
  <2>5. CASE pc[w] \in Reporting
    <3>1. 2 * (c.left + elapsed[w] + MaxWork) >= Lease
      BY <2>1, <2>2, <2>5 DEF LeaseInv, EnoughLeft
    <3>2. elapsed'[w] = elapsed[w] + 1
      BY <2>2, <2>5 DEF Calling
    <3> QED
      BY <1>2, <2>2, <2>3, <2>5, <3>1, <3>2, StudyAssumption DEF Reporting
  <2> QED
    BY <2>2, <2>4, <2>5
<1> QED
  BY <1>3, <1>4, <1>5 DEF LeaseInv

\* An evaluation that takes no longer than MaxWork keeps its lease until its
\* report is stored, however batches, reclaims and renewals interleave.
THEOREM WorkIsNotWasted == Spec => []LeaseOutlastsWork
<1>1. Init => LeaseInv
  BY DEF Init, LeaseInv, OneClaimPerTrial, LastingClaimsHeld, EnoughLeft
<1>2. ASSUME TypeOK, LeaseInv, [Next]_vars
      PROVE  LeaseInv'
  <2> USE <1>2
  <2>1. ASSUME NEW w \in Workers, Start(w)
        PROVE  LeaseInv'
    BY <2>1, OtherStepsKeepLeases DEF Start, GoTo, TypeOK, Reporting
  <2>2. ASSUME NEW w \in Workers, BeginClaim(w) \/ Drained(w)
        PROVE  LeaseInv'
    BY <2>2, OtherStepsKeepLeases DEF BeginClaim, Drained, GoTo, TypeOK, Reporting, tables
  <2>3. ASSUME NEW w \in Workers, ClaimBatch(w)
        PROVE  LeaseInv'
    BY <2>3, ClaimKeepsLeases
  <2>4. ASSUME NEW w \in Workers, NEW c \in batch[w], Current(w, c), TakeTrial(w, c)
        PROVE  LeaseInv'
    <3>1. /\ queue' = queue /\ batch' = batch /\ delayed' = delayed
          /\ pc' = [pc EXCEPT ![w] = IF 2 * c.left < Lease THEN "renewing" ELSE "evaluating"]
          /\ elapsed' = [elapsed EXCEPT ![w] = 0]
      BY <2>4 DEF TakeTrial, GoTo, tables
    <3>2. OneClaimPerTrial' /\ LastingClaimsHeld'
      BY <3>1 DEF LeaseInv, OneClaimPerTrial, LastingClaimsHeld, Held
    <3>3. EnoughLeft'
      <4> SUFFICES ASSUME NEW v \in Workers, NEW d \in batch[v], Current(v, d), ~delayed[v]
                   PROVE  /\ pc'[v] = "evaluating" => elapsed'[v] <= MaxWork /\ 2 * (d.left + elapsed'[v]) >= Lease
                          /\ pc'[v] \in Reporting => 2 * (d.left + elapsed'[v] + MaxWork) >= Lease
        BY <3>1 DEF EnoughLeft, Current
      <4>1. CASE v = w
        <5>1. d = c /\ c.left \in Nat
          BY <2>4, <4>1, CurrentIsUnique, StudyAssumption DEF LeaseInv, TypeOK, Claim
        <5>2. elapsed'[w] = 0 /\ pc'[w] = IF 2 * c.left < Lease THEN "renewing" ELSE "evaluating"
          BY <3>1 DEF TypeOK
        <5> QED
          BY <4>1, <5>1, <5>2, StudyAssumption DEF Reporting
      <4>2. CASE v # w
        BY <3>1, <4>2 DEF LeaseInv, EnoughLeft, TypeOK
      <4> QED
        BY <4>1, <4>2
    <3> QED
      BY <3>2, <3>3 DEF LeaseInv
  <2>5. ASSUME NEW w \in Workers, NEW c \in batch[w], Current(w, c), Renew(w, c)
        PROVE  LeaseInv'
    BY <2>5, RenewKeepsLeases
  <2>6. ASSUME NEW w \in Workers, Evaluated(w)
        PROVE  LeaseInv'
    <3>1. PICK call \in Reporting :
            /\ queue' = queue /\ batch' = batch /\ delayed' = delayed /\ pc[w] = "evaluating"
            /\ pc' = [pc EXCEPT ![w] = call] /\ elapsed' = [elapsed EXCEPT ![w] = 0]
      BY <2>6 DEF Evaluated, GoTo, tables
    <3>2. OneClaimPerTrial' /\ LastingClaimsHeld'
      BY <3>1 DEF LeaseInv, OneClaimPerTrial, LastingClaimsHeld, Held
    <3>3. EnoughLeft'
      <4> SUFFICES ASSUME NEW v \in Workers, NEW d \in batch[v], Current(v, d), ~delayed[v]
                   PROVE  /\ pc'[v] = "evaluating" => elapsed'[v] <= MaxWork /\ 2 * (d.left + elapsed'[v]) >= Lease
                          /\ pc'[v] \in Reporting => 2 * (d.left + elapsed'[v] + MaxWork) >= Lease
        BY <3>1 DEF EnoughLeft, Current
      <4>1. CASE v = w
        <5>1. elapsed[w] <= MaxWork /\ 2 * (d.left + elapsed[w]) >= Lease
          BY <3>1, <4>1 DEF LeaseInv, EnoughLeft
        <5>2. d.left \in Nat /\ elapsed[w] \in Nat
          BY <4>1, StudyAssumption DEF TypeOK, Claim
        <5>3. elapsed'[w] = 0 /\ pc'[w] \in Reporting /\ pc'[w] # "evaluating"
          BY <3>1 DEF TypeOK, Reporting
        <5> QED
          BY <4>1, <5>1, <5>2, <5>3, StudyAssumption
      <4>2. CASE v # w
        BY <3>1, <4>2 DEF LeaseInv, EnoughLeft, TypeOK
      <4> QED
        BY <4>1, <4>2
    <3> QED
      BY <3>2, <3>3 DEF LeaseInv
  <2>7. ASSUME NEW w \in Workers, NEW c \in batch[w], Complete(w, c) \/ Fail(w, c) \/ LoseLease(w, c)
        PROVE  LeaseInv'
    <3>1. NextTrial(w, c)
      BY <2>7 DEF Complete, Fail, LoseLease
    <3>2. \A t \in Trials \ {c.trial} : queue'[t] = queue[t]
      BY <2>7 DEF Complete, Fail, LoseLease, TypeOK, tables
    <3>3. \/ queue'[c.trial] = queue[c.trial]
          \/ queue[c.trial].state = "CLAIMED" /\ queue[c.trial].owner = w
      BY <2>7 DEF Complete, Fail, LoseLease, HoldsLease, tables
    <3> QED
      BY <3>1, <3>2, <3>3, ReportKeepsLeases
  <2>8. ASSUME NEW w \in Workers, LeaveClaims(w)
        PROVE  LeaseInv'
    <3>1. /\ queue' = queue
          /\ batch' = [batch EXCEPT ![w] = {}] /\ delayed' = [delayed EXCEPT ![w] = FALSE]
          /\ pc' = [pc EXCEPT ![w] = "off"] /\ elapsed' = [elapsed EXCEPT ![w] = 0]
      BY <2>8 DEF LeaveClaims, GoTo, tables
    <3>2. OneClaimPerTrial' /\ LastingClaimsHeld'
      BY <3>1 DEF LeaseInv, OneClaimPerTrial, LastingClaimsHeld, Held, TypeOK
    <3>3. EnoughLeft'
      BY <3>1 DEF LeaseInv, EnoughLeft, Current, TypeOK
    <3> QED
      BY <3>2, <3>3 DEF LeaseInv
  <2>9. CASE RetryFailed
    BY <2>9, OtherStepsKeepLeases DEF RetryFailed
  <2>10. CASE CancelStudy
    <3>1. \A t \in Trials : queue'[t] = queue[t] \/ queue'[t].state = "CANCELLED"
      BY <2>10 DEF CancelStudy, Released, TypeOK, Row
    <3> QED
      BY <2>10, <3>1, OtherStepsKeepLeases DEF CancelStudy
  <2>11. CASE Tick
    BY <2>11, TickKeepsLeases
  <2>12. CASE UNCHANGED vars
    BY <2>12, OtherStepsKeepLeases DEF vars
  <2> QED
    BY <2>1, <2>2, <2>3, <2>4, <2>5, <2>6, <2>7, <2>8, <2>9, <2>10, <2>11, <2>12
    DEF Next, WorkerStep, TrialStep, Stop, Crash
<1> QED
  BY <1>1, <1>2, LeaseInvSuffices, TypeCorrect, PTL DEF Spec
================================================================================
