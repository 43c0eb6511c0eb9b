--------------------------- MODULE BrokerSyncProofs ---------------------------
(***************************************************************************)
(* Proofs about BrokerSync for every set of intents and fill identifiers,  *)
(* one connection or several, and every number of broker events, operator  *)
(* calls, failed transactions and crashes.                                 *)
(***************************************************************************)
EXTENDS BrokerSync, DataInduction, SequenceTheorems, TLAPS

\* An event log is a sequence, whatever its rows are.
IsLog(s) == \E S : s \in Seq(S)

Decided(i) == StatusChanged("APPROVED") \in Range(log[i])

\* The service is between create and the adapter's answer.
Unsubmitted == {"created", "risk_pending", "approved"}

\* The logs are sequences that only grow, and an intent the service has not
\* yet passed to the adapter has never been submitted.
Submission ==
    /\ log = [i \in Intents |-> log[i]]
    /\ \A i \in Intents : IsLog(log[i])
    /\ submissions \in [Intents -> Nat]
    /\ SubmittedAtMostOnce
    /\ pc \in Unsubmitted => target \in Intents /\ submissions[target] = 0
    /\ pc = "approved" => target \in Approved /\ Decided(target)

\* Appending rows to a log keeps it a log and keeps what it holds.
LEMMA LogsGrow ==
    ASSUME NEW s, NEW t, IsLog(s), IsLog(t)
    PROVE  /\ IsLog(s \o t)
           /\ Range(s) \subseteq Range(s \o t)
           /\ Range(t) \subseteq Range(s \o t)
<1>1. PICK S : s \in Seq(S)
  BY DEF IsLog
<1>2. PICK T : t \in Seq(T)
  BY DEF IsLog
<1>3. s \in Seq(S \cup T) /\ t \in Seq(S \cup T)
  BY <1>1, <1>2
<1>4. s \o t \in Seq(S \cup T)
  BY <1>3
<1>5. /\ Len(s) \in Nat /\ Len(t) \in Nat
      /\ DOMAIN s = 1 .. Len(s) /\ DOMAIN t = 1 .. Len(t)
      /\ DOMAIN (s \o t) = 1 .. Len(s) + Len(t)
  BY <1>3
<1>6. \A n \in DOMAIN s : n \in DOMAIN (s \o t) /\ (s \o t)[n] = s[n]
  BY <1>3, <1>5
<1>7. \A n \in DOMAIN t :
         Len(s) + n \in DOMAIN (s \o t) /\ (s \o t)[Len(s) + n] = t[n]
  BY <1>3, <1>5
<1>8. Range(s) \subseteq Range(s \o t)
  BY <1>6 DEF Range
<1>9. Range(t) \subseteq Range(s \o t)
  BY <1>7 DEF Range
<1>. QED
  BY <1>4, <1>8, <1>9 DEF IsLog

\* One row or two rows are a log, and so is none.
LEMMA RowsAreALog ==
    /\ IsLog(<<>>)
    /\ \A a : IsLog(<<a>>)
    /\ \A a, b : IsLog(<<a, b>>)
<1>1. <<>> \in Seq({})
  OBVIOUS
<1>2. \A a : <<a>> \in Seq({a})
  OBVIOUS
<1>3. \A a, b : <<a, b>> \in Seq({a, b})
  OBVIOUS
<1>. QED
  BY <1>1, <1>2, <1>3 DEF IsLog

\* What a broker event appends (apply_broker_event) is a log.
LEMMA EffectIsALog == ASSUME NEW o, NEW e PROVE IsLog(Effect(o, e))
BY RowsAreALog DEF Effect

\* An append to one log keeps every log and what it holds.
LEMMA AppendKeeps ==
    ASSUME Submission, NEW i, NEW events, IsLog(events), Append_(i, events)
    PROVE  /\ log' = [j \in Intents |-> log'[j]]
           /\ \A j \in Intents : IsLog(log'[j])
           /\ \A j \in Intents : Range(log[j]) \subseteq Range(log'[j])
           /\ i \in Intents => Range(events) \subseteq Range(log'[i])
<1>1. log' = [j \in Intents |-> IF j = i THEN log[j] \o events ELSE log[j]]
  BY DEF Append_, Submission
<1>2. ASSUME NEW j \in Intents
      PROVE  /\ IsLog(log'[j])
             /\ Range(log[j]) \subseteq Range(log'[j])
             /\ j = i => Range(events) \subseteq Range(log'[j])
  <2>1. IsLog(log[j])
    BY DEF Submission
  <2>2. CASE j = i
    <3>1. log'[j] = log[j] \o events
      BY <1>1, <2>2
    <3>. QED
      BY <2>1, <3>1, LogsGrow
  <2>3. CASE j # i
    <3>1. log'[j] = log[j]
      BY <1>1, <2>3
    <3>. QED
      BY <2>1, <2>3, <3>1
  <2>. QED
    BY <2>2, <2>3
<1>3. log' = [j \in Intents |-> log'[j]]
  BY <1>1
<1>. QED
  BY <1>2, <1>3

\* As long as logs only grow, what a submission rests on stays.
LEMMA SubmissionsStand ==
    ASSUME Submission, submissions' = submissions,
           \A j \in Intents : Range(log[j]) \subseteq Range(log'[j])
    PROVE  /\ SubmittedAtMostOnce'
           /\ \A j \in Intents : Decided(j) => Decided(j)'
BY DEF Submission, SubmittedAtMostOnce, Decided

\* A step that submits nothing, takes nobody nearer to the adapter and does
\* not write to the logs, or appends to one of them.
LEMMA QuietStep ==
    ASSUME Submission, submissions' = submissions,
           (pc' = pc /\ target' = target) \/ pc' \notin Unsubmitted,
           log' = log \/ \E i, events : IsLog(events) /\ Append_(i, events)
    PROVE  Submission'
<1>1. /\ log' = [j \in Intents |-> log'[j]]
      /\ \A j \in Intents : IsLog(log'[j])
      /\ \A j \in Intents : Range(log[j]) \subseteq Range(log'[j])
  <2>1. CASE log' = log
    BY <2>1 DEF Submission
  <2>2. ASSUME NEW i, NEW events, IsLog(events), Append_(i, events)
        PROVE  <1>1!1 /\ <1>1!2 /\ <1>1!3
    BY <2>2, AppendKeeps
  <2>. QED
    BY <2>1, <2>2
<1>2. /\ SubmittedAtMostOnce'
      /\ \A j \in Intents : Decided(j) => Decided(j)'
  BY <1>1, SubmissionsStand
<1>3. submissions' \in [Intents -> Nat]
  BY DEF Submission
<1>4. (pc \in Unsubmitted => target \in Intents /\ submissions[target] = 0)
      /\ (pc = "approved" => target \in Approved /\ Decided(target))
  BY DEF Submission
<1>5. pc' \in Unsubmitted => target' \in Intents /\ submissions'[target'] = 0
  BY <1>4
<1>6. pc' = "approved" => target' \in Approved /\ Decided(target)'
  <2>. SUFFICES ASSUME pc' = "approved" PROVE target' \in Approved /\ Decided(target)'
    OBVIOUS
  <2>1. pc = "approved" /\ target' = target
    BY DEF Unsubmitted
  <2>2. target \in Approved /\ Decided(target) /\ target \in Intents
    BY <2>1, <1>4 DEF Unsubmitted
  <2>. QED
    BY <1>2, <2>1, <2>2 DEF Decided
<1>. QED
  BY <1>1, <1>2, <1>3, <1>5, <1>6 DEF Submission

\* create: the intent had no order, so it was never submitted.
LEMMA CreateStep ==
    ASSUME Submission, NEW i \in Intents, SubmitCreates(i)
    PROVE  Submission'
<1>1. /\ log' = [j \in Intents |-> log'[j]]
      /\ \A j \in Intents : IsLog(log'[j])
      /\ \A j \in Intents : Range(log[j]) \subseteq Range(log'[j])
  BY RowsAreALog, AppendKeeps DEF SubmitCreates
<1>2. /\ submissions' = submissions /\ pc' = "created" /\ target' = i
      /\ submissions' \in [Intents -> Nat]
  BY DEF SubmitCreates, brokerVars, Submission
<1>3. SubmittedAtMostOnce'
  BY <1>1, <1>2, SubmissionsStand
<1>4. submissions[i] = 0
  <2>1. Range(log[i]) = {}
    BY DEF SubmitCreates, Range
  <2>2. submissions[i] \in Nat /\ submissions[i] <= 1 /\ submissions[i] # 1
    BY <2>1 DEF Submission, SubmittedAtMostOnce
  <2>. QED
    BY <2>2
<1>. QED
  BY <1>1, <1>2, <1>3, <1>4 DEF Submission

\* A transition of an order that is on its way to the adapter.
LEMMA AdvanceStep ==
    ASSUME Submission, NEW from \in Unsubmitted, NEW status, NEW to,
           Advance(from, status, to),
           to = "approved" => status = "APPROVED" /\ target \in Approved
    PROVE  Submission'
<1>1. /\ log' = [j \in Intents |-> log'[j]]
      /\ \A j \in Intents : IsLog(log'[j])
      /\ \A j \in Intents : Range(log[j]) \subseteq Range(log'[j])
      /\ target \in Intents => Range(<<StatusChanged(status)>>) \subseteq Range(log'[target])
  BY RowsAreALog, AppendKeeps DEF Advance
<1>2. /\ submissions' = submissions /\ pc = from /\ pc' = to /\ target' = target
      /\ submissions' \in [Intents -> Nat]
  BY DEF Advance, brokerVars, Submission
<1>3. SubmittedAtMostOnce'
  BY <1>1, <1>2, SubmissionsStand
<1>4. target \in Intents /\ submissions[target] = 0
  BY <1>2 DEF Submission
<1>5. to = "approved" => StatusChanged("APPROVED") \in Range(log'[target])
  <2>1. StatusChanged(status) \in Range(<<StatusChanged(status)>>)
    BY DEF Range
  <2>. QED
    BY <1>1, <1>4, <2>1
<1>. QED
  BY <1>1, <1>2, <1>3, <1>4, <1>5 DEF Submission, Decided

\* adapter.submit accepts: the first submission of an approved intent.
LEMMA AcceptStep ==
    ASSUME Submission, BrokerAccepts
    PROVE  Submission'
<1>1. pc = "approved" /\ pc' = "accepted" /\ log' = log
  BY DEF BrokerAccepts, omsVars
<1>2. /\ target \in Intents /\ submissions[target] = 0
      /\ target \in Approved /\ Decided(target)
  BY <1>1 DEF Submission, Unsubmitted
<1>3. submissions' = [submissions EXCEPT ![target] = 1]
  BY <1>2 DEF BrokerAccepts
<1>4. submissions' \in [Intents -> Nat]
  BY <1>3 DEF Submission
<1>5. SubmittedAtMostOnce'
  BY <1>1, <1>2, <1>3 DEF Submission, SubmittedAtMostOnce, Decided
<1>6. pc' \notin Unsubmitted /\ pc' # "approved"
  BY <1>1 DEF Unsubmitted
<1>. QED
  BY <1>1, <1>4, <1>5, <1>6 DEF Submission

\* A retry that goes on with an order that is still PROPOSED: nothing is decided
\* yet, so the intent was never submitted.
LEMMA TakeUpStep ==
    ASSUME Submission, NEW i \in Intents, SubmitTakesUp(i)
    PROVE  Submission'
<1>1. /\ log' = log /\ submissions' = submissions /\ pc' = "created" /\ target' = i
      /\ log[i] = <<Created>>
  BY DEF SubmitTakesUp, omsVars, brokerVars
<1>2. SubmittedAtMostOnce'
  BY <1>1, SubmissionsStand
<1>3. submissions[i] = 0
  <2>1. StatusChanged("APPROVED") \notin Range(log[i])
    BY <1>1 DEF Range, Created, StatusChanged
  <2>2. submissions[i] \in Nat /\ submissions[i] <= 1 /\ submissions[i] # 1
    BY <2>1 DEF Submission, SubmittedAtMostOnce
  <2>. QED
    BY <2>2
<1>. QED
  BY <1>1, <1>2, <1>3 DEF Submission

LEMMA SubmissionStep ==
    ASSUME Submission, [Next]_vars
    PROVE  Submission'
<1>1. CASE UNCHANGED vars
  BY <1>1, QuietStep DEF vars, omsVars, brokerVars, serviceVars
<1>2. CASE Broker
  <2>1. log' = log /\ submissions' = submissions /\ pc' = pc /\ target' = target
    BY <1>2 DEF Broker, BrokerFills, BrokerCancels, BrokerReplaces, omsVars, serviceVars
  <2>. QED
    BY <2>1, QuietStep
<1>3. ASSUME NEW i \in Intents, SubmitCreates(i)
      PROVE  Submission'
  BY <1>3, CreateStep
<1>4. CASE MarkRiskPending
  BY <1>4, AdvanceStep DEF MarkRiskPending, Unsubmitted
<1>5. CASE MarkDecision
  BY <1>5, AdvanceStep DEF MarkDecision, Unsubmitted
<1>6. CASE BrokerAccepts
  BY <1>6, AcceptStep
<1>7. CASE MarkRefused \/ MarkAccepted
  <2>1. PICK status, to :
           /\ Append_(target, <<StatusChanged(status)>>)
           /\ pc' = to /\ to \notin Unsubmitted
           /\ submissions' = submissions
    BY <1>7 DEF MarkRefused, MarkAccepted, Advance, Unsubmitted, brokerVars
  <2>. QED
    BY <2>1, QuietStep, RowsAreALog
<1>8. CASE SyncApplies
  <2>1. PICK i, o, e : Append_(i, Effect(o, e))
    BY <1>8 DEF SyncApplies
  <2>2. submissions' = submissions /\ pc' \notin Unsubmitted
    BY <1>8 DEF SyncApplies, brokerVars, Unsubmitted
  <2>. QED
    BY <2>1, <2>2, QuietStep, EffectIsALog
<1>9. CASE BrokerRefuses \/ CallSync \/ ReadEvents \/ SyncFails \/ ServiceCallFails \/ Crash
  <2>1. log' = log /\ submissions' = submissions /\ pc' \notin Unsubmitted
    BY <1>9 DEF BrokerRefuses, CallSync, ReadEvents, SyncFails, ServiceCallFails, Crash,
                omsVars, brokerVars, Unsubmitted
  <2>. QED
    BY <2>1, QuietStep
<1>10. CASE \/ SyncReads \/ OperatorReads \/ OperatorFails \/ OperatorCallFails
            \/ \E op \in OperatorCalls, i \in Intents, quantity \in Amounts :
                  OperatorCallsOms(op, i, quantity)
  <2>1. log' = log /\ submissions' = submissions /\ pc' = pc /\ target' = target
    BY <1>10 DEF SyncReads, OperatorReads, OperatorFails, OperatorCallFails, OperatorCallsOms,
                 omsVars, brokerVars, serviceVars
  <2>. QED
    BY <2>1, QuietStep
<1>11. CASE OperatorCancels \/ OperatorAmends
  <2>1. PICK i, row : Append_(i, <<row>>)
    BY <1>11 DEF OperatorCancels, OperatorAmends
  <2>2. submissions' = submissions /\ pc' = pc /\ target' = target
    BY <1>11 DEF OperatorCancels, OperatorAmends, brokerVars, serviceVars
  <2>. QED
    BY <2>1, <2>2, QuietStep, RowsAreALog
<1>12. ASSUME NEW i \in Intents, SubmitTakesUp(i)
       PROVE  Submission'
  BY <1>12, TakeUpStep
<1>. QED
  BY <1>1, <1>2, <1>3, <1>4, <1>5, <1>6, <1>7, <1>8, <1>9, <1>10, <1>11, <1>12
  DEF Next, Service, ServiceStep, Operator

(* Whatever crashes, failures, refusals and operator calls interleave, an  *)
(* intent is accepted by the adapter at most once, and only after its      *)
(* approval was recorded in its log (submit_after_assessment).             *)
THEOREM OneSubmission == Spec => []SubmittedAtMostOnce
<1>1. Init => Submission
  <2>. SUFFICES ASSUME Init PROVE Submission
    OBVIOUS
  <2>1. /\ log = [i \in Intents |-> log[i]]
        /\ \A i \in Intents : IsLog(log[i])
    BY RowsAreALog DEF Init
  <2>2. /\ submissions \in [Intents -> Nat]
        /\ \A i \in Intents : submissions[i] = 0
        /\ pc = "idle"
    BY DEF Init
  <2>. QED
    BY <2>1, <2>2 DEF Submission, SubmittedAtMostOnce, Unsubmitted
<1>2. Submission /\ [Next]_vars => Submission'
  BY SubmissionStep
<1>3. Submission => SubmittedAtMostOnce
  BY DEF Submission
<1>. QED
  BY <1>1, <1>2, <1>3, PTL DEF Spec

--------------------------------------------------------------------------------
(***************************************************************************)
(* Replaying a log                                                         *)
(***************************************************************************)

\* What the replay of a log may have reached.
Replayed == Order \cup {Unreadable}

\* g is what the loop of _order holds after each of the first n rows.
IsReplay(g, rows, quantity, n) ==
    LET turn == [m \in DOMAIN rows |-> [o \in Replayed |-> ReplayEvent(o, rows[m])]]
    IN  g = [m \in 0 .. n |-> IF m = 0 THEN NewOrder(quantity) ELSE turn[m][g[m - 1]]]

LEMMA FillType ==
    ASSUME NEW o \in Order, NEW quantity \in Nat
    PROVE  /\ Fill(o, quantity) \in Order
           /\ Fill(o, quantity).filled = o.filled + quantity
<1>. SUFFICES ASSUME NEW p, p = Fill(o, quantity)
              PROVE  p \in Order /\ p.filled = o.filled + quantity
  OBVIOUS
<1>1. p = [quantity |-> o.quantity, filled |-> o.filled + quantity,
           status |-> IF o.filled + quantity = o.quantity
                      THEN "FILLED" ELSE "PARTIALLY_FILLED"]
  BY DEF Fill, Order
<1>2. o.quantity \in Nat /\ o.filled + quantity \in Nat
  BY DEF Order
<1>. QED
  BY <1>1, <1>2 DEF Order, OrderStatus

\* Every row takes an order to an order or makes it unreadable.
LEMMA EventType ==
    ASSUME NEW o \in Replayed, NEW e \in LogRow
    PROVE  ReplayEvent(o, e) \in Replayed
<1>1. CASE o = Unreadable
  BY <1>1 DEF ReplayEvent, Replayed
<1>2. CASE o \in Order /\ o # Unreadable
  <2>1. o = [quantity |-> o.quantity, filled |-> o.filled, status |-> o.status]
        /\ o.quantity \in Nat /\ o.filled \in Nat /\ o.status \in OrderStatus
    BY <1>2 DEF Order
  <2>2. CASE e = Created
    BY <1>2, <2>2 DEF ReplayEvent, Created, Replayed
  <2>3. CASE e.kind = "ORDER_STATUS_CHANGED" /\ e.to \in OrderStatus
    <3>1. Move(o, e.to) \in Order
      BY <1>2, <2>3 DEF Move, Order
    <3>. QED
      BY <1>2, <2>3, <3>1 DEF ReplayEvent, Replayed
  <2>4. CASE e.kind = "ORDER_AMENDED" /\ e.quantity \in Amounts
    <3>1. Amend(o, e.quantity) \in Order
      BY <1>2, <2>4, SyncAssumption DEF Amend, Order
    <3>. QED
      BY <1>2, <2>4, <3>1 DEF ReplayEvent, Replayed
  <2>5. CASE e.kind = "FILL_INGESTED" /\ e.quantity \in Amounts
    <3>1. e.quantity \in Nat
      BY <2>5, SyncAssumption
    <3>2. Fill(o, e.quantity) \in Order
      BY <1>2, <3>1, FillType
    <3>. QED
      BY <1>2, <2>5, <3>2 DEF ReplayEvent, Replayed
  <2>. QED
    BY <2>2, <2>3, <2>4, <2>5 DEF LogRow
<1>. QED
  BY <1>1, <1>2 DEF Replayed

LEMMA NewOrderType ==
    ASSUME NEW quantity \in Nat
    PROVE  NewOrder(quantity) \in Order
BY DEF NewOrder, Order, OrderStatus

\* As long as the rows are rows of the table, each turn of the loop is
\* ReplayEvent of what the turn before it left.
LEMMA ReplayTurns ==
    ASSUME NEW rows \in Seq(LogRow), NEW quantity \in Nat, NEW n \in 0 .. Len(rows),
           NEW g, IsReplay(g, rows, quantity, n)
    PROVE  /\ g[0] = NewOrder(quantity)
           /\ \A m \in 0 .. n : g[m] \in Replayed
           /\ \A m \in 1 .. n : g[m] = ReplayEvent(g[m - 1], rows[m])
<1>. DEFINE turn == [m \in DOMAIN rows |-> [o \in Replayed |-> ReplayEvent(o, rows[m])]]
<1>1. g = [m \in 0 .. n |-> IF m = 0 THEN NewOrder(quantity) ELSE turn[m][g[m - 1]]]
  BY DEF IsReplay
<1>2. \A m \in 1 .. n, o \in Replayed : turn[m][o] = ReplayEvent(o, rows[m])
  <2>1. \A m \in 1 .. n : m \in DOMAIN rows
    OBVIOUS
  <2>2. \A m \in DOMAIN rows : turn[m] = [o \in Replayed |-> ReplayEvent(o, rows[m])]
    OBVIOUS
  <2>. HIDE DEF turn
  <2>. QED
    BY <2>1, <2>2, Zenon
<1>. HIDE DEF turn
<1>3. /\ g[0] = NewOrder(quantity)
      /\ \A m \in 1 .. n : g[m] = turn[m][g[m - 1]]
  BY <1>1
<1>. DEFINE T == {m \in Nat : m <= n => g[m] \in Replayed}
<1>4. 0 \in T
  BY <1>3, NewOrderType DEF Replayed
<1>5. ASSUME NEW m \in Nat, m \in T
      PROVE  m + 1 \in T
  <2>. SUFFICES ASSUME m + 1 <= n PROVE g[m + 1] \in Replayed
    OBVIOUS
  <2>1. g[m] \in Replayed /\ rows[m + 1] \in LogRow
    BY <1>5
  <2>2. m + 1 \in 1 .. n /\ (m + 1) - 1 = m
    OBVIOUS
  <2>3. g[m + 1] = ReplayEvent(g[m], rows[m + 1])
    BY <1>3, <1>2, <2>1, <2>2
  <2>. QED
    BY <2>1, <2>3, EventType
<1>. HIDE DEF T
<1>6. Nat \subseteq T
  BY <1>4, <1>5, SetInduction
<1>7. \A m \in 0 .. n : g[m] \in Replayed
  BY <1>6 DEF T
<1>8. \A m \in 1 .. n : m - 1 \in 0 .. n
  OBVIOUS
<1>. QED
  BY <1>2, <1>3, <1>7, <1>8

\* The recursive definition of the loop has a solution.
LEMMA ReplayExists ==
    ASSUME NEW rows, NEW quantity
    PROVE  \A n \in Nat : \E g : IsReplay(g, rows, quantity, n)
<1>. DEFINE turn == [m \in DOMAIN rows |-> [o \in Replayed |-> ReplayEvent(o, rows[m])]]
            Is(g, n) == g = [m \in 0 .. n |-> IF m = 0 THEN NewOrder(quantity)
                                              ELSE turn[m][g[m - 1]]]
            T == {n \in Nat : \E g : Is(g, n)}
<1>1. \A g, n : IsReplay(g, rows, quantity, n) <=> Is(g, n)
  BY DEF IsReplay
<1>. HIDE DEF turn
<1>2. 0 \in T
  <2>1. Is([m \in 0 .. 0 |-> NewOrder(quantity)], 0)
    OBVIOUS
  <2>. HIDE DEF Is
  <2>. QED
    BY <2>1
<1>3. ASSUME NEW n \in Nat, n \in T
      PROVE  n + 1 \in T
  <2>1. PICK g : Is(g, n)
    BY <1>3
  <2>. DEFINE h == [m \in 0 .. n + 1 |-> IF m = n + 1 THEN turn[n + 1][g[n]] ELSE g[m]]
  <2>2. Is(h, n + 1)
    <3>1. \A m \in 0 .. n : g[m] = IF m = 0 THEN NewOrder(quantity) ELSE turn[m][g[m - 1]]
      BY <2>1
    <3>2. ASSUME NEW m \in 0 .. n + 1
          PROVE  h[m] = IF m = 0 THEN NewOrder(quantity) ELSE turn[m][h[m - 1]]
      BY <3>1
    <3>. QED
      BY <3>2
  <2>. HIDE DEF Is, h
  <2>. QED
    BY <2>2
<1>. HIDE DEF T, Is
<1>4. Nat \subseteq T
  BY <1>2, <1>3, SetInduction
<1>. QED
  BY <1>1, <1>4 DEF T

LEMMA ReplayIsReplay ==
    ASSUME NEW rows \in Seq(LogRow), NEW quantity
    PROVE  \E g : IsReplay(g, rows, quantity, Len(rows)) /\ Replay(rows, quantity) = g[Len(rows)]
<1>. DEFINE g == CHOOSE g : IsReplay(g, rows, quantity, Len(rows))
<1>1. IsReplay(g, rows, quantity, Len(rows))
  BY ReplayExists
<1>2. Replay(rows, quantity) = g[Len(rows)]
  BY DEF Replay, IsReplay, Replayed
<1>. QED
  BY <1>1, <1>2

\* Two replays of logs that begin with the same rows agree on them.
LEMMA ReplaysAgree ==
    ASSUME NEW rows \in Seq(LogRow), NEW longer \in Seq(LogRow), NEW quantity \in Nat,
           Len(rows) <= Len(longer), \A m \in 1 .. Len(rows) : rows[m] = longer[m],
           NEW g, IsReplay(g, rows, quantity, Len(rows)),
           NEW h, IsReplay(h, longer, quantity, Len(longer))
    PROVE  g[Len(rows)] = h[Len(rows)]
<1>1. /\ g[0] = NewOrder(quantity)
      /\ \A m \in 1 .. Len(rows) : g[m] = ReplayEvent(g[m - 1], rows[m])
  BY ReplayTurns
<1>2. /\ h[0] = NewOrder(quantity)
      /\ \A m \in 1 .. Len(longer) : h[m] = ReplayEvent(h[m - 1], longer[m])
  BY ReplayTurns
<1>. DEFINE T == {m \in Nat : m <= Len(rows) => g[m] = h[m]}
<1>3. 0 \in T
  BY <1>1, <1>2
<1>4. ASSUME NEW m \in Nat, m \in T
      PROVE  m + 1 \in T
  <2>. SUFFICES ASSUME m + 1 <= Len(rows) PROVE g[m + 1] = h[m + 1]
    OBVIOUS
  <2>1. m + 1 \in 1 .. Len(rows) /\ m + 1 \in 1 .. Len(longer) /\ (m + 1) - 1 = m
    OBVIOUS
  <2>2. g[m + 1] = ReplayEvent(g[m], rows[m + 1]) /\ h[m + 1] = ReplayEvent(h[m], longer[m + 1])
    BY <1>1, <1>2, <2>1
  <2>. QED
    BY <1>4, <2>1, <2>2
<1>. HIDE DEF T
<1>5. Nat \subseteq T
  BY <1>3, <1>4, SetInduction
<1>. QED
  BY <1>5 DEF T

(* What a log replays to is an order or unreadable, and one more row is one *)
(* more turn of the loop.                                                   *)
LEMMA ReplayGrows ==
    ASSUME NEW rows \in Seq(LogRow), NEW quantity \in Nat
    PROVE  /\ Replay(rows, quantity) \in Replayed
           /\ Replay(<<>>, quantity) = NewOrder(quantity)
           /\ \A e \in LogRow :
                Replay(Append(rows, e), quantity) = ReplayEvent(Replay(rows, quantity), e)
<1>1. PICK g : IsReplay(g, rows, quantity, Len(rows)) /\ Replay(rows, quantity) = g[Len(rows)]
  BY ReplayIsReplay
<1>2. Replay(rows, quantity) \in Replayed
  <2>1. Len(rows) \in 0 .. Len(rows)
    OBVIOUS
  <2>. QED
    BY <1>1, <2>1, ReplayTurns
<1>3. Replay(<<>>, quantity) = NewOrder(quantity)
  <2>1. <<>> \in Seq(LogRow) /\ Len(<<>>) = 0
    OBVIOUS
  <2>2. PICK h : IsReplay(h, <<>>, quantity, 0) /\ Replay(<<>>, quantity) = h[0]
    BY <2>1, ReplayIsReplay
  <2>. QED
    <3>1. 0 \in 0 .. Len(<<>>) /\ IsReplay(h, <<>>, quantity, Len(<<>>))
      BY <2>1, <2>2
    <3>2. h[0] = NewOrder(quantity)
      <4>. DEFINE none == <<>>
      <4>1. none \in Seq(LogRow) /\ Len(none) \in 0 .. Len(none)
            /\ IsReplay(h, none, quantity, Len(none))
        BY <2>1, <3>1
      <4>. HIDE DEF none
      <4>. QED
        BY <4>1, ReplayTurns
    <3>. QED
      BY <2>2, <3>2
<1>4. ASSUME NEW e \in LogRow
      PROVE  Replay(Append(rows, e), quantity) = ReplayEvent(Replay(rows, quantity), e)
  <2>. DEFINE longer == Append(rows, e)
  <2>1. /\ longer \in Seq(LogRow) /\ Len(longer) = Len(rows) + 1 /\ Len(rows) \in Nat
        /\ longer[Len(longer)] = e
        /\ \A m \in 1 .. Len(rows) : rows[m] = longer[m]
    OBVIOUS
  <2>. HIDE DEF longer
  <2>2. PICK h : IsReplay(h, longer, quantity, Len(longer)) /\ Replay(longer, quantity) = h[Len(longer)]
    BY <2>1, ReplayIsReplay
  <2>3. Len(longer) \in 1 .. Len(longer) /\ Len(longer) \in 0 .. Len(longer) /\ Len(longer) - 1 = Len(rows)
    BY <2>1
  <2>4. h[Len(longer)] = ReplayEvent(h[Len(longer) - 1], longer[Len(longer)])
    BY <2>1, <2>2, <2>3, ReplayTurns
  <2>5. g[Len(rows)] = h[Len(rows)]
    <3>1. Len(rows) <= Len(longer)
      BY <2>1
    <3>. QED
      BY <1>1, <2>1, <2>2, <3>1, ReplaysAgree
  <2>6. Replay(longer, quantity) = ReplayEvent(Replay(rows, quantity), e)
    BY <1>1, <2>1, <2>2, <2>3, <2>4, <2>5
  <2>. QED
    BY <2>6 DEF longer
<1>. QED
  BY <1>2, <1>3, <1>4

--------------------------------------------------------------------------------
(***************************************************************************)
(* Appending to a log, and types                                           *)
(***************************************************************************)

LogsTyped == log \in [Intents -> Seq(LogRow)]

LEMMA OrderType ==
    ASSUME LogsTyped, NEW i \in Intents
    PROVE  /\ OrderOf(i) \in Order \cup {NoOrder, Unreadable}
           /\ OrderOf(i) = NoOrder <=> log[i] = <<>>
           /\ log[i] # <<>> => OrderOf(i) = Replay(log[i], Quantity[i])
<1>1. log[i] \in Seq(LogRow) /\ Quantity[i] \in Nat
  BY SyncAssumption DEF LogsTyped
<1>2. Replay(log[i], Quantity[i]) \in Replayed
  BY <1>1, ReplayGrows
<1>3. NoOrder \notin Replayed
  BY DEF NoOrder, Replayed, Order, OrderStatus, Unreadable
<1>. QED
  BY <1>2, <1>3 DEF OrderOf, Replayed

\* Appending rows to one log leaves the other orders as they are.
LEMMA AppendRows ==
    ASSUME LogsTyped, NEW i \in Intents, NEW events \in Seq(LogRow), Append_(i, events)
    PROVE  /\ LogsTyped'
           /\ log'[i] = log[i] \o events
           /\ \A j \in Intents : j # i => log'[j] = log[j] /\ OrderOf(j)' = OrderOf(j)
<1>1. log[i] \o events \in Seq(LogRow)
  BY DEF LogsTyped
<1>2. log' = [log EXCEPT ![i] = log[i] \o events]
  BY DEF Append_
<1>3. LogsTyped' /\ log'[i] = log[i] \o events
  BY <1>1, <1>2 DEF LogsTyped
<1>4. \A j \in Intents : j # i => log'[j] = log[j]
  BY <1>2 DEF LogsTyped
<1>. QED
  BY <1>3, <1>4 DEF OrderOf

\* What replaying the row that create writes gives.
LEMMA CreatedReplays ==
    ASSUME NEW i \in Intents
    PROVE  Replay(<<Created>>, Quantity[i]) = NewOrder(Quantity[i])
<1>1. Created \in LogRow /\ Quantity[i] \in Nat
  BY SyncAssumption DEF LogRow
<1>2. <<>> \in Seq(LogRow) /\ Append(<<>>, Created) = <<Created>>
  BY <1>1
<1>3. Replay(<<Created>>, Quantity[i]) = ReplayEvent(Replay(<<>>, Quantity[i]), Created)
  BY <1>1, <1>2, ReplayGrows
<1>4. Replay(<<>>, Quantity[i]) = NewOrder(Quantity[i])
  BY <1>1, <1>2, ReplayGrows
<1>. QED
  BY <1>3, <1>4, NewOrderType, SyncAssumption DEF ReplayEvent, Created, Replayed

\* create writes the first row of a log.
LEMMA AppendFirst ==
    ASSUME LogsTyped, NEW i \in Intents, log[i] = <<>>, Append_(i, <<Created>>)
    PROVE  OrderOf(i)' = NewOrder(Quantity[i]) /\ NewOrder(Quantity[i]) \in Order
<1>1. Created \in LogRow /\ <<Created>> \in Seq(LogRow)
  BY DEF LogRow
<1>2. LogsTyped' /\ log'[i] = <<Created>>
  <2>1. LogsTyped' /\ log'[i] = log[i] \o <<Created>>
    BY <1>1, AppendRows
  <2>2. log[i] \o <<Created>> = <<Created>>
    BY <1>1
  <2>. QED
    BY <2>1, <2>2
<1>3. Quantity[i] \in Nat
  BY SyncAssumption
<1>4. Replay(<<Created>>, Quantity[i]) = NewOrder(Quantity[i])
  BY CreatedReplays
<1>. QED
  BY <1>2, <1>3, <1>4, NewOrderType DEF OrderOf

\* A log that create alone has written was written by nobody else before.
LEMMA NotLonger ==
    ASSUME LogsTyped, NEW i \in Intents, log[i] # <<>>, NEW events \in Seq(LogRow),
           Append_(i, events), log'[i] = <<Created>>
    PROVE  log[i] = <<Created>>
<1>1. log[i] \in Seq(LogRow) /\ log'[i] = log[i] \o events
  BY AppendRows DEF LogsTyped
<1>2. Len(log[i]) + Len(events) = 1 /\ Len(log[i]) # 0 /\ Len(log[i]) \in Nat /\ Len(events) \in Nat
  <2>1. Len(log[i] \o events) = Len(log[i]) + Len(events) /\ Len(<<Created>>) = 1
    BY <1>1
  <2>2. Len(log[i]) \in Nat /\ Len(events) \in Nat /\ Len(log[i]) # 0
    BY <1>1
  <2>. QED
    BY <1>1, <2>1, <2>2
<1>3. Len(events) = 0
  BY <1>2
<1>4. events = <<>>
  BY <1>3
<1>5. log[i] \o events = log[i]
  BY <1>1, <1>4
<1>. QED
  BY <1>1, <1>5

\* A further row is a further turn of the replay.
LEMMA AppendRow ==
    ASSUME LogsTyped, NEW i \in Intents, log[i] # <<>>, NEW e \in LogRow, Append_(i, <<e>>)
    PROVE  OrderOf(i)' = ReplayEvent(OrderOf(i), e)
<1>1. log'[i] = log[i] \o <<e>>
  <2>1. <<e>> \in Seq(LogRow)
    OBVIOUS
  <2>. QED
    BY <2>1, AppendRows
<1>2. log[i] \in Seq(LogRow) /\ Quantity[i] \in Nat
  BY SyncAssumption DEF LogsTyped
<1>3. log[i] \o <<e>> = Append(log[i], e) /\ log[i] \o <<e>> # <<>>
  BY <1>2
<1>4. Replay(Append(log[i], e), Quantity[i]) = ReplayEvent(Replay(log[i], Quantity[i]), e)
  BY <1>2, ReplayGrows
<1>. QED
  BY <1>1, <1>3, <1>4 DEF OrderOf

LEMMA AppendTwoRows ==
    ASSUME LogsTyped, NEW i \in Intents, log[i] # <<>>, NEW a \in LogRow, NEW b \in LogRow,
           Append_(i, <<a, b>>)
    PROVE  OrderOf(i)' = ReplayEvent(ReplayEvent(OrderOf(i), a), b)
<1>1. log'[i] = log[i] \o <<a, b>>
  <2>1. <<a, b>> \in Seq(LogRow)
    OBVIOUS
  <2>. QED
    BY <2>1, AppendRows
<1>2. log[i] \in Seq(LogRow) /\ Quantity[i] \in Nat
  BY SyncAssumption DEF LogsTyped
<1>. DEFINE s == Append(log[i], a)
<1>3. log[i] \o <<a, b>> = Append(s, b) /\ log[i] \o <<a, b>> # <<>> /\ s \in Seq(LogRow)
  BY <1>2
<1>4. Replay(s, Quantity[i]) = ReplayEvent(Replay(log[i], Quantity[i]), a)
  BY <1>2, ReplayGrows
<1>. HIDE DEF s
<1>5. Replay(Append(s, b), Quantity[i]) = ReplayEvent(Replay(s, Quantity[i]), b)
  BY <1>2, <1>3, ReplayGrows
<1>. QED
  BY <1>1, <1>3, <1>4, <1>5 DEF OrderOf

LEMMA AppendNothing ==
    ASSUME LogsTyped, NEW i, Append_(i, <<>>)
    PROVE  log' = log
<1>1. CASE i \in Intents
  <2>1. log[i] \o <<>> = log[i]
    BY <1>1 DEF LogsTyped
  <2>. QED
    BY <2>1 DEF Append_, LogsTyped
<1>2. CASE i \notin Intents
  BY <1>2 DEF Append_, LogsTyped
<1>. QED
  BY <1>1, <1>2

(* The type invariant with what keeps it: the service works on an intent   *)
(* while it submits, and on an event of the adapter while it applies.       *)
Types ==
    /\ TypeOK
    /\ pc \notin {"idle", "sync", "apply"} => target \in Intents
    /\ pc = "apply" => queue # <<>>

\* The event that the service applies is one of the adapter's.
LEMMA NextEvent ==
    ASSUME Types, pc = "apply"
    PROVE  /\ Head(queue) \in 1 .. Len(brokerEvents)
           /\ brokerEvents[Head(queue)] \in BrokerEvent
           /\ EventIntent \in Intents
           /\ Tail(queue) \in Seq(DOMAIN brokerEvents)
<1>1. /\ queue \in Seq(DOMAIN brokerEvents) /\ queue # <<>>
      /\ brokerEvents \in Seq(BrokerEvent)
  BY DEF Types, TypeOK
<1>2. Head(queue) \in DOMAIN brokerEvents /\ Tail(queue) \in Seq(DOMAIN brokerEvents)
  BY <1>1, HeadTailProperties
<1>3. DOMAIN brokerEvents = 1 .. Len(brokerEvents)
  BY <1>1
<1>4. brokerEvents[Head(queue)] \in BrokerEvent
  BY <1>1, <1>2, <1>3
<1>5. \A e \in BrokerEvent : e.intent \in Intents
  BY DEF BrokerEvent
<1>. QED
  BY <1>2, <1>3, <1>4, <1>5 DEF EventIntent

\* The rows that an event leaves are rows of the table.
LEMMA EffectType ==
    ASSUME NEW o, NEW e \in BrokerEvent
    PROVE  /\ Effect(o, e) \in Seq(LogRow)
           /\ e.type = "FILL" => e.fill \in FillIds /\ [intent |-> e.intent, quantity |-> e.quantity] \in FillRow
<1>1. e.type = "FILL" => e.fill \in FillIds /\ e.quantity \in Amounts /\ e.intent \in Intents
  BY DEF BrokerEvent
<1>2. e.type = "ORDER_REPLACED" => e.quantity \in Amounts
  BY DEF BrokerEvent
<1>3. /\ e.type = "FILL" => FillIngested(e.quantity) \in LogRow
      /\ e.type = "ORDER_REPLACED" => Amended(e.quantity) \in LogRow
      /\ StatusChanged("CANCEL_PENDING") \in LogRow /\ StatusChanged("CANCELLED") \in LogRow
  BY <1>1, <1>2 DEF FillIngested, Amended, StatusChanged, LogRow, OrderStatus
<1>4. CASE e.type = "FILL" /\ e.fill \notin DOMAIN fills
  <2>1. Effect(o, e) = <<FillIngested(e.quantity)>>
    BY <1>4 DEF Effect
  <2>. QED
    BY <1>1, <1>3, <1>4, <2>1 DEF FillRow
<1>5. CASE e.type = "ORDER_CANCELLED" /\ Working(o)
  <2>1. Effect(o, e) = <<StatusChanged("CANCEL_PENDING"), StatusChanged("CANCELLED")>>
    BY <1>5 DEF Effect
  <2>. QED
    BY <1>3, <1>5, <2>1
<1>6. CASE e.type = "ORDER_REPLACED"
  <2>1. Effect(o, e) = <<Amended(e.quantity)>>
    BY <1>6 DEF Effect
  <2>. QED
    BY <1>3, <1>6, <2>1
<1>7. CASE /\ ~(e.type = "FILL" /\ e.fill \notin DOMAIN fills)
           /\ ~(e.type = "ORDER_CANCELLED" /\ Working(o))
           /\ e.type # "ORDER_REPLACED"
  <2>1. Effect(o, e) = <<>>
    BY <1>7 DEF Effect
  <2>. QED
    BY <1>1, <2>1 DEF FillRow
<1>. QED
  BY <1>4, <1>5, <1>6, <1>7

\* An order of the OMS may be passed to the adapter or remembered as read.
LEMMA OrderMoves ==
    ASSUME NEW o \in Order \cup {NoOrder, Unreadable}, NEW status \in OrderStatus
    PROVE  Move(o, status) \in Order
BY DEF Move, Order, NoOrder, Unreadable

\* A write to the logs keeps their type.
LEMMA LogsStay ==
    ASSUME Types, \/ log' = log
                  \/ \E i \in Intents, events \in Seq(LogRow) : Append_(i, events)
    PROVE  /\ log' \in [Intents -> Seq(LogRow)]
           /\ \A i \in Intents : OrderOf(i)' \in Order \cup {NoOrder, Unreadable}
<1>1. LogsTyped
  BY DEF Types, TypeOK, LogsTyped
<1>2. CASE log' = log
  <2>1. \A i \in Intents : OrderOf(i)' = OrderOf(i)
    BY <1>2 DEF OrderOf
  <2>. QED
    BY <1>1, <1>2, <2>1, OrderType DEF LogsTyped
<1>3. ASSUME NEW i \in Intents, NEW events \in Seq(LogRow), Append_(i, events)
      PROVE  LogsTyped'
  BY <1>1, <1>3, AppendRows
<1>4. ASSUME LogsTyped', NEW i \in Intents
      PROVE  OrderOf(i)' \in Order \cup {NoOrder, Unreadable}
  <2>1. log'[i] \in Seq(LogRow) /\ Quantity[i] \in Nat
    BY <1>4, SyncAssumption DEF LogsTyped
  <2>2. Replay(log'[i], Quantity[i]) \in Replayed
    BY <2>1, ReplayGrows
  <2>. QED
    BY <2>2 DEF OrderOf, Replayed
<1>. QED
  BY <1>2, <1>3, <1>4 DEF LogsTyped

--------------------------------------------------------------------------------
LEMMA TypesInit == Init => Types
<1>. SUFFICES ASSUME Init PROVE Types
  OBVIOUS
<1>1. /\ log = [i \in Intents |-> <<>>] /\ fills = [f \in {} |-> NoOrder]
      /\ receipts = {} /\ cursor = 0 /\ brokerOrders = NoOrders /\ brokerEvents = <<>>
      /\ brokerFills = {} /\ submissions = [i \in Intents |-> 0] /\ pc = "idle"
      /\ target = NoIntent /\ queue = <<>> /\ syncRead = NoOrder /\ call = NoCall
      /\ operatorCalls = 0 /\ crashes = 0 /\ failures = 0 /\ interrupted = {}
  BY DEF Init
<1>2. \A i \in Intents : OrderOf(i) = NoOrder
  BY <1>1 DEF OrderOf
<1>3. MaxBrokerEvents \in Nat /\ MaxOperatorCalls \in Nat /\ MaxFaults \in Nat
  BY SyncAssumption
<1>. QED
  BY <1>1, <1>2, <1>3 DEF Types, TypeOK, NoOrders, ServicePc

\* The adapter records an event: the events before it stay where they are.
LEMMA RecordsType ==
    ASSUME Types, NEW i \in Intents, NEW o \in Order, NEW event \in BrokerEvent,
           BrokerRecords(i, o, event)
    PROVE  /\ brokerOrders' \in [Intents -> Order \cup {NoOrder}]
           /\ brokerEvents' \in Seq(BrokerEvent)
           /\ Len(brokerEvents') = Len(brokerEvents) + 1
           /\ Len(brokerEvents') <= MaxBrokerEvents
           /\ queue \in Seq(DOMAIN brokerEvents')
           /\ \A n \in 1 .. Len(brokerEvents) : brokerEvents'[n] = brokerEvents[n]
           /\ brokerEvents'[Len(brokerEvents) + 1] = event
<1>1. brokerEvents \in Seq(BrokerEvent) /\ brokerEvents' = Append(brokerEvents, event)
  BY DEF Types, TypeOK, BrokerRecords
<1>2. brokerOrders' \in [Intents -> Order \cup {NoOrder}]
  BY DEF Types, TypeOK, BrokerRecords
<1>3. /\ brokerEvents' \in Seq(BrokerEvent)
      /\ Len(brokerEvents') = Len(brokerEvents) + 1
      /\ \A n \in 1 .. Len(brokerEvents) : brokerEvents'[n] = brokerEvents[n]
      /\ brokerEvents'[Len(brokerEvents) + 1] = event
      /\ DOMAIN brokerEvents \subseteq DOMAIN brokerEvents'
  BY <1>1, AppendProperties
<1>4. Len(brokerEvents') <= MaxBrokerEvents
  BY <1>1, <1>3, SyncAssumption DEF BrokerRecords
<1>5. queue \in Seq(DOMAIN brokerEvents')
  BY <1>3, SeqMonotonic DEF Types, TypeOK
<1>. QED
  BY <1>2, <1>3, <1>4, <1>5

\* e is an event of the adapter that takes an order of it from o to p.
Records(o, e, p) ==
    \/ e.type = "ORDER_CANCELLED" /\ Working(o) /\ p = Move(o, "CANCELLED")
    \/ e.type = "ORDER_REPLACED" /\ CanAmend(o, e.quantity) /\ p = Amend(o, e.quantity)
    \/ e.type = "FILL" /\ CanFill(o, e.quantity) /\ p = Fill(o, e.quantity)

\* What the adapter does of its own accord leaves everything else alone, and
\* changes one order by the event that it records.
LEMMA BrokerStep ==
    ASSUME Types, Broker
    PROVE  /\ UNCHANGED <<omsVars, submissions, serviceVars, operatorVars, faultVars>>
           /\ \E e \in BrokerEvent, p \in Order :
                /\ Records(brokerOrders[e.intent], e, p)
                /\ brokerOrders[e.intent] \in Order
                /\ BrokerRecords(e.intent, p, e)
                /\ \/ e.type = "FILL" /\ e.fill \notin brokerFills /\ brokerFills' = brokerFills \cup {e.fill}
                   \/ e.type # "FILL" /\ brokerFills' = brokerFills
<1>. DEFINE Goal ==
        \E e \in BrokerEvent, p \in Order :
                /\ Records(brokerOrders[e.intent], e, p)
                /\ brokerOrders[e.intent] \in Order
                /\ BrokerRecords(e.intent, p, e)
                /\ \/ e.type = "FILL" /\ e.fill \notin brokerFills /\ brokerFills' = brokerFills \cup {e.fill}
                   \/ e.type # "FILL" /\ brokerFills' = brokerFills
<1>1. UNCHANGED <<omsVars, submissions, serviceVars, operatorVars, faultVars>>
  BY DEF Broker, BrokerFills, BrokerCancels, BrokerReplaces
<1>2. ASSUME NEW i \in Intents, Working(brokerOrders[i])
      PROVE  brokerOrders[i] \in Order
  <2>1. brokerOrders[i] \in Order \cup {NoOrder}
    BY DEF Types, TypeOK
  <2>. QED
    BY <1>2, <2>1 DEF Working, NoOrder
<1>3. ASSUME NEW i \in Intents, BrokerCancels(i)
      PROVE  Goal
  <2>1. Working(brokerOrders[i])
    BY <1>3 DEF BrokerCancels, CanMove, Transitions, Working
  <2>2. Move(brokerOrders[i], "CANCELLED") \in Order
    BY <1>2, <2>1, OrderMoves DEF OrderStatus
  <2>. DEFINE e == [type |-> "ORDER_CANCELLED", intent |-> i]
  <2>3. e \in BrokerEvent /\ e.intent = i /\ e.type = "ORDER_CANCELLED"
    BY DEF BrokerEvent
  <2>4. BrokerRecords(i, Move(brokerOrders[i], "CANCELLED"), e) /\ brokerFills' = brokerFills
    BY <1>3 DEF BrokerCancels
  <2>. HIDE DEF e
  <2>. QED
    BY <1>2, <2>1, <2>2, <2>3, <2>4 DEF Records
<1>4. ASSUME NEW i \in Intents, NEW quantity \in Amounts, BrokerReplaces(i, quantity)
      PROVE  Goal
  <2>1. CanAmend(brokerOrders[i], quantity) /\ brokerOrders[i] \in Order
    BY <1>2, <1>4 DEF BrokerReplaces, CanAmend
  <2>2. Amend(brokerOrders[i], quantity) \in Order
    BY <2>1, SyncAssumption DEF Amend, Order
  <2>. DEFINE e == [type |-> "ORDER_REPLACED", intent |-> i, quantity |-> quantity]
  <2>3. e \in BrokerEvent /\ e.intent = i /\ e.type = "ORDER_REPLACED" /\ e.quantity = quantity
    BY DEF BrokerEvent
  <2>4. BrokerRecords(i, Amend(brokerOrders[i], quantity), e) /\ brokerFills' = brokerFills
    BY <1>4 DEF BrokerReplaces
  <2>. HIDE DEF e
  <2>. QED
    BY <2>1, <2>2, <2>3, <2>4 DEF Records
<1>5. ASSUME NEW i \in Intents, NEW quantity \in Amounts, NEW f \in FillIds,
             BrokerFills(i, f, quantity)
      PROVE  Goal
  <2>1. CanFill(brokerOrders[i], quantity) /\ brokerOrders[i] \in Order /\ quantity \in Nat
    BY <1>2, <1>5, SyncAssumption DEF BrokerFills, CanFill
  <2>2. Fill(brokerOrders[i], quantity) \in Order
    BY <2>1, FillType
  <2>. DEFINE e == [type |-> "FILL", intent |-> i, fill |-> f, quantity |-> quantity]
  <2>3. e \in BrokerEvent /\ e.intent = i /\ e.type = "FILL" /\ e.quantity = quantity /\ e.fill = f
    BY DEF BrokerEvent
  <2>4. /\ BrokerRecords(i, Fill(brokerOrders[i], quantity), e)
        /\ f \notin brokerFills /\ brokerFills' = brokerFills \cup {f}
    BY <1>5 DEF BrokerFills
  <2>. HIDE DEF e
  <2>. QED
    BY <2>1, <2>2, <2>3, <2>4 DEF Records
<1>. HIDE DEF Goal
<1>6. Goal
  BY <1>3, <1>4, <1>5 DEF Broker
<1>. QED
  BY <1>1, <1>6 DEF Goal

LEMMA TypesBroker ==
    ASSUME Types, Broker
    PROVE  Types'
<1>1. /\ log' = log /\ fills' = fills /\ receipts' = receipts /\ cursor' = cursor
      /\ submissions' = submissions /\ pc' = pc /\ target' = target /\ queue' = queue
      /\ syncRead' = syncRead /\ call' = call /\ operatorCalls' = operatorCalls
      /\ UNCHANGED faultVars
  BY BrokerStep DEF omsVars, serviceVars, operatorVars
<1>2. PICK e \in BrokerEvent, p \in Order :
        /\ BrokerRecords(e.intent, p, e)
        /\ \/ e.type = "FILL" /\ brokerFills' = brokerFills \cup {e.fill}
           \/ brokerFills' = brokerFills
  BY BrokerStep
<1>3. e.intent \in Intents /\ (e.type = "FILL" => e.fill \in FillIds)
  BY DEF BrokerEvent
<1>4. brokerFills' \subseteq FillIds
  BY <1>2, <1>3 DEF Types, TypeOK
<1>5. /\ brokerOrders' \in [Intents -> Order \cup {NoOrder}]
      /\ brokerEvents' \in Seq(BrokerEvent) /\ Len(brokerEvents') <= MaxBrokerEvents
      /\ queue \in Seq(DOMAIN brokerEvents')
  BY <1>2, <1>3, RecordsType
<1>6. /\ log' \in [Intents -> Seq(LogRow)]
      /\ \A i \in Intents : OrderOf(i)' \in Order \cup {NoOrder, Unreadable}
  BY <1>1, LogsStay
<1>. QED
  BY <1>1, <1>4, <1>5, <1>6 DEF Types, TypeOK, faultVars

\* A write to the log by the service or by an operator's call.
LEMMA TypesWrite ==
    ASSUME Types, NEW i \in Intents, NEW events \in Seq(LogRow), Append_(i, events),
           UNCHANGED <<fills, receipts, cursor, brokerVars, queue, syncRead,
                       operatorCalls, faultVars>>,
           call' \in Call \cup {NoCall}, pc' \in ServicePc, target' \in Intents \cup {NoIntent},
           pc' \notin {"idle", "sync", "apply"} => target' \in Intents,
           pc' = "apply" => pc = "apply"
    PROVE  Types'
<1>1. /\ log' \in [Intents -> Seq(LogRow)]
      /\ \A j \in Intents : OrderOf(j)' \in Order \cup {NoOrder, Unreadable}
  BY LogsStay
<1>. QED
  BY <1>1 DEF Types, TypeOK, brokerVars, faultVars

\* The counters of crashes and failures and the history of interruptions.
FaultsTyped ==
    /\ crashes \in 0 .. MaxFaults
    /\ failures \in 0 .. MaxFaults
    /\ interrupted \subseteq Intents

\* A step that leaves the OMS and the adapter alone.
LEMMA TypesQuiet ==
    ASSUME Types,
           UNCHANGED <<omsVars, brokerVars, operatorCalls>>,
           UNCHANGED faultVars \/ FaultsTyped',
           call' \in Call \cup {NoCall}, pc' \in ServicePc,
           target' \in Intents \cup {NoIntent},
           pc' \notin {"idle", "sync", "apply"} => target' \in Intents,
           queue' \in Seq(DOMAIN brokerEvents), pc' = "apply" => queue' # <<>>,
           syncRead' \in Order \cup {NoOrder}
    PROVE  Types'
<1>1. /\ log' \in [Intents -> Seq(LogRow)]
      /\ \A j \in Intents : OrderOf(j)' \in Order \cup {NoOrder, Unreadable}
  BY LogsStay DEF omsVars
<1>. QED
  BY <1>1 DEF Types, TypeOK, brokerVars, omsVars, faultVars, FaultsTyped

LEMMA TypesAdvance ==
    ASSUME Types, NEW from \in ServicePc \ {"idle", "sync", "apply"}, NEW status \in OrderStatus,
           NEW to \in ServicePc \ {"apply"}, Advance(from, status, to)
    PROVE  Types'
<1>1. target \in Intents /\ call \in Call \cup {NoCall}
  BY DEF Types, TypeOK, Advance
<1>2. <<StatusChanged(status)>> \in Seq(LogRow)
  BY DEF StatusChanged, LogRow
<1>3. Append_(target, <<StatusChanged(status)>>)
  BY DEF Advance
<1>4. /\ UNCHANGED <<fills, receipts, cursor, brokerVars, queue, syncRead, operatorCalls, faultVars>>
      /\ call' = call /\ pc' = to /\ target' = target
  BY DEF Advance, operatorVars
<1>. QED
  BY <1>1, <1>2, <1>3, <1>4, TypesWrite

LEMMA TypesSubmit ==
    ASSUME Types,
           \/ \E i \in Intents : SubmitCreates(i)
           \/ MarkRiskPending \/ MarkDecision \/ MarkRefused \/ MarkAccepted
    PROVE  Types'
<1>1. ASSUME NEW i \in Intents, SubmitCreates(i)
      PROVE  Types'
  <2>1. <<Created>> \in Seq(LogRow)
    BY DEF LogRow
  <2>2. call \in Call \cup {NoCall} /\ "created" \in ServicePc
    BY DEF Types, TypeOK, ServicePc
  <2>3. /\ UNCHANGED <<fills, receipts, cursor, brokerVars, queue, syncRead, operatorCalls, faultVars>>
        /\ call' = call /\ pc' = "created" /\ target' = i /\ Append_(i, <<Created>>)
    BY <1>1 DEF SubmitCreates, operatorVars
  <2>. QED
    BY <2>1, <2>2, <2>3, TypesWrite
<1>2. PICK from \in ServicePc \ {"idle", "sync", "apply"}, status \in OrderStatus,
           to \in ServicePc \ {"apply"} :
        (\E i \in Intents : SubmitCreates(i)) \/ Advance(from, status, to)
  BY DEF MarkRiskPending, MarkDecision, MarkRefused, MarkAccepted, ServicePc, OrderStatus
<1>. QED
  BY <1>1, <1>2, TypesAdvance

LEMMA TypesAccept ==
    ASSUME Types, BrokerAccepts
    PROVE  Types'
<1>1. pc = "approved" /\ pc' = "accepted" /\ target \in Intents /\ target' = target
  BY DEF BrokerAccepts, Types
<1>2. Move(OrderOf(target), "ACKNOWLEDGED") \in Order
  <2>1. OrderOf(target) \in Order \cup {NoOrder, Unreadable}
    BY <1>1 DEF Types, TypeOK
  <2>. QED
    BY <2>1, OrderMoves DEF OrderStatus
<1>3. [type |-> "ORDER_ACKNOWLEDGED", intent |-> target] \in BrokerEvent
  BY <1>1 DEF BrokerEvent
<1>4. /\ brokerOrders' \in [Intents -> Order \cup {NoOrder}]
      /\ brokerEvents' \in Seq(BrokerEvent) /\ Len(brokerEvents') <= MaxBrokerEvents
      /\ queue \in Seq(DOMAIN brokerEvents')
  BY <1>1, <1>2, <1>3, RecordsType DEF BrokerAccepts
<1>5. submissions' \in [Intents -> Nat]
  BY <1>1 DEF BrokerAccepts, Types, TypeOK
<1>6. /\ log' \in [Intents -> Seq(LogRow)]
      /\ \A j \in Intents : OrderOf(j)' \in Order \cup {NoOrder, Unreadable}
  BY LogsStay DEF BrokerAccepts, omsVars
<1>. QED
  BY <1>1, <1>4, <1>5, <1>6
  DEF BrokerAccepts, Types, TypeOK, omsVars, operatorVars, faultVars, ServicePc

--------------------------------------------------------------------------------
LEMMA TypesApply ==
    ASSUME Types, SyncApplies
    PROVE  Types'
<1>. DEFINE e == brokerEvents[Head(queue)]
<1>1. /\ pc = "apply" /\ Append_(e.intent, Effect(SyncOrder, e))
      /\ fills' = FillsAfter(e) /\ receipts' = receipts \cup {Head(queue)}
      /\ cursor' = Head(queue) /\ queue' = Tail(queue)
      /\ pc' = IF queue' = <<>> THEN "idle" ELSE "apply"
      /\ syncRead' = NoOrder /\ UNCHANGED <<brokerVars, target, operatorVars, faultVars>>
  BY DEF SyncApplies
<1>2. Head(queue) \in 1 .. Len(brokerEvents) /\ e \in BrokerEvent /\ e.intent \in Intents
      /\ Tail(queue) \in Seq(DOMAIN brokerEvents)
  BY <1>1, NextEvent DEF EventIntent
<1>3. Effect(SyncOrder, e) \in Seq(LogRow)
  BY <1>2, EffectType
<1>4. /\ log' \in [Intents -> Seq(LogRow)]
      /\ \A i \in Intents : OrderOf(i)' \in Order \cup {NoOrder, Unreadable}
  BY <1>1, <1>2, <1>3, LogsStay
<1>5. e.type = "FILL" => e.fill \in FillIds /\ [intent |-> e.intent, quantity |-> e.quantity] \in FillRow
  BY <1>2, EffectType
<1>. HIDE DEF e
<1>6. DOMAIN fills' \subseteq FillIds /\ fills' \in [DOMAIN fills' -> FillRow]
  <2>1. DOMAIN fills \subseteq FillIds /\ fills \in [DOMAIN fills -> FillRow]
    BY DEF Types, TypeOK
  <2>2. CASE e.type = "FILL"
    <3>. DEFINE row == [intent |-> e.intent, quantity |-> e.quantity]
    <3>1. fills' = [f \in DOMAIN fills \cup {e.fill} |-> IF f = e.fill THEN row ELSE fills[f]]
      BY <1>1, <2>2 DEF FillsAfter
    <3>2. e.fill \in FillIds /\ row \in FillRow
      BY <1>5, <2>2
    <3>. HIDE DEF row
    <3>. QED
      BY <2>1, <3>1, <3>2
  <2>. QED
    BY <1>1, <2>1, <2>2 DEF FillsAfter
<1>7. Head(queue) \in Nat
  BY <1>2
<1>. QED
  BY <1>1, <1>2, <1>4, <1>6, <1>7
  DEF Types, TypeOK, brokerVars, operatorVars, faultVars, ServicePc

LEMMA TypesSync ==
    ASSUME Types, BrokerRefuses \/ CallSync \/ ReadEvents \/ SyncReads \/ SyncFails
    PROVE  Types'
<1>1. /\ UNCHANGED <<omsVars, brokerVars, operatorCalls, faultVars>>
      /\ call' = call /\ target' = target
  BY DEF BrokerRefuses, CallSync, ReadEvents, SyncReads, SyncFails, operatorVars
<1>2. /\ call \in Call \cup {NoCall} /\ queue \in Seq(DOMAIN brokerEvents)
      /\ syncRead \in Order \cup {NoOrder} /\ pc \in ServicePc
      /\ pc \notin {"idle", "sync", "apply"} => target \in Intents
      /\ pc = "apply" => queue # <<>>
      /\ cursor \in Nat /\ brokerEvents \in Seq(BrokerEvent)
      /\ target \in Intents \cup {NoIntent}
  BY DEF Types, TypeOK
<1>3. CASE BrokerRefuses \/ CallSync
  <2>1. queue' = queue /\ syncRead' = syncRead /\ pc' \in {"refused", "sync"}
        /\ (pc' = "refused" => pc = "approved")
    BY <1>3 DEF BrokerRefuses, CallSync
  <2>. QED
    BY <1>1, <1>2, <2>1, TypesQuiet DEF ServicePc
<1>4. CASE ReadEvents
  <2>1. [n \in 1 .. Len(brokerEvents) - cursor |-> cursor + n] \in Seq(DOMAIN brokerEvents)
    <3>1. Len(brokerEvents) - cursor \in Int /\ DOMAIN brokerEvents = 1 .. Len(brokerEvents)
      BY <1>2
    <3>2. \A n \in 1 .. Len(brokerEvents) - cursor : cursor + n \in DOMAIN brokerEvents
      BY <1>2, <3>1
    <3>3. CASE Len(brokerEvents) - cursor \in Nat
      BY <3>2, <3>3, IsASeq
    <3>4. CASE Len(brokerEvents) - cursor < 0
      <4>1. 1 .. Len(brokerEvents) - cursor = 1 .. 0
        BY <3>1, <3>4
      <4>2. \A n \in 1 .. 0 : cursor + n \in DOMAIN brokerEvents
        OBVIOUS
      <4>3. [n \in 1 .. 0 |-> cursor + n] \in Seq(DOMAIN brokerEvents)
        BY <4>2, IsASeq
      <4>. QED
        BY <4>1, <4>3
    <3>. QED
      BY <3>1, <3>3, <3>4
  <2>2. /\ queue' \in Seq(DOMAIN brokerEvents) /\ syncRead' = syncRead
        /\ pc' = IF queue' = <<>> THEN "idle" ELSE "apply"
    BY <1>4, <2>1 DEF ReadEvents
  <2>. QED
    BY <1>1, <1>2, <2>2, TypesQuiet DEF ServicePc
<1>5. CASE SyncReads
  <2>1. pc = "apply" /\ pc' = pc /\ queue' = queue
    BY <1>5 DEF SyncReads
  <2>2. EventIntent \in Intents
    BY <2>1, NextEvent
  <2>3. OrderOf(EventIntent) \in Order
    BY <1>5, <2>2 DEF SyncReads, Readable, Types, TypeOK
  <2>4. syncRead' \in Order
    BY <1>5, <2>3 DEF SyncReads
  <2>. QED
    BY <1>1, <1>2, <2>1, <2>4, TypesQuiet
<1>6. CASE SyncFails
  <2>1. pc' = "idle" /\ queue' = <<>> /\ syncRead' = NoOrder
    BY <1>6 DEF SyncFails
  <2>2. <<>> \in Seq(DOMAIN brokerEvents)
    OBVIOUS
  <2>. QED
    BY <1>1, <1>2, <2>1, <2>2, TypesQuiet DEF ServicePc
<1>. QED
  BY <1>3, <1>4, <1>5, <1>6

LEMMA TypesOperator ==
    ASSUME Types, Operator
    PROVE  Types'
<1>1. /\ call \in Call \cup {NoCall} /\ queue \in Seq(DOMAIN brokerEvents)
      /\ syncRead \in Order \cup {NoOrder} /\ pc \in ServicePc
      /\ target \in Intents \cup {NoIntent}
      /\ pc \notin {"idle", "sync", "apply"} => target \in Intents
      /\ pc = "apply" => queue # <<>>
  BY DEF Types, TypeOK
<1>2. call # NoCall =>
        /\ call \in Call /\ call.intent \in Intents /\ call.quantity \in Amounts
        /\ call.read \in Order \cup {NoOrder}
  BY <1>1 DEF Call
<1>3. ASSUME NEW op \in OperatorCalls, NEW i \in Intents, NEW quantity \in Amounts,
             OperatorCallsOms(op, i, quantity)
      PROVE  Types'
  <2>1. call' \in Call
    BY <1>3 DEF OperatorCallsOms, Call
  <2>2. operatorCalls' \in 0 .. MaxOperatorCalls
    <3>1. operatorCalls < MaxOperatorCalls /\ operatorCalls' = operatorCalls + 1
      BY <1>3 DEF OperatorCallsOms
    <3>2. operatorCalls \in 0 .. MaxOperatorCalls /\ MaxOperatorCalls \in Nat
      BY SyncAssumption DEF Types, TypeOK
    <3>. QED
      BY <3>1, <3>2
  <2>3. /\ log' \in [Intents -> Seq(LogRow)]
        /\ \A j \in Intents : OrderOf(j)' \in Order \cup {NoOrder, Unreadable}
    BY <1>3, LogsStay DEF OperatorCallsOms, omsVars
  <2>4. UNCHANGED <<fills, receipts, cursor, brokerVars, serviceVars, faultVars>>
    BY <1>3 DEF OperatorCallsOms, omsVars
  <2>. QED
    BY <2>1, <2>2, <2>3, <2>4 DEF Types, TypeOK, brokerVars, serviceVars, faultVars
<1>4. CASE OperatorReads \/ OperatorFails
  <2>1. /\ UNCHANGED <<omsVars, brokerVars, operatorCalls, faultVars>>
        /\ pc' = pc /\ target' = target /\ queue' = queue /\ syncRead' = syncRead
    BY <1>4 DEF OperatorReads, OperatorFails, serviceVars
  <2>2. call' \in Call \cup {NoCall}
    <3>1. CASE OperatorFails
      BY <3>1 DEF OperatorFails
    <3>2. CASE OperatorReads
      <4>1. OrderOf(call.intent) \in Order
        BY <1>2, <3>2 DEF OperatorReads, Readable, Types, TypeOK
      <4>. QED
        BY <1>2, <3>2, <4>1 DEF OperatorReads, Call
    <3>. QED
      BY <1>4, <3>1, <3>2
  <2>. QED
    BY <1>1, <2>1, <2>2, TypesQuiet
<1>5. CASE OperatorCancels \/ OperatorAmends
  <2>1. /\ UNCHANGED <<fills, receipts, cursor, brokerVars, queue, syncRead, operatorCalls, faultVars>>
        /\ pc' = pc /\ target' = target
    BY <1>5 DEF OperatorCancels, OperatorAmends, serviceVars
  <2>2. call # NoCall /\ call' \in Call \cup {NoCall}
    BY <1>2, <1>5 DEF OperatorCancels, OperatorAmends, Call
  <2>3. PICK row \in LogRow : Append_(call.intent, <<row>>)
    <3>1. StatusChanged(CancelStatus) \in LogRow
      BY DEF StatusChanged, CancelStatus, LogRow, OrderStatus
    <3>2. Amended(call.quantity) \in LogRow
      BY <1>2, <2>2 DEF Amended, LogRow
    <3>. QED
      BY <1>5, <3>1, <3>2 DEF OperatorCancels, OperatorAmends
  <2>4. <<row>> \in Seq(LogRow)
    OBVIOUS
  <2>. QED
    BY <1>1, <1>2, <2>1, <2>2, <2>3, <2>4, TypesWrite
<1>. QED
  BY <1>3, <1>4, <1>5 DEF Operator

\* A fault is counted, and at most the order being submitted is interrupted.
LEMMA FaultsCounted ==
    ASSUME Types, ServiceCallFails \/ OperatorCallFails \/ Crash
    PROVE  FaultsTyped'
<1>1. /\ crashes \in 0 .. MaxFaults /\ failures \in 0 .. MaxFaults
      /\ interrupted \subseteq Intents /\ MaxFaults \in Nat
  BY SyncAssumption DEF Types, TypeOK
<1>2. crashes + failures < MaxFaults
  BY DEF ServiceCallFails, OperatorCallFails, Crash
<1>3. /\ crashes' = crashes \/ crashes' = crashes + 1
      /\ failures' = failures \/ failures' = failures + 1
  BY DEF ServiceCallFails, OperatorCallFails, Crash
<1>4. interrupted' = interrupted \/ InterruptSubmission
  BY DEF ServiceCallFails, OperatorCallFails, Crash
<1>5. interrupted' \subseteq Intents
  BY <1>1, <1>4 DEF InterruptSubmission
<1>6. crashes' \in 0 .. MaxFaults /\ failures' \in 0 .. MaxFaults
  BY <1>1, <1>2, <1>3
<1>. QED
  BY <1>5, <1>6 DEF FaultsTyped

\* A retry that takes an order up again, or a transaction that fails.
LEMMA TypesFails ==
    ASSUME Types,
           ServiceCallFails \/ OperatorCallFails \/ \E i \in Intents : SubmitTakesUp(i)
    PROVE  Types'
<1>1. /\ UNCHANGED <<omsVars, brokerVars, operatorCalls>>
      /\ call' = call \/ call' = NoCall
  BY DEF ServiceCallFails, OperatorCallFails, SubmitTakesUp, operatorVars
<1>2. /\ call \in Call \cup {NoCall} /\ queue \in Seq(DOMAIN brokerEvents)
      /\ syncRead \in Order \cup {NoOrder} /\ pc \in ServicePc
      /\ pc \notin {"idle", "sync", "apply"} => target \in Intents
      /\ pc = "apply" => queue # <<>>
      /\ target \in Intents \cup {NoIntent}
      /\ <<>> \in Seq(DOMAIN brokerEvents)
  BY DEF Types, TypeOK
<1>3. FaultsTyped'
  <2>1. ASSUME NEW i \in Intents, SubmitTakesUp(i)
        PROVE  FaultsTyped'
    BY <2>1 DEF SubmitTakesUp, FaultsTyped, Types, TypeOK
  <2>. QED
    BY <2>1, FaultsCounted
<1>4. CASE ServiceCallFails
  <2>1. pc' = "idle" /\ queue' = <<>> /\ syncRead' = NoOrder /\ target' = target
    BY <1>4 DEF ServiceCallFails
  <2>. QED
    BY <1>1, <1>2, <1>3, <2>1, TypesQuiet DEF ServicePc
<1>5. CASE OperatorCallFails
  <2>1. pc' = pc /\ queue' = queue /\ syncRead' = syncRead /\ target' = target
    BY <1>5 DEF OperatorCallFails, serviceVars
  <2>. QED
    BY <1>1, <1>2, <1>3, <2>1, TypesQuiet
<1>6. ASSUME NEW i \in Intents, SubmitTakesUp(i)
      PROVE  Types'
  <2>1. pc' = "created" /\ queue' = queue /\ syncRead' = syncRead /\ target' = i
    BY <1>6 DEF SubmitTakesUp
  <2>. QED
    BY <1>1, <1>2, <1>3, <2>1, TypesQuiet DEF ServicePc
<1>. QED
  BY <1>4, <1>5, <1>6

LEMMA TypesCrash ==
    ASSUME Types, Crash
    PROVE  Types'
<1>1. call' \in Call \cup {NoCall}
  BY DEF Crash, Types, TypeOK
<1>2. FaultsTyped'
  BY FaultsCounted
<1>3. /\ log' \in [Intents -> Seq(LogRow)]
      /\ \A j \in Intents : OrderOf(j)' \in Order \cup {NoOrder, Unreadable}
  BY LogsStay DEF Crash, omsVars
<1>4. /\ brokerOrders' \in [Intents -> Order \cup {NoOrder}] /\ brokerEvents' = <<>>
      /\ brokerFills' = {} /\ pc' = "idle" /\ queue' = <<>> /\ syncRead' = NoOrder
      /\ UNCHANGED <<log, fills, receipts, cursor, submissions, target, operatorCalls>>
  BY DEF Crash, omsVars, NoOrders
<1>5. MaxBrokerEvents \in Nat
  BY SyncAssumption
<1>. QED
  BY <1>1, <1>2, <1>3, <1>4, <1>5 DEF Types, TypeOK, FaultsTyped, ServicePc

LEMMA TypesStep ==
    ASSUME Types, [Next]_vars
    PROVE  Types'
<1>1. CASE UNCHANGED vars
  <2>1. /\ UNCHANGED <<omsVars, brokerVars, operatorCalls, faultVars>>
        /\ call' = call /\ pc' = pc /\ target' = target /\ queue' = queue /\ syncRead' = syncRead
    BY <1>1 DEF vars, serviceVars, operatorVars
  <2>. QED
    BY <2>1, TypesQuiet DEF Types, TypeOK
<1>. QED
  BY <1>1, TypesBroker, TypesSubmit, TypesAccept, TypesApply, TypesSync, TypesOperator, TypesFails,
     TypesCrash
  DEF Next, Service, ServiceStep

(* Every variable keeps its type, and every log replays to an order, to    *)
(* none, or is recognised as unreadable (PostgresPaperOms._order).         *)
THEOREM TypeCorrect == Spec => []TypeOK
<1>1. Types /\ [Next]_vars => Types'
  BY TypesStep
<1>2. Types => TypeOK
  BY DEF Types
<1>. QED
  BY TypesInit, <1>1, <1>2, PTL DEF Spec

--------------------------------------------------------------------------------
(***************************************************************************)
(* The cursor                                                              *)
(***************************************************************************)

(* The cursor is the newest receipt, whatever connections interleave and   *)
(* whenever processes crash or transactions fail (apply_broker_event).     *)
THEOREM CursorIsNewest == Spec => []CursorIsNewestReceipt
<1>1. Init => CursorIsNewestReceipt
  BY DEF Init, CursorIsNewestReceipt, Ledger!CursorIsNewestReceipt
<1>2. Types /\ CursorIsNewestReceipt /\ [Next]_vars => CursorIsNewestReceipt'
  <2>. SUFFICES ASSUME Types, CursorIsNewestReceipt, [Next]_vars
                PROVE  CursorIsNewestReceipt'
    OBVIOUS
  <2>1. CASE SyncApplies
    <3>1. /\ Head(queue) > cursor /\ receipts' = receipts \cup {Head(queue)}
          /\ cursor' = Head(queue) /\ pc = "apply"
      BY <2>1 DEF SyncApplies
    <3>2. Head(queue) \in Nat /\ cursor \in Nat /\ receipts \subseteq Nat
      BY <3>1, NextEvent DEF Types, TypeOK
    <3>. QED
      BY <3>1, <3>2 DEF CursorIsNewestReceipt, Ledger!CursorIsNewestReceipt
  <2>2. CASE receipts' = receipts /\ cursor' = cursor
    BY <2>2 DEF CursorIsNewestReceipt, Ledger!CursorIsNewestReceipt
  <2>3. SyncApplies \/ (receipts' = receipts /\ cursor' = cursor)
    BY DEF Next, Broker, BrokerFills, BrokerCancels, BrokerReplaces, Service, SubmitCreates,
       CallSync, ServiceStep, MarkRiskPending, MarkDecision, MarkRefused, MarkAccepted, Advance,
       BrokerAccepts, BrokerRefuses, ReadEvents, SyncReads, SyncFails, Operator,
       OperatorCallsOms, OperatorReads, OperatorCancels, OperatorAmends, OperatorFails, Crash,
       SubmitTakesUp, ServiceCallFails, OperatorCallFails, vars, omsVars
  <2>. QED
    BY <2>1, <2>2, <2>3
<1>3. Types /\ [Next]_vars => Types'
  BY TypesStep
<1>. QED
  BY <1>1, <1>2, <1>3, TypesInit, PTL DEF Spec

--------------------------------------------------------------------------------
(***************************************************************************)
(* One connection: the log implements the ledger                           *)
(***************************************************************************)

LEMMA BookSet ==
    ASSUME LogsTyped, NEW i \in Intents, NEW events \in Seq(LogRow), Append_(i, events)
    PROVE  Ledger!SetOrder(i, OrderOf(i)')
<1>1. \A j \in Intents : j # i => OrderOf(j)' = OrderOf(j)
  BY AppendRows
<1>2. [j \in Intents |-> OrderOf(j)]' = [j \in Intents |-> OrderOf(j)']
  OBVIOUS
<1>3. [j \in Intents |-> OrderOf(j)'] =
        [[j \in Intents |-> OrderOf(j)] EXCEPT ![i] = OrderOf(i)']
  BY <1>1
<1>. QED
  BY <1>2, <1>3 DEF Ledger!SetOrder

LEMMA BookSame ==
    ASSUME log' = log
    PROVE  [j \in Intents |-> OrderOf(j)]' = [j \in Intents |-> OrderOf(j)]
BY DEF OrderOf

\* What a turn of the replay makes of a readable order.
LEMMA Turns ==
    ASSUME NEW o \in Order
    PROVE  /\ \A status \in OrderStatus :
                CanMove(o, status) =>
                    /\ ReplayEvent(o, StatusChanged(status)) = Move(o, status)
                    /\ Move(o, status) \in Order
           /\ \A quantity \in Nat :
                /\ ReplayEvent(o, Amended(quantity)) = Amend(o, quantity)
                /\ Amend(o, quantity) \in Order
           /\ \A quantity \in Nat :
                CanFill(o, quantity) =>
                    /\ ReplayEvent(o, FillIngested(quantity)) = Fill(o, quantity)
                    /\ Fill(o, quantity) \in Order
           /\ Working(o) =>
                ReplayEvent(ReplayEvent(o, StatusChanged("CANCEL_PENDING")),
                            StatusChanged("CANCELLED")) = Move(o, "CANCELLED")
<1>1. o # Unreadable
  BY DEF Order, Unreadable, OrderStatus
<1>2. ASSUME NEW status \in OrderStatus
      PROVE  Move(o, status) \in Order /\ Move(o, status).status = status
             /\ \A s \in OrderStatus : Move(Move(o, status), s) = Move(o, s)
  BY DEF Move, Order
<1>3. ASSUME NEW status \in OrderStatus, CanMove(o, status)
      PROVE  ReplayEvent(o, StatusChanged(status)) = Move(o, status)
  BY <1>1, <1>3 DEF ReplayEvent, StatusChanged
<1>4. ASSUME NEW quantity \in Nat
      PROVE  ReplayEvent(o, Amended(quantity)) = Amend(o, quantity) /\ Amend(o, quantity) \in Order
  BY <1>1 DEF ReplayEvent, Amended, Amend, Order
<1>5. ASSUME NEW quantity \in Nat, CanFill(o, quantity)
      PROVE  ReplayEvent(o, FillIngested(quantity)) = Fill(o, quantity)
  BY <1>1, <1>5 DEF ReplayEvent, FillIngested
<1>6. ASSUME Working(o)
      PROVE  ReplayEvent(ReplayEvent(o, StatusChanged("CANCEL_PENDING")),
                         StatusChanged("CANCELLED")) = Move(o, "CANCELLED")
  <2>1. "CANCEL_PENDING" \in OrderStatus /\ "CANCELLED" \in OrderStatus
    BY DEF OrderStatus
  <2>2. CanMove(o, "CANCEL_PENDING")
    BY <1>6 DEF CanMove, Working, Transitions
  <2>. DEFINE p == Move(o, "CANCEL_PENDING")
  <2>3. ReplayEvent(o, StatusChanged("CANCEL_PENDING")) = p
    BY <1>3, <2>1, <2>2
  <2>4. p \in Order /\ p.status = "CANCEL_PENDING" /\ Move(p, "CANCELLED") = Move(o, "CANCELLED")
    BY <1>2, <2>1
  <2>. HIDE DEF p
  <2>5. p # Unreadable
    BY <2>4 DEF Unreadable
  <2>6. CanMove(p, "CANCELLED")
    BY <2>4 DEF CanMove, Transitions
  <2>7. ReplayEvent(p, StatusChanged("CANCELLED")) = Move(p, "CANCELLED")
    BY <2>5, <2>6 DEF ReplayEvent, StatusChanged
  <2>. QED
    BY <2>3, <2>4, <2>7
<1>. QED
  BY <1>2, <1>3, <1>4, <1>5, <1>6, FillType

\* What the rows of a broker event do to the order, whichever order o the
\* transaction had read.
LEMMA EffectOnOrder ==
    ASSUME Types, NEW e \in BrokerEvent, log[e.intent] # <<>>, NEW o,
           Append_(e.intent, Effect(o, e))
    PROVE  /\ e.type = "FILL" /\ e.fill \notin DOMAIN fills =>
                OrderOf(e.intent)' = ReplayEvent(OrderOf(e.intent), FillIngested(e.quantity))
           /\ e.type = "ORDER_CANCELLED" /\ Working(o) =>
                OrderOf(e.intent)' =
                    ReplayEvent(ReplayEvent(OrderOf(e.intent), StatusChanged("CANCEL_PENDING")),
                                StatusChanged("CANCELLED"))
           /\ e.type = "ORDER_REPLACED" =>
                OrderOf(e.intent)' = ReplayEvent(OrderOf(e.intent), Amended(e.quantity))
           /\ \/ e.type = "FILL" /\ e.fill \in DOMAIN fills
              \/ e.type = "ORDER_CANCELLED" /\ ~Working(o)
              \/ e.type = "ORDER_ACKNOWLEDGED"
              => log' = log
<1>1. LogsTyped /\ e.intent \in Intents
  BY DEF Types, TypeOK, LogsTyped, BrokerEvent
<1>2. e.type \in {"FILL", "ORDER_REPLACED"} => e.quantity \in Amounts
  BY DEF BrokerEvent
<1>3. CASE e.type = "FILL" /\ e.fill \notin DOMAIN fills
  <2>1. Effect(o, e) = <<FillIngested(e.quantity)>> /\ FillIngested(e.quantity) \in LogRow
    BY <1>2, <1>3 DEF Effect, FillIngested, LogRow
  <2>. QED
    BY <1>1, <1>3, <2>1, AppendRow
<1>4. CASE e.type = "ORDER_CANCELLED" /\ Working(o)
  <2>1. /\ Effect(o, e) = <<StatusChanged("CANCEL_PENDING"), StatusChanged("CANCELLED")>>
        /\ StatusChanged("CANCEL_PENDING") \in LogRow /\ StatusChanged("CANCELLED") \in LogRow
    BY <1>4 DEF Effect, StatusChanged, LogRow, OrderStatus
  <2>. QED
    BY <1>1, <1>4, <2>1, AppendTwoRows
<1>5. CASE e.type = "ORDER_REPLACED"
  <2>1. Effect(o, e) = <<Amended(e.quantity)>> /\ Amended(e.quantity) \in LogRow
    BY <1>2, <1>5 DEF Effect, Amended, LogRow
  <2>. QED
    BY <1>1, <1>5, <2>1, AppendRow
<1>6. CASE \/ e.type = "FILL" /\ e.fill \in DOMAIN fills
           \/ e.type = "ORDER_CANCELLED" /\ ~Working(o)
           \/ e.type = "ORDER_ACKNOWLEDGED"
  <2>1. Effect(o, e) = <<>>
    BY <1>6 DEF Effect
  <2>. QED
    BY <1>1, <1>6, <2>1, AppendNothing
<1>. QED
  BY <1>3, <1>4, <1>5, <1>6 DEF BrokerEvent

(* The inductive invariant of one connection: well typed, and every log    *)
(* replays.                                                                *)
Sound == Types /\ StateReconstructable

LEMMA SoundOrder ==
    ASSUME Sound, NEW i \in Intents
    PROVE  /\ LogsTyped
           /\ OrderOf(i) \in Order \cup {NoOrder}
           /\ OrderOf(i) = NoOrder <=> log[i] = <<>>
           /\ Ledger!Exists(i) <=> OrderOf(i) # NoOrder
           /\ NoOrder \notin Order
<1>1. LogsTyped
  BY DEF Sound, Types, TypeOK, LogsTyped
<1>2. OrderOf(i) \in Order \cup {NoOrder, Unreadable} /\ (OrderOf(i) = NoOrder <=> log[i] = <<>>)
  BY <1>1, OrderType
<1>3. NoOrder \notin Order
  BY DEF NoOrder, Order, OrderStatus
<1>. QED
  BY <1>1, <1>2, <1>3 DEF Sound, StateReconstructable, Ledger!Exists, Ledger!NoOrder, NoOrder

\* A transaction that leaves a readable order keeps every order readable.
LEMMA SoundWrite ==
    ASSUME Sound, NEW i \in Intents, NEW events \in Seq(LogRow), Append_(i, events),
           OrderOf(i)' \in Order
    PROVE  StateReconstructable' /\ Ledger!SetOrder(i, OrderOf(i)')
<1>1. LogsTyped
  BY DEF Sound, Types, TypeOK, LogsTyped
<1>2. \A j \in Intents : j # i => OrderOf(j)' = OrderOf(j)
  BY <1>1, AppendRows
<1>3. OrderOf(i)' # Unreadable
  BY DEF Order, Unreadable, OrderStatus
<1>4. \A j \in Intents : OrderOf(j)' # Unreadable
  BY <1>2, <1>3 DEF Sound, StateReconstructable
<1>5. Ledger!SetOrder(i, OrderOf(i)')
  BY <1>1, BookSet
<1>. QED
  BY <1>4, <1>5 DEF StateReconstructable

\* A step that does not write to the OMS is none of the ledger's.
LEMMA SoundQuiet ==
    ASSUME Sound, UNCHANGED omsVars
    PROVE  StateReconstructable' /\ UNCHANGED Ledger!ledgerVars
<1>1. log' = log /\ fills' = fills /\ receipts' = receipts /\ cursor' = cursor
  BY DEF omsVars
<1>2. [j \in Intents |-> OrderOf(j)]' = [j \in Intents |-> OrderOf(j)]
  BY <1>1, BookSame
<1>3. \A j \in Intents : OrderOf(j)' = OrderOf(j)
  BY <1>1 DEF OrderOf
<1>. QED
  BY <1>1, <1>2, <1>3 DEF Sound, StateReconstructable, Ledger!ledgerVars

\* A transition of an order that allows it (oms.transition, oms.cancel).
LEMMA SoundTransition ==
    ASSUME Sound, NEW i \in Intents, NEW status \in OrderStatus,
           CanMove(OrderOf(i), status), Append_(i, <<StatusChanged(status)>>),
           UNCHANGED <<fills, receipts, cursor>>
    PROVE  StateReconstructable' /\ Ledger!OmsCall
<1>1. /\ LogsTyped /\ OrderOf(i) \in Order \cup {NoOrder}
      /\ (OrderOf(i) = NoOrder <=> log[i] = <<>>)
      /\ (Ledger!Exists(i) <=> OrderOf(i) # NoOrder)
  BY SoundOrder
<1>2. OrderOf(i) # NoOrder
  BY DEF CanMove, Transitions, NoOrder
<1>3. StatusChanged(status) \in LogRow /\ <<StatusChanged(status)>> \in Seq(LogRow)
  BY DEF StatusChanged, LogRow
<1>4. OrderOf(i)' = Move(OrderOf(i), status) /\ Move(OrderOf(i), status) \in Order
  <2>1. OrderOf(i)' = ReplayEvent(OrderOf(i), StatusChanged(status))
    BY <1>1, <1>2, <1>3, AppendRow
  <2>. QED
    BY <1>1, <1>2, <2>1, Turns
<1>5. StateReconstructable' /\ Ledger!SetOrder(i, OrderOf(i)')
  BY <1>3, <1>4, SoundWrite
<1>6. Ledger!Transition(i)
  <2>1. status \in Ledger!Successors(OrderOf(i)) /\ Ledger!Move(OrderOf(i), status) = OrderOf(i)'
    BY <1>4 DEF Ledger!Successors, Ledger!OrderStatus, OrderStatus, Ledger!CanMove,
                Ledger!Transitions, CanMove, Transitions, Ledger!Move, Move
  <2>. QED
    BY <1>1, <1>2, <1>5, <2>1 DEF Ledger!Transition
<1>. QED
  BY <1>5, <1>6 DEF Ledger!OmsCall

\* A new intent gets the order that its first row describes (oms.create).
LEMMA SoundCreate ==
    ASSUME Sound, NEW i \in Intents, SubmitCreates(i)
    PROVE  StateReconstructable' /\ Ledger!OmsCall
<1>1. /\ log[i] = <<>> /\ Append_(i, <<Created>>)
      /\ fills' = fills /\ receipts' = receipts /\ cursor' = cursor
  BY DEF SubmitCreates
<1>2. /\ LogsTyped /\ (OrderOf(i) = NoOrder <=> log[i] = <<>>)
      /\ (Ledger!Exists(i) <=> OrderOf(i) # NoOrder)
  BY SoundOrder
<1>3. OrderOf(i)' = NewOrder(Quantity[i]) /\ NewOrder(Quantity[i]) \in Order
  BY <1>1, <1>2, AppendFirst
<1>4. Created \in LogRow /\ <<Created>> \in Seq(LogRow)
  BY DEF LogRow
<1>5. StateReconstructable' /\ Ledger!SetOrder(i, OrderOf(i)')
  BY <1>1, <1>3, <1>4, SoundWrite
<1>6. Ledger!Create(i)
  BY <1>1, <1>2, <1>3, <1>5 DEF Ledger!Create, Ledger!NewOrder, NewOrder
<1>. QED
  BY <1>1, <1>5, <1>6 DEF Ledger!OmsCall

\* An amendment of an order that allows it (oms.amend, ORDER_REPLACED).
LEMMA SoundAmend ==
    ASSUME Sound, NEW i \in Intents, NEW quantity \in Amounts,
           CanAmend(OrderOf(i), quantity), UNCHANGED fills,
           Append_(i, <<Amended(quantity)>>)
    PROVE  StateReconstructable' /\ Ledger!AmendOrder(i, quantity)
<1>1. /\ LogsTyped /\ OrderOf(i) \in Order \cup {NoOrder}
      /\ (OrderOf(i) = NoOrder <=> log[i] = <<>>)
      /\ (Ledger!Exists(i) <=> OrderOf(i) # NoOrder)
  BY SoundOrder
<1>2. OrderOf(i) # NoOrder /\ quantity \in Nat
  BY SyncAssumption DEF CanAmend, Working, NoOrder
<1>3. Amended(quantity) \in LogRow /\ <<Amended(quantity)>> \in Seq(LogRow)
  BY DEF Amended, LogRow
<1>4. OrderOf(i)' = Amend(OrderOf(i), quantity) /\ Amend(OrderOf(i), quantity) \in Order
  <2>1. OrderOf(i)' = ReplayEvent(OrderOf(i), Amended(quantity))
    BY <1>1, <1>2, <1>3, AppendRow
  <2>. QED
    BY <1>1, <1>2, <2>1, Turns
<1>5. StateReconstructable' /\ Ledger!SetOrder(i, OrderOf(i)')
  BY <1>3, <1>4, SoundWrite
<1>6. Ledger!AmendOrder(i, quantity)
  <2>1. Ledger!CanAmend(OrderOf(i), quantity) /\ Ledger!Amend(OrderOf(i), quantity) = OrderOf(i)'
    BY <1>4 DEF Ledger!CanAmend, CanAmend, Ledger!Working, Working, Ledger!Amend, Amend
  <2>. QED
    BY <1>1, <1>2, <1>5, <2>1 DEF Ledger!AmendOrder
<1>. QED
  BY <1>5, <1>6

\* The rows of a broker event, written by a transaction that read the order
\* which they change.
LEMMA SoundEvent ==
    ASSUME Sound, NEW e \in BrokerEvent, OrderOf(e.intent) \notin {NoOrder, Unreadable},
           Accepts(OrderOf(e.intent), e), fills' = FillsAfter(e),
           Append_(e.intent, Effect(OrderOf(e.intent), e))
    PROVE  /\ StateReconstructable'
           /\ \/ UNCHANGED <<[j \in Intents |-> OrderOf(j)], fills>>
              \/ \E i \in Intents :
                    \/ Ledger!CancelOrder(i)
                    \/ \E quantity \in Amounts :
                        \/ Ledger!AmendOrder(i, quantity)
                        \/ \E f \in FillIds : Ledger!IngestFill(f, i, quantity)
<1>. DEFINE i == e.intent
            o == OrderOf(i)
<1>1. Types /\ i \in Intents
  BY DEF Sound, BrokerEvent
<1>2. /\ LogsTyped /\ o \in Order /\ o # NoOrder /\ log[i] # <<>> /\ Ledger!Exists(i)
  BY <1>1, SoundOrder
<1>3. /\ e.type = "FILL" /\ e.fill \notin DOMAIN fills =>
              OrderOf(i)' = ReplayEvent(o, FillIngested(e.quantity))
      /\ e.type = "ORDER_CANCELLED" /\ Working(o) =>
              OrderOf(i)' = ReplayEvent(ReplayEvent(o, StatusChanged("CANCEL_PENDING")),
                                        StatusChanged("CANCELLED"))
      /\ \/ e.type = "FILL" /\ e.fill \in DOMAIN fills
         \/ e.type = "ORDER_CANCELLED" /\ ~Working(o)
         \/ e.type = "ORDER_ACKNOWLEDGED"
         => log' = log
  BY <1>1, <1>2, EffectOnOrder
<1>4. Effect(o, e) \in Seq(LogRow)
  BY EffectType
<1>5. OrderOf(i)' \in Order => StateReconstructable' /\ Ledger!SetOrder(i, OrderOf(i)')
  BY <1>1, <1>4, SoundWrite
<1>6. e.type # "FILL" => fills' = fills
  BY DEF FillsAfter
<1>7. ASSUME e.type = "FILL", e.fill \notin DOMAIN fills
      PROVE  StateReconstructable' /\ Ledger!IngestFill(e.fill, i, e.quantity)
             /\ e.fill \in FillIds /\ e.quantity \in Amounts
  <2>1. e.fill \in FillIds /\ e.quantity \in Amounts /\ e.quantity \in Nat
    BY <1>7, SyncAssumption DEF BrokerEvent
  <2>2. CanFill(o, e.quantity)
    BY <1>7 DEF Accepts
  <2>3. OrderOf(i)' = Fill(o, e.quantity) /\ OrderOf(i)' \in Order
    BY <1>2, <1>3, <1>7, <2>1, <2>2, Turns
  <2>4. fills' = Ledger!WithFill(e.fill, [intent |-> i, quantity |-> e.quantity])
    BY <1>7 DEF FillsAfter, Ledger!WithFill
  <2>5. Ledger!CanFill(o, e.quantity) /\ Ledger!Fill(o, e.quantity) = OrderOf(i)'
    BY <2>2, <2>3 DEF Ledger!CanFill, CanFill, Ledger!Working, Working, Ledger!Fill, Fill
  <2>6. [j \in Intents |-> OrderOf(j)][i] = o
    BY <1>1
  <2>. QED
    BY <1>2, <1>5, <1>7, <2>1, <2>3, <2>4, <2>5, <2>6 DEF Ledger!IngestFill
<1>8. ASSUME e.type = "ORDER_CANCELLED", Working(o)
      PROVE  StateReconstructable' /\ Ledger!CancelOrder(i)
  <2>1. OrderOf(i)' = Move(o, "CANCELLED")
    BY <1>2, <1>3, <1>8, Turns
  <2>2. OrderOf(i)' \in Order
    BY <1>2, <2>1, OrderMoves DEF OrderStatus
  <2>3. Ledger!Working(o) /\ Ledger!Move(o, "CANCELLED") = OrderOf(i)'
    BY <1>8, <2>1 DEF Ledger!Working, Working, Ledger!Move, Move
  <2>4. [j \in Intents |-> OrderOf(j)][i] = o
    BY <1>1
  <2>. QED
    BY <1>2, <1>5, <1>6, <1>8, <2>2, <2>3, <2>4 DEF Ledger!CancelOrder
<1>9. ASSUME e.type = "ORDER_REPLACED"
      PROVE  StateReconstructable' /\ Ledger!AmendOrder(i, e.quantity) /\ e.quantity \in Amounts
  <2>1. e.quantity \in Amounts
    BY <1>9 DEF BrokerEvent
  <2>2. CanAmend(o, e.quantity) /\ Effect(o, e) = <<Amended(e.quantity)>>
    BY <1>9 DEF Accepts, Effect
  <2>. QED
    BY <1>1, <1>6, <1>9, <2>1, <2>2, SoundAmend
<1>10. ASSUME \/ e.type = "FILL" /\ e.fill \in DOMAIN fills
              \/ e.type = "ORDER_CANCELLED" /\ ~Working(o)
              \/ e.type = "ORDER_ACKNOWLEDGED"
       PROVE  StateReconstructable' /\ UNCHANGED <<[j \in Intents |-> OrderOf(j)], fills>>
  <2>1. log' = log
    BY <1>3, <1>10
  <2>2. fills' = fills
    <3>1. CASE e.type # "FILL"
      BY <1>6, <3>1
    <3>2. CASE e.type = "FILL"
      <4>1. e.fill \in DOMAIN fills /\ fills[e.fill] = [intent |-> i, quantity |-> e.quantity]
        BY <1>10, <3>2 DEF Accepts, SameFill
      <4>2. DOMAIN fills \cup {e.fill} = DOMAIN fills
        BY <4>1
      <4>3. fills' = [f \in DOMAIN fills |-> fills[f]]
        BY <3>2, <4>1, <4>2 DEF FillsAfter
      <4>4. fills = [f \in DOMAIN fills |-> fills[f]]
        BY <1>1 DEF Types, TypeOK
      <4>. QED
        BY <4>3, <4>4
    <3>. QED
      BY <3>1, <3>2
  <2>3. \A j \in Intents : OrderOf(j)' = OrderOf(j)
    BY <2>1 DEF OrderOf
  <2>4. StateReconstructable'
    BY <2>3 DEF StateReconstructable, Sound
  <2>. QED
    BY <2>1, <2>2, <2>4, BookSame
<1>. QED
  BY <1>1, <1>7, <1>8, <1>9, <1>10 DEF BrokerEvent

LEMMA SoundApplies ==
    ASSUME Sound, SharedConnection, SyncApplies
    PROVE  /\ StateReconstructable'
           /\ \E sequence \in 1 .. MaxBrokerEvents : Ledger!ApplyBrokerEvent(sequence)
<1>1. pc = "apply" /\ Types
  BY DEF SyncApplies, Sound
<1>2. PICK e \in BrokerEvent : e = brokerEvents[Head(queue)]
  BY <1>1, NextEvent
<1>3. /\ Append_(e.intent, Effect(OrderOf(e.intent), e)) /\ fills' = FillsAfter(e)
      /\ Accepts(OrderOf(e.intent), e) /\ OrderOf(e.intent) \notin {NoOrder, Unreadable}
      /\ Head(queue) \notin receipts /\ Head(queue) > cursor
      /\ receipts' = receipts \cup {Head(queue)} /\ cursor' = Head(queue)
  BY <1>2 DEF SyncApplies, SyncOrder, EventIntent
<1>4. PICK sequence : sequence = Head(queue)
  OBVIOUS
<1>5. Ledger!Receive(sequence)
  BY <1>3, <1>4 DEF Ledger!Receive
<1>6. sequence \in 1 .. MaxBrokerEvents
  BY <1>1, <1>4, NextEvent, SyncAssumption DEF Types, TypeOK
<1>7. /\ StateReconstructable'
      /\ \/ UNCHANGED <<[j \in Intents |-> OrderOf(j)], fills>>
         \/ \E i \in Intents :
               \/ Ledger!CancelOrder(i)
               \/ \E quantity \in Amounts :
                   \/ Ledger!AmendOrder(i, quantity)
                   \/ \E f \in FillIds : Ledger!IngestFill(f, i, quantity)
  BY <1>3, SoundEvent
<1>. QED
  BY <1>5, <1>6, <1>7 DEF Ledger!ApplyBrokerEvent

\* A transition of the target of a submission.
LEMMA SoundAdvance ==
    ASSUME Sound, NEW from \in ServicePc \ {"idle", "sync", "apply"}, NEW status \in OrderStatus,
           NEW to, Advance(from, status, to)
    PROVE  StateReconstructable' /\ Ledger!OmsCall
<1>1. /\ CanMove(OrderOf(target), status) /\ Append_(target, <<StatusChanged(status)>>)
      /\ pc = from /\ fills' = fills /\ receipts' = receipts /\ cursor' = cursor
  BY DEF Advance
<1>2. target \in Intents
  BY <1>1 DEF Sound, Types
<1>3. PICK i \in Intents : i = target
  BY <1>2
<1>. QED
  BY <1>1, <1>3, SoundTransition

LEMMA SoundSubmission ==
    ASSUME Sound, MarkRiskPending \/ MarkDecision \/ MarkRefused \/ MarkAccepted
    PROVE  StateReconstructable' /\ Ledger!OmsCall
<1>1. /\ {"created", "risk_pending", "refused", "refused_pending", "accepted",
          "accepted_pending", "accepted_submitted"} \subseteq ServicePc \ {"idle", "sync", "apply"}
      /\ {"RISK_PENDING", "APPROVED", "RISK_REJECTED", "SUBMISSION_PENDING", "REJECTED",
          "SUBMITTED", "ACKNOWLEDGED"} \subseteq OrderStatus
  BY DEF ServicePc, OrderStatus
<1>2. \E from \in ServicePc \ {"idle", "sync", "apply"}, status \in OrderStatus : \E to :
        Advance(from, status, to)
  BY <1>1 DEF MarkRiskPending, MarkDecision, MarkRefused, MarkAccepted
<1>. QED
  BY <1>2, SoundAdvance

LEMMA SoundOperator ==
    ASSUME Sound, SharedConnection, OperatorCancels \/ OperatorAmends
    PROVE  StateReconstructable' /\ Ledger!OmsCall
<1>1. /\ call # NoCall /\ fills' = fills /\ receipts' = receipts /\ cursor' = cursor
  BY DEF OperatorCancels, OperatorAmends
<1>2. call.intent \in Intents /\ call.quantity \in Amounts
  BY <1>1 DEF Sound, Types, TypeOK, Call
<1>3. PICK i \in Intents, quantity \in Amounts, status \in OrderStatus :
        i = call.intent /\ quantity = call.quantity /\ status = CancelStatus
  BY <1>2 DEF CancelStatus, OrderStatus
<1>4. CASE OperatorCancels
  <2>1. CanMove(OrderOf(i), status) /\ Append_(i, <<StatusChanged(status)>>)
    BY <1>3, <1>4 DEF OperatorCancels, OperatorOrder
  <2>. QED
    BY <1>1, <2>1, SoundTransition
<1>5. CASE OperatorAmends
  <2>1. CanAmend(OrderOf(i), quantity) /\ Append_(i, <<Amended(quantity)>>)
    BY <1>3, <1>5 DEF OperatorAmends, OperatorOrder
  <2>2. StateReconstructable' /\ Ledger!AmendOrder(i, quantity)
    BY <1>1, <2>1, SoundAmend
  <2>. QED
    BY <1>1, <2>2 DEF Ledger!OmsCall
<1>. QED
  BY <1>4, <1>5

\* Every step of the service, the adapter and an operator on one connection
\* is a step of the ledger or none.
LEMMA SharedStep ==
    ASSUME Sound, SharedConnection, [Next]_vars
    PROVE  StateReconstructable' /\ [Ledger!Next]_(Ledger!ledgerVars)
<1>1. CASE Broker
  <2>1. UNCHANGED omsVars
    BY <1>1, BrokerStep DEF Sound
  <2>. QED
    BY <2>1, SoundQuiet
<1>2. ASSUME NEW i \in Intents, SubmitCreates(i)
      PROVE  StateReconstructable' /\ [Ledger!Next]_(Ledger!ledgerVars)
  BY <1>2, SoundCreate DEF Ledger!Next
<1>3. CASE MarkRiskPending \/ MarkDecision \/ MarkRefused \/ MarkAccepted
  BY <1>3, SoundSubmission DEF Ledger!Next
<1>4. CASE SyncApplies
  BY <1>4, SoundApplies DEF Ledger!Next
<1>5. CASE OperatorCancels \/ OperatorAmends
  BY <1>5, SoundOperator DEF Ledger!Next
<1>6. CASE \/ CallSync \/ BrokerAccepts \/ BrokerRefuses \/ ReadEvents \/ SyncReads \/ SyncFails
           \/ OperatorReads \/ OperatorFails \/ Crash \/ UNCHANGED vars
           \/ ServiceCallFails \/ OperatorCallFails \/ \E i \in Intents : SubmitTakesUp(i)
           \/ \E op \in OperatorCalls, i \in Intents, quantity \in Amounts :
                OperatorCallsOms(op, i, quantity)
  <2>1. UNCHANGED omsVars
    BY <1>6 DEF CallSync, BrokerAccepts, BrokerRefuses, ReadEvents, SyncReads, SyncFails,
       OperatorReads, OperatorFails, OperatorCallsOms, Crash, ServiceCallFails,
       OperatorCallFails, SubmitTakesUp, vars
  <2>. QED
    BY <2>1, SoundQuiet
<1>. QED
  BY <1>1, <1>2, <1>3, <1>4, <1>5, <1>6 DEF Next, Service, ServiceStep, Operator

\* With one connection every log replays, in every reachable state.
LEMMA SoundInit == Init => Sound /\ Ledger!Init
<1>. SUFFICES ASSUME Init PROVE Sound /\ Ledger!Init
  OBVIOUS
<1>1. Types
  BY TypesInit
<1>2. \A i \in Intents : OrderOf(i) = NoOrder
  BY DEF Init, OrderOf
<1>3. NoOrder # Unreadable
  BY DEF NoOrder, Unreadable
<1>4. Ledger!NoOrder = NoOrder
  BY DEF Ledger!NoOrder, NoOrder
<1>5. [i \in Intents |-> OrderOf(i)] = [i \in Intents |-> Ledger!NoOrder]
  BY <1>2, <1>4
<1>6. Ledger!Init
  BY <1>4, <1>5 DEF Ledger!Init, Init
<1>. QED
  BY <1>1, <1>2, <1>3, <1>6 DEF Sound, StateReconstructable

(* When operators use the service's connection, the current state of every *)
(* order can be reconstructed from its events after any number of steps,   *)
(* failures and crashes (module comment of postgres_paper_oms.py; with connections   *)
(* of their own the races run shows the opposite).                         *)
THEOREM LogsReplay == ASSUME SharedConnection PROVE Spec => []StateReconstructable
<1>1. Init => Sound
  BY SoundInit
<1>2. Sound /\ [Next]_vars => Sound'
  BY SharedStep, TypesStep DEF Sound
<1>3. Sound => StateReconstructable
  BY DEF Sound
<1>. QED
  BY <1>1, <1>2, <1>3, PTL DEF Spec

(* When operators use the service's connection, replaying the event log    *)
(* behaves like a book of order rows: each commit is one atomic operation  *)
(* of PaperLedger, every other step and every crash is none.               *)
THEOREM LogImplementsLedger == ASSUME SharedConnection PROVE Spec => ImplementsLedger
<1>1. Init => Sound /\ Ledger!Init
  BY SoundInit
<1>2. Sound /\ [Next]_vars => Sound' /\ [Ledger!Next]_(Ledger!ledgerVars)
  BY SharedStep, TypesStep DEF Sound
<1>. QED
  BY <1>1, <1>2, PTL DEF Spec, ImplementsLedger, Ledger!Spec

--------------------------------------------------------------------------------
(***************************************************************************)
(* Any number of connections: what an order counts as filled               *)
(***************************************************************************)

\* An open transaction and a call of an operator are about an order that
\* exists.
Open ==
    /\ syncRead # NoOrder => pc = "apply" /\ log[EventIntent] # <<>>
    /\ call # NoCall => log[call.intent] # <<>>

FillsOf(i) == {f \in DOMAIN fills : fills[f].intent = i}

\* What keeps FilledIsSumOfFills: only an order that exists has fills.
Counted ==
    /\ Types
    /\ Open
    /\ IsFiniteSet(DOMAIN fills)
    /\ \A f \in DOMAIN fills : log[fills[f].intent] # <<>>
    /\ FilledIsSumOfFills

\* The ways in which a step writes to the OMS, whatever it had read.
Creates(i) == log[i] = <<>> /\ Append_(i, <<Created>>) /\ UNCHANGED fills

Changes(i, row) ==
    /\ log[i] # <<>> /\ row.kind \in {"ORDER_STATUS_CHANGED", "ORDER_AMENDED"}
    /\ Append_(i, <<row>>) /\ UNCHANGED fills

AppliesEvent(o, e) ==
    /\ log[e.intent] # <<>>
    /\ Accepts(o, e)
    /\ Append_(e.intent, Effect(o, e)) /\ fills' = FillsAfter(e)

LEMMA RowsOf ==
    /\ \A status \in OrderStatus :
            StatusChanged(status) \in LogRow /\ StatusChanged(status).kind = "ORDER_STATUS_CHANGED"
    /\ \A quantity \in Amounts :
            Amended(quantity) \in LogRow /\ Amended(quantity).kind = "ORDER_AMENDED"
BY DEF StatusChanged, Amended, LogRow

LEMMA MovesExisting ==
    ASSUME Types, NEW i \in Intents, NEW status, CanMove(OrderOf(i), status)
    PROVE  log[i] # <<>>
<1>1. OrderOf(i) # NoOrder
  BY DEF CanMove, Transitions, NoOrder
<1>. QED
  BY <1>1 DEF OrderOf

LEMMA Writes ==
    ASSUME Types, Open, [Next]_vars
    PROVE  \/ log' = log /\ fills' = fills
           \/ \E i \in Intents : Creates(i)
           \/ \E i \in Intents, row \in LogRow : Changes(i, row)
           \/ \E o : \E e \in BrokerEvent : AppliesEvent(o, e)
<1>. DEFINE Goal == \/ log' = log /\ fills' = fills
                    \/ \E i \in Intents : Creates(i)
                    \/ \E i \in Intents, row \in LogRow : Changes(i, row)
                    \/ \E o : \E e \in BrokerEvent : AppliesEvent(o, e)
<1>1. CASE Broker
  BY <1>1, BrokerStep DEF omsVars
<1>2. ASSUME NEW i \in Intents, SubmitCreates(i)
      PROVE  Goal
  BY <1>2 DEF SubmitCreates, Creates
<1>3. CASE MarkRiskPending \/ MarkDecision \/ MarkRefused \/ MarkAccepted
  <2>1. {"RISK_PENDING", "APPROVED", "RISK_REJECTED", "SUBMISSION_PENDING", "REJECTED",
          "SUBMITTED", "ACKNOWLEDGED"} \subseteq OrderStatus
    BY DEF OrderStatus
  <2>2. PICK status \in OrderStatus :
            /\ CanMove(OrderOf(target), status) /\ Append_(target, <<StatusChanged(status)>>)
            /\ fills' = fills /\ pc \notin {"idle", "sync", "apply"}
    BY <1>3, <2>1 DEF MarkRiskPending, MarkDecision, MarkRefused, MarkAccepted, Advance
  <2>3. PICK i \in Intents : i = target
    BY <2>2 DEF Types
  <2>4. log[i] # <<>>
    BY <2>2, <2>3, MovesExisting
  <2>5. Changes(i, StatusChanged(status))
    BY <2>2, <2>3, <2>4, RowsOf DEF Changes
  <2>. QED
    BY <2>5, RowsOf
<1>4. CASE SyncApplies
  <2>1. pc = "apply" /\ SyncOrder # NoOrder
    BY <1>4 DEF SyncApplies
  <2>2. PICK e \in BrokerEvent : e = brokerEvents[Head(queue)]
    BY <2>1, NextEvent
  <2>3. e.intent \in Intents
    BY DEF BrokerEvent
  <2>4. log[e.intent] # <<>>
    BY <2>1, <2>2, <2>3 DEF SyncOrder, EventIntent, Open, OrderOf
  <2>5. AppliesEvent(SyncOrder, e)
    BY <1>4, <2>2, <2>4 DEF SyncApplies, AppliesEvent
  <2>. QED
    BY <2>5
<1>5. CASE OperatorCancels \/ OperatorAmends
  <2>1. call # NoCall /\ call.intent \in Intents /\ call.quantity \in Amounts
    BY <1>5 DEF OperatorCancels, OperatorAmends, Types, TypeOK, Call
  <2>2. CancelStatus \in OrderStatus
    BY DEF CancelStatus, OrderStatus
  <2>3. log[call.intent] # <<>>
    BY <2>1 DEF Open
  <2>4. PICK row \in LogRow : /\ row.kind \in {"ORDER_STATUS_CHANGED", "ORDER_AMENDED"}
                              /\ Append_(call.intent, <<row>>) /\ fills' = fills
    BY <1>5, <2>1, <2>2, RowsOf DEF OperatorCancels, OperatorAmends
  <2>5. Changes(call.intent, row)
    BY <2>3, <2>4 DEF Changes
  <2>. QED
    BY <2>1, <2>5
<1>6. CASE \/ CallSync \/ BrokerAccepts \/ BrokerRefuses \/ ReadEvents \/ SyncReads \/ SyncFails
           \/ OperatorReads \/ OperatorFails \/ Crash \/ UNCHANGED vars
           \/ ServiceCallFails \/ OperatorCallFails \/ \E i \in Intents : SubmitTakesUp(i)
           \/ \E op \in OperatorCalls, i \in Intents, quantity \in Amounts :
                OperatorCallsOms(op, i, quantity)
  BY <1>6 DEF CallSync, BrokerAccepts, BrokerRefuses, ReadEvents, SyncReads, SyncFails,
     OperatorReads, OperatorFails, OperatorCallsOms, Crash, ServiceCallFails,
     OperatorCallFails, SubmitTakesUp, vars, omsVars
<1>. QED
  BY <1>1, <1>2, <1>3, <1>4, <1>5, <1>6 DEF Next, Service, ServiceStep, Operator

\* No log is ever cut.
LEMMA LogsKept ==
    ASSUME Types, Open, [Next]_vars
    PROVE  /\ LogsTyped'
           /\ \A i \in Intents : log[i] # <<>> => log'[i] # <<>>
<1>1. LogsTyped
  BY DEF Types, TypeOK, LogsTyped
<1>2. CASE log' = log
  BY <1>1, <1>2 DEF LogsTyped
<1>3. ASSUME NEW i \in Intents, NEW events \in Seq(LogRow), Append_(i, events)
      PROVE  LogsTyped' /\ \A j \in Intents : log[j] # <<>> => log'[j] # <<>>
  <2>1. /\ LogsTyped' /\ log'[i] = log[i] \o events
        /\ \A j \in Intents : j # i => log'[j] = log[j]
    BY <1>1, <1>3, AppendRows
  <2>2. log[i] # <<>> => log[i] \o events # <<>>
    <3>1. log[i] \in Seq(LogRow) /\ Len(log[i] \o events) = Len(log[i]) + Len(events)
          /\ Len(events) \in Nat
      BY <1>1, <1>3 DEF LogsTyped
    <3>2. log[i] # <<>> => Len(log[i]) > 0
      BY <3>1
    <3>. QED
      BY <3>1, <3>2
  <2>. QED
    BY <2>1, <2>2
<1>4. log' = log \/ \E i \in Intents, events \in Seq(LogRow) : Append_(i, events)
  <2>1. Created \in LogRow /\ \A row \in LogRow : <<row>> \in Seq(LogRow)
    BY DEF LogRow
  <2>2. \A o : \A e \in BrokerEvent : Effect(o, e) \in Seq(LogRow) /\ e.intent \in Intents
    BY EffectType DEF BrokerEvent
  <2>. QED
    BY <2>1, <2>2, Writes DEF Creates, Changes, AppliesEvent
<1>. QED
  BY <1>2, <1>3, <1>4

\* The event being applied stays where it is while its transaction is open.
LEMMA EventStays ==
    ASSUME Types, pc = "apply", [Next]_vars, syncRead # NoOrder, syncRead' # NoOrder
    PROVE  pc' = "apply" /\ EventIntent' = EventIntent
<1>1. Head(queue) \in 1 .. Len(brokerEvents)
  BY NextEvent
<1>2. CASE Broker
  <2>1. queue' = queue /\ pc' = pc
    BY <1>2, BrokerStep DEF serviceVars
  <2>2. PICK e \in BrokerEvent, p \in Order : BrokerRecords(e.intent, p, e)
    BY <1>2, BrokerStep
  <2>3. e.intent \in Intents
    BY DEF BrokerEvent
  <2>4. brokerEvents'[Head(queue)] = brokerEvents[Head(queue)]
    BY <1>1, <2>2, <2>3, RecordsType
  <2>. QED
    BY <2>1, <2>4 DEF EventIntent
<1>3. CASE Operator \/ OperatorCallFails \/ UNCHANGED vars
  <2>1. UNCHANGED serviceVars /\ brokerEvents' = brokerEvents
    BY <1>3 DEF Operator, OperatorCallsOms, OperatorReads, OperatorCancels, OperatorAmends,
       OperatorFails, OperatorCallFails, brokerVars, vars
  <2>. QED
    BY <2>1 DEF serviceVars, EventIntent
<1>4. ~SyncReads /\ ~SyncApplies /\ ~SyncFails /\ ~ServiceCallFails /\ ~Crash
  BY DEF SyncReads, SyncApplies, SyncFails, ServiceCallFails, Crash
<1>5. ~Service
  BY <1>4 DEF Service, SubmitCreates, SubmitTakesUp, CallSync, ServiceStep,
     MarkRiskPending, MarkDecision,
     MarkRefused, MarkAccepted, Advance, BrokerAccepts, BrokerRefuses, ReadEvents
<1>. QED
  BY <1>2, <1>3, <1>4, <1>5 DEF Next

LEMMA OpenStep ==
    ASSUME Types, Open, [Next]_vars
    PROVE  Open'
<1>1. \A i \in Intents : log[i] # <<>> => log'[i] # <<>>
  BY LogsKept
<1>2. ASSUME syncRead' # NoOrder
      PROVE  pc' = "apply" /\ log'[EventIntent'] # <<>>
  <2>1. CASE syncRead # NoOrder
    <3>1. pc = "apply" /\ log[EventIntent] # <<>>
      BY <2>1 DEF Open
    <3>2. pc' = "apply" /\ EventIntent' = EventIntent
      BY <1>2, <2>1, <3>1, EventStays
    <3>. QED
      BY <1>1, <3>1, <3>2, NextEvent
  <2>2. CASE syncRead = NoOrder
    <3>1. SyncReads
      BY <1>2, <2>2, BrokerStep DEF Next, Service, SubmitCreates, SubmitTakesUp, CallSync,
         ServiceCallFails, OperatorCallFails,
         ServiceStep, MarkRiskPending, MarkDecision, MarkRefused, MarkAccepted, Advance,
         BrokerAccepts, BrokerRefuses, ReadEvents, SyncApplies, SyncFails, Operator,
         OperatorCallsOms, OperatorReads, OperatorCancels, OperatorAmends, OperatorFails, Crash,
         vars, serviceVars
    <3>2. /\ pc' = "apply" /\ log' = log /\ EventIntent' = EventIntent
          /\ OrderOf(EventIntent) # NoOrder
      BY <3>1 DEF SyncReads, omsVars, brokerVars, EventIntent, Readable
    <3>. QED
      BY <3>2 DEF OrderOf
  <2>. QED
    BY <2>1, <2>2
<1>3. ASSUME call' # NoCall
      PROVE  log'[call'.intent] # <<>>
  <2>1. \/ call' = call
        \/ call # NoCall /\ call' = [call EXCEPT !.read = OrderOf(call.intent)]
        \/ call # NoCall /\ call' = [call EXCEPT !.step = "second", !.read = NoOrder]
        \/ \E op \in OperatorCalls, i \in Intents, quantity \in Amounts :
                /\ log[i] # <<>>
                /\ call' = [op |-> op, intent |-> i, quantity |-> quantity,
                            step |-> "first", read |-> NoOrder]
    BY <1>3, BrokerStep DEF Next, Service, SubmitCreates, SubmitTakesUp, CallSync,
       ServiceCallFails, OperatorCallFails,
       ServiceStep, MarkRiskPending, MarkDecision, MarkRefused, MarkAccepted, Advance,
       BrokerAccepts, BrokerRefuses, ReadEvents, SyncReads, SyncApplies, SyncFails, Operator,
       OperatorCallsOms, OperatorReads, OperatorCancels, OperatorAmends, OperatorFails, Crash,
       vars, operatorVars
  <2>2. call # NoCall => call \in Call /\ log[call.intent] # <<>>
    BY DEF Types, TypeOK, Open
  <2>3. call'.intent \in Intents /\ log[call'.intent] # <<>>
    <3>1. CASE call' = call
      BY <1>3, <2>2, <3>1 DEF Call
    <3>2. CASE call # NoCall /\ call' = [call EXCEPT !.read = OrderOf(call.intent)]
      BY <2>2, <3>2 DEF Call
    <3>3. CASE call # NoCall /\ call' = [call EXCEPT !.step = "second", !.read = NoOrder]
      BY <2>2, <3>3 DEF Call
    <3>. QED
      BY <2>1, <3>1, <3>2, <3>3
  <2>. QED
    BY <1>1, <2>3
<1>. QED
  BY <1>2, <1>3 DEF Open

--------------------------------------------------------------------------------
\* A turn of the replay that leaves an order readable found a readable one
\* and counted a fill if, and only if, the row is one.
LEMMA FilledTurn ==
    ASSUME NEW o \in Replayed, NEW row \in LogRow, ReplayEvent(o, row) # Unreadable
    PROVE  /\ o \in Order /\ o # Unreadable /\ o.filled \in Nat
           /\ row.kind = "FILL_INGESTED" =>
                ReplayEvent(o, row).filled = o.filled + row.quantity
           /\ row.kind # "FILL_INGESTED" => ReplayEvent(o, row).filled = o.filled
<1>1. o \in Order /\ o # Unreadable
  BY DEF ReplayEvent, Replayed
<1>2. o.filled \in Nat
  BY <1>1 DEF Order
<1>3. CASE row.kind = "ORDER_CREATED"
  <2>1. ReplayEvent(o, row) = o
    BY <1>1, <1>3 DEF ReplayEvent
  <2>. QED
    BY <1>1, <1>2, <1>3, <2>1
<1>4. CASE row.kind = "ORDER_STATUS_CHANGED"
  <2>1. ReplayEvent(o, row) = Move(o, row.to)
    BY <1>1, <1>4 DEF ReplayEvent
  <2>2. Move(o, row.to).filled = o.filled
    BY <1>1 DEF Move, Order
  <2>. QED
    BY <1>1, <1>2, <1>4, <2>1, <2>2
<1>5. CASE row.kind = "ORDER_AMENDED"
  <2>1. ReplayEvent(o, row) = Amend(o, row.quantity)
    BY <1>1, <1>5 DEF ReplayEvent
  <2>2. Amend(o, row.quantity).filled = o.filled
    BY <1>1 DEF Amend, Order
  <2>. QED
    BY <1>1, <1>2, <1>5, <2>1, <2>2
<1>6. CASE row.kind = "FILL_INGESTED"
  <2>1. ReplayEvent(o, row) = Fill(o, row.quantity)
    BY <1>1, <1>6 DEF ReplayEvent
  <2>2. row.quantity \in Nat
    <3>1. row \in [kind: {"ORDER_AMENDED", "FILL_INGESTED"}, quantity: Amounts]
      BY <1>6 DEF LogRow, Created
    <3>2. Amounts \subseteq Nat
      BY SyncAssumption
    <3>. QED
      BY <3>1, <3>2
  <2>3. Fill(o, row.quantity).filled = o.filled + row.quantity
    BY <1>1, <2>2, FillType
  <2>. QED
    BY <1>1, <1>2, <1>6, <2>1, <2>3
<1>. QED
  BY <1>3, <1>4, <1>5, <1>6 DEF LogRow, Created

\* The fills of another order stay; those of the event's order gain its fill.
LEMMA FillsGrow ==
    ASSUME Counted, NEW o, NEW e \in BrokerEvent, AppliesEvent(o, e)
    PROVE  /\ IsFiniteSet(DOMAIN fills')
           /\ \A f \in DOMAIN fills' :
                \/ fills'[f].intent = e.intent
                \/ f \in DOMAIN fills /\ fills'[f].intent = fills[f].intent
           /\ \A j \in Intents : j # e.intent => Total(fills', FillsOf(j)') = Total(fills, FillsOf(j))
           /\ e.type = "FILL" /\ e.fill \notin DOMAIN fills =>
                Total(fills', FillsOf(e.intent)') = Total(fills, FillsOf(e.intent)) + e.quantity
           /\ ~(e.type = "FILL" /\ e.fill \notin DOMAIN fills) => fills' = fills
<1>1. /\ fills' = FillsAfter(e) /\ Accepts(o, e) /\ IsFiniteSet(DOMAIN fills)
      /\ DOMAIN fills \subseteq FillIds /\ fills \in [DOMAIN fills -> FillRow]
  BY DEF AppliesEvent, Counted, Types, TypeOK
<1>2. CASE e.type = "FILL" /\ e.fill \notin DOMAIN fills
  <2>. DEFINE row == [intent |-> e.intent, quantity |-> e.quantity]
              D == DOMAIN fills \cup {e.fill}
  <2>1. fills' = [f \in D |-> IF f = e.fill THEN row ELSE fills[f]]
    BY <1>1, <1>2 DEF FillsAfter
  <2>2. /\ e.quantity \in Nat /\ row.intent = e.intent /\ row.quantity = e.quantity
        /\ \A f \in DOMAIN fills : fills[f].quantity \in Nat
    <3>1. e.quantity \in Amounts /\ Amounts \subseteq Nat
      BY <1>2, SyncAssumption DEF BrokerEvent
    <3>. QED
      BY <1>1, <3>1 DEF FillRow
  <2>. HIDE DEF row
  <2>3. /\ DOMAIN fills' = D /\ fills'[e.fill] = row
        /\ \A f \in DOMAIN fills : fills'[f] = fills[f]
    BY <1>2, <2>1
  <2>4. IsFiniteSet(D)
    BY <1>1, FS_AddElement
  <2>5. \A j \in Intents : FillsOf(j) \subseteq DOMAIN fills /\ IsFiniteSet(FillsOf(j))
    BY <1>1, FS_Subset DEF FillsOf
  <2>6. \A j \in Intents : Total(fills', FillsOf(j)) = Total(fills, FillsOf(j))
    <3>1. PICK new : new = fills'
      OBVIOUS
    <3>2. PICK old : old = fills
      OBVIOUS
    <3>3. ASSUME NEW j \in Intents
          PROVE  Total(new, FillsOf(j)) = Total(old, FillsOf(j))
      <4>1. \A x \in FillsOf(j) : new[x] = old[x]
        BY <2>3, <2>5, <3>1, <3>2
      <4>. QED
        BY <2>5, <4>1, TotalOf
    <3>. QED
      BY <3>1, <3>2, <3>3
  <2>7. \A j \in Intents : j # e.intent => FillsOf(j)' = FillsOf(j)
    BY <1>2, <2>2, <2>3 DEF FillsOf
  <2>8. FillsOf(e.intent)' = FillsOf(e.intent) \cup {e.fill} /\ e.fill \notin FillsOf(e.intent)
    BY <1>2, <2>2, <2>3 DEF FillsOf
  <2>9. Total(fills', FillsOf(e.intent)') = Total(fills, FillsOf(e.intent)) + e.quantity
    <3>1. e.intent \in Intents
      BY DEF BrokerEvent
    <3>2. PICK new, S : new = fills' /\ S = FillsOf(e.intent)
      OBVIOUS
    <3>3. \A y \in S \cup {e.fill} : new[y].quantity \in Nat
      BY <2>2, <2>3, <2>5, <3>1, <3>2
    <3>4. Total(new, S \cup {e.fill}) = Total(new, S) + new[e.fill].quantity
      BY <2>5, <2>8, <3>1, <3>2, <3>3, TotalAdd
    <3>. QED
      BY <2>2, <2>3, <2>6, <2>8, <3>1, <3>2, <3>4
  <2>. QED
    BY <1>2, <2>2, <2>3, <2>4, <2>6, <2>7, <2>9
<1>3. CASE ~(e.type = "FILL" /\ e.fill \notin DOMAIN fills)
  <2>1. fills' = fills
    <3>1. CASE e.type # "FILL"
      BY <1>1, <3>1 DEF FillsAfter
    <3>2. CASE e.type = "FILL"
      <4>1. e.fill \in DOMAIN fills
            /\ fills[e.fill] = [intent |-> e.intent, quantity |-> e.quantity]
        BY <1>1, <1>3, <3>2 DEF Accepts, SameFill
      <4>2. DOMAIN fills \cup {e.fill} = DOMAIN fills
        BY <4>1
      <4>3. fills' = [f \in DOMAIN fills |-> fills[f]]
        BY <1>1, <3>2, <4>1, <4>2 DEF FillsAfter
      <4>. QED
        BY <1>1, <4>3
    <3>. QED
      BY <3>1, <3>2
  <2>2. \A j \in Intents : FillsOf(j)' = FillsOf(j)
    BY <2>1 DEF FillsOf
  <2>. QED
    BY <1>1, <1>3, <2>1, <2>2
<1>. QED
  BY <1>2, <1>3

CountedFills == \A i \in Intents : Readable(i) => OrderOf(i).filled = Total(fills, FillsOf(i))

LEMMA CountedIs == FilledIsSumOfFills <=> CountedFills
BY DEF FilledIsSumOfFills, CountedFills, Total, FillsOf

\* Rows that are not fills leave what a readable order counts.
LEMMA CountedChange ==
    ASSUME Counted, NEW i \in Intents, NEW row \in LogRow, Changes(i, row)
    PROVE  CountedFills' /\ \A f \in DOMAIN fills' : log'[fills'[f].intent] # <<>>
<1>1. /\ LogsTyped /\ log[i] # <<>> /\ Append_(i, <<row>>) /\ row.kind # "FILL_INGESTED"
      /\ fills' = fills /\ CountedFills
  BY CountedIs DEF Counted, Types, TypeOK, LogsTyped, Changes
<1>2. <<row>> \in Seq(LogRow)
  OBVIOUS
<1>3. OrderOf(i)' = ReplayEvent(OrderOf(i), row)
  BY <1>1, AppendRow
<1>4. OrderOf(i) \in Replayed /\ OrderOf(i) # NoOrder
  BY <1>1, OrderType DEF Replayed
<1>5. /\ log'[i] = log[i] \o <<row>>
      /\ \A j \in Intents : j # i => log'[j] = log[j] /\ OrderOf(j)' = OrderOf(j)
  BY <1>1, <1>2, AppendRows
<1>6. \A j \in Intents : FillsOf(j)' = FillsOf(j)
  BY <1>1 DEF FillsOf
<1>7. Readable(i)' => Readable(i) /\ OrderOf(i)'.filled = OrderOf(i).filled
  BY <1>1, <1>3, <1>4, FilledTurn DEF Readable
<1>8. \A j \in Intents : j # i => (Readable(j)' <=> Readable(j))
  BY <1>5 DEF Readable
<1>9. CountedFills'
  BY <1>1, <1>5, <1>6, <1>7, <1>8 DEF CountedFills
<1>10. log'[i] # <<>>
  <2>1. log[i] \in Seq(LogRow) /\ log[i] \o <<row>> # <<>>
    BY <1>1, <1>2 DEF LogsTyped
  <2>. QED
    BY <1>5, <2>1
<1>11. ASSUME NEW f \in DOMAIN fills
       PROVE  log'[fills[f].intent] # <<>>
  <2>1. fills[f].intent \in Intents /\ log[fills[f].intent] # <<>>
    BY DEF Counted, Types, TypeOK, FillRow
  <2>. QED
    BY <1>5, <1>10, <2>1
<1>. QED
  BY <1>1, <1>9, <1>11

\* A new order has no fills yet.
LEMMA CountedCreate ==
    ASSUME Counted, NEW i \in Intents, Creates(i)
    PROVE  CountedFills' /\ \A f \in DOMAIN fills' : log'[fills'[f].intent] # <<>>
<1>1. /\ LogsTyped /\ log[i] = <<>> /\ Append_(i, <<Created>>)
      /\ fills' = fills /\ CountedFills
  BY CountedIs DEF Counted, Types, TypeOK, LogsTyped, Creates
<1>2. Created \in LogRow /\ <<Created>> \in Seq(LogRow)
  BY DEF LogRow
<1>3. OrderOf(i)' = NewOrder(Quantity[i])
  BY <1>1, AppendFirst
<1>4. \A j \in Intents : j # i => log'[j] = log[j] /\ OrderOf(j)' = OrderOf(j)
  BY <1>1, <1>2, AppendRows
<1>5. \A j \in Intents : FillsOf(j)' = FillsOf(j)
  BY <1>1 DEF FillsOf
<1>6. FillsOf(i) = {}
  BY <1>1 DEF FillsOf, Counted
<1>7. Total(fills, FillsOf(i)) = 0
  BY <1>6, FS_EmptySet, TotalChosen
<1>8. OrderOf(i)'.filled = 0
  BY <1>3 DEF NewOrder
<1>9. \A j \in Intents : j # i => (Readable(j)' <=> Readable(j))
  BY <1>4 DEF Readable
<1>10. CountedFills'
  BY <1>1, <1>4, <1>5, <1>7, <1>8, <1>9 DEF CountedFills
<1>11. ASSUME NEW f \in DOMAIN fills
       PROVE  log'[fills[f].intent] # <<>>
  <2>1. fills[f].intent \in Intents /\ log[fills[f].intent] # <<>>
    BY DEF Counted, Types, TypeOK, FillRow
  <2>. QED
    BY <1>1, <1>4, <2>1
<1>. QED
  BY <1>1, <1>10, <1>11

\* An event counts its fill exactly when it records it.
LEMMA CountedEvent ==
    ASSUME Counted, NEW o, NEW e \in BrokerEvent, AppliesEvent(o, e)
    PROVE  CountedFills'
<1>. DEFINE i == e.intent
<1>1. /\ LogsTyped /\ log[i] # <<>> /\ Append_(i, Effect(o, e)) /\ CountedFills
      /\ Types /\ i \in Intents
  BY CountedIs DEF Counted, Types, TypeOK, LogsTyped, AppliesEvent, BrokerEvent
<1>2. Effect(o, e) \in Seq(LogRow)
  BY EffectType
<1>3. /\ \A j \in Intents : j # i => Total(fills', FillsOf(j)') = Total(fills, FillsOf(j))
      /\ e.type = "FILL" /\ e.fill \notin DOMAIN fills =>
                Total(fills', FillsOf(i)') = Total(fills, FillsOf(i)) + e.quantity
      /\ ~(e.type = "FILL" /\ e.fill \notin DOMAIN fills) => fills' = fills
  BY FillsGrow
<1>4. \A j \in Intents : j # i => OrderOf(j)' = OrderOf(j) /\ (Readable(j)' <=> Readable(j))
  BY <1>1, <1>2, AppendRows DEF Readable
<1>5. OrderOf(i) \in Replayed /\ OrderOf(i) # NoOrder
  BY <1>1, OrderType DEF Replayed
<1>6. Readable(i)' => Readable(i) /\ OrderOf(i)'.filled = Total(fills', FillsOf(i)')
  <2>. SUFFICES ASSUME Readable(i)'
                PROVE  Readable(i) /\ OrderOf(i)'.filled = Total(fills', FillsOf(i)')
    OBVIOUS
  <2>1. OrderOf(i)' # Unreadable
    BY DEF Readable
  <2>2. Readable(i) => OrderOf(i).filled = Total(fills, FillsOf(i))
    BY <1>1 DEF CountedFills
  <2>3. CASE e.type = "FILL" /\ e.fill \notin DOMAIN fills
    <3>1. OrderOf(i)' = ReplayEvent(OrderOf(i), FillIngested(e.quantity))
      BY <1>1, <2>3, EffectOnOrder
    <3>2. /\ FillIngested(e.quantity) \in LogRow /\ FillIngested(e.quantity).kind = "FILL_INGESTED"
          /\ FillIngested(e.quantity).quantity = e.quantity
      BY <2>3 DEF FillIngested, LogRow, BrokerEvent
    <3>3. Readable(i) /\ OrderOf(i)'.filled = OrderOf(i).filled + e.quantity
      BY <1>5, <2>1, <3>1, <3>2, FilledTurn DEF Readable
    <3>. QED
      BY <1>3, <2>2, <2>3, <3>3
  <2>4. CASE ~(e.type = "FILL" /\ e.fill \notin DOMAIN fills)
    <3>1. Total(fills', FillsOf(i)') = Total(fills, FillsOf(i))
      BY <1>3, <2>4 DEF FillsOf
    <3>2. Readable(i) /\ OrderOf(i)'.filled = OrderOf(i).filled
      <4>1. CASE e.type = "ORDER_CANCELLED" /\ Working(o)
        <5>1. OrderOf(i)' = ReplayEvent(ReplayEvent(OrderOf(i), StatusChanged("CANCEL_PENDING")),
                                        StatusChanged("CANCELLED"))
          BY <1>1, <4>1, EffectOnOrder
        <5>2. /\ StatusChanged("CANCEL_PENDING") \in LogRow /\ StatusChanged("CANCELLED") \in LogRow
              /\ StatusChanged("CANCEL_PENDING").kind = "ORDER_STATUS_CHANGED"
              /\ StatusChanged("CANCELLED").kind = "ORDER_STATUS_CHANGED"
          BY RowsOf DEF OrderStatus
        <5>. DEFINE p == ReplayEvent(OrderOf(i), StatusChanged("CANCEL_PENDING"))
        <5>3. p \in Replayed
          BY <1>5, <5>2, EventType
        <5>4. OrderOf(i)' = ReplayEvent(p, StatusChanged("CANCELLED"))
          BY <5>1
        <5>. HIDE DEF p
        <5>5. p # Unreadable /\ OrderOf(i)'.filled = p.filled
          BY <2>1, <5>2, <5>3, <5>4, FilledTurn
        <5>. USE DEF p
        <5>6. OrderOf(i) # Unreadable /\ p.filled = OrderOf(i).filled
          BY <1>5, <5>2, <5>5, FilledTurn
        <5>. QED
          BY <1>5, <5>5, <5>6 DEF Readable
      <4>2. CASE e.type = "ORDER_REPLACED"
        <5>1. OrderOf(i)' = ReplayEvent(OrderOf(i), Amended(e.quantity))
          BY <1>1, <4>2, EffectOnOrder
        <5>2. e.quantity \in Amounts
          BY <4>2 DEF BrokerEvent
        <5>3. Amended(e.quantity) \in LogRow /\ Amended(e.quantity).kind = "ORDER_AMENDED"
          BY <5>2, RowsOf
        <5>. QED
          BY <1>5, <2>1, <5>1, <5>3, FilledTurn DEF Readable
      <4>3. CASE \/ e.type = "FILL" /\ e.fill \in DOMAIN fills
                 \/ e.type = "ORDER_CANCELLED" /\ ~Working(o)
                 \/ e.type = "ORDER_ACKNOWLEDGED"
        <5>1. log' = log
          BY <1>1, <4>3, EffectOnOrder
        <5>. QED
          BY <1>5, <2>1, <5>1 DEF Readable, OrderOf
      <4>. QED
        BY <2>4, <4>1, <4>2, <4>3 DEF BrokerEvent
    <3>. QED
      BY <2>2, <3>1, <3>2
  <2>. QED
    BY <2>3, <2>4
<1>. QED
  BY <1>1, <1>3, <1>4, <1>6 DEF CountedFills

LEMMA CountedStep ==
    ASSUME Counted, [Next]_vars
    PROVE  Counted'
<1>1. Types /\ Open
  BY DEF Counted
<1>2. Types' /\ Open'
  BY <1>1, TypesStep, OpenStep
<1>3. /\ CountedFills' /\ IsFiniteSet(DOMAIN fills')
      /\ \A f \in DOMAIN fills' : log'[fills'[f].intent] # <<>>
  <2>1. CASE log' = log /\ fills' = fills
    <3>1. \A i \in Intents : /\ OrderOf(i)' = OrderOf(i) /\ FillsOf(i)' = FillsOf(i)
                             /\ (Readable(i)' <=> Readable(i))
      BY <2>1 DEF OrderOf, FillsOf, Readable
    <3>2. CountedFills
      BY CountedIs DEF Counted
    <3>3. CountedFills'
      BY <2>1, <3>1, <3>2 DEF CountedFills
    <3>. QED
      BY <2>1, <3>3 DEF Counted
  <2>2. ASSUME NEW i \in Intents, Creates(i)
        PROVE  CountedFills' /\ IsFiniteSet(DOMAIN fills')
               /\ \A f \in DOMAIN fills' : log'[fills'[f].intent] # <<>>
    BY <2>2, CountedCreate DEF Creates, Counted
  <2>3. ASSUME NEW i \in Intents, NEW row \in LogRow, Changes(i, row)
        PROVE  CountedFills' /\ IsFiniteSet(DOMAIN fills')
               /\ \A f \in DOMAIN fills' : log'[fills'[f].intent] # <<>>
    BY <2>3, CountedChange DEF Changes, Counted
  <2>4. ASSUME NEW o, NEW e \in BrokerEvent, AppliesEvent(o, e)
        PROVE  CountedFills' /\ IsFiniteSet(DOMAIN fills')
               /\ \A f \in DOMAIN fills' : log'[fills'[f].intent] # <<>>
    <3>1. \A j \in Intents : log[j] # <<>> => log'[j] # <<>>
      BY <1>1, LogsKept
    <3>2. e.intent \in Intents /\ log[e.intent] # <<>>
      BY <2>4 DEF AppliesEvent, BrokerEvent
    <3>3. \A f \in DOMAIN fills : fills[f].intent \in Intents /\ log[fills[f].intent] # <<>>
      BY DEF Counted, Types, TypeOK, FillRow
    <3>4. /\ IsFiniteSet(DOMAIN fills')
          /\ \A f \in DOMAIN fills' :
                \/ fills'[f].intent = e.intent
                \/ f \in DOMAIN fills /\ fills'[f].intent = fills[f].intent
      BY <2>4, FillsGrow
    <3>5. \A f \in DOMAIN fills' : log'[fills'[f].intent] # <<>>
      BY <3>1, <3>2, <3>3, <3>4
    <3>. QED
      BY <2>4, <3>4, <3>5, CountedEvent
  <2>. QED
    BY <1>1, <2>1, <2>2, <2>3, <2>4, Writes
<1>4. FilledIsSumOfFills'
  BY <1>3 DEF FilledIsSumOfFills, CountedFills, Total, FillsOf
<1>. QED
  BY <1>2, <1>3, <1>4 DEF Counted

(* What an order says is filled is what the fills table holds for it, for  *)
(* any number of connections, crashes and reused fill identifiers          *)
(* (_ingest_fill).                                                         *)
THEOREM FilledIsCounted == Spec => []FilledIsSumOfFills
<1>1. Init => Counted
  <2>. SUFFICES ASSUME Init PROVE Counted
    OBVIOUS
  <2>1. /\ fills = [f \in {} |-> NoOrder] /\ syncRead = NoOrder /\ call = NoCall
        /\ log = [i \in Intents |-> <<>>]
    BY DEF Init
  <2>2. DOMAIN fills = {} /\ IsFiniteSet(DOMAIN fills)
    BY <2>1, FS_EmptySet
  <2>3. \A i \in Intents : ~Readable(i)
    BY <2>1 DEF Readable, OrderOf
  <2>. QED
    BY <2>1, <2>2, <2>3, TypesInit DEF Counted, Open, FilledIsSumOfFills
<1>2. Counted /\ [Next]_vars => Counted'
  BY CountedStep
<1>3. Counted => FilledIsSumOfFills
  BY DEF Counted
<1>. QED
  BY <1>1, <1>2, <1>3, PTL DEF Spec

--------------------------------------------------------------------------------
(***************************************************************************)
(* Left alone by operators and crashes: the OMS lags behind the broker     *)
(***************************************************************************)

BeforeAnswer == {"created", "risk_pending", "approved", "refused", "refused_pending"}
AfterAnswer == {"accepted", "accepted_pending", "accepted_submitted"}

\* The order of an intent that nothing was filled or amended of.
OnTheWay(i, status) == [quantity |-> Quantity[i], filled |-> 0, status |-> status]

StatusAt(p) ==
    CASE p = "created" -> "PROPOSED"
      [] p = "risk_pending" -> "RISK_PENDING"
      [] p \in {"approved", "refused", "accepted"} -> "APPROVED"
      [] p \in {"refused_pending", "accepted_pending"} -> "SUBMISSION_PENDING"
      [] p = "accepted_submitted" -> "SUBMITTED"

\* The event e takes the adapter's orders from a to b.
Leads(a, e, b) ==
    /\ b[e.intent] \in Order
    /\ \A j \in Intents : j # e.intent => b[j] = a[j]
    /\ \/ /\ e.type = "ORDER_ACKNOWLEDGED"
          /\ a[e.intent] = NoOrder
          /\ b[e.intent] = OnTheWay(e.intent, "ACKNOWLEDGED")
       \/ /\ a[e.intent] \in Order
          /\ Records(a[e.intent], e, b[e.intent])

\* h[n] is what the adapter's orders were after its first n events.
History(h) ==
    /\ h \in [0 .. Len(brokerEvents) -> [Intents -> Order \cup {NoOrder}]]
    /\ h[Len(brokerEvents)] = brokerOrders
    /\ \A n \in 0 .. Len(brokerEvents), i \in Intents :
            h[n][i] # NoOrder => brokerOrders[i] # NoOrder
    /\ \A n \in 1 .. Len(brokerEvents) : Leads(h[n - 1], brokerEvents[n], h[n])

IsFill(n) == n \in 1 .. Len(brokerEvents) /\ brokerEvents[n].type = "FILL"

\* The adapter uses an identifier once; the OMS has those up to the cursor.
Identifiers ==
    /\ \A n : IsFill(n) => brokerEvents[n].fill \in brokerFills
    /\ \A m, n : IsFill(m) /\ IsFill(n) /\ brokerEvents[m].fill = brokerEvents[n].fill => m = n
    /\ \A f \in DOMAIN fills : \E n : IsFill(n) /\ n <= cursor /\ brokerEvents[n].fill = f

\* What is left to apply are the events after the cursor.
Pending ==
    /\ cursor \in 0 .. Len(brokerEvents)
    /\ pc = "apply" => \A n \in 1 .. Len(queue) : queue[n] = cursor + n
    /\ syncRead # NoOrder => pc = "apply" /\ syncRead = OrderOf(EventIntent)

\* An order whose submission was cut off stays where that left it.  An order
\* that was only created never reached the adapter.
Interruptions ==
    /\ \A i \in interrupted : \E s \in Unsettled : OrderOf(i) = OnTheWay(i, s)
    /\ pc \in BeforeAnswer \cup AfterAnswer => target \notin interrupted
    /\ \A i \in Intents : log[i] = <<Created>> => brokerOrders[i] = NoOrder

\* The OMS holds the adapter's orders as they were at the cursor, save those
\* that were cut off, and that it acknowledged an order before it applied the
\* event that says so.
Lags(h) ==
    /\ \A i \in Intents :
            brokerOrders[i] # NoOrder /\ i \notin interrupted /\ ~(target = i /\ pc \in AfterAnswer)
            => OrderOf(i) = IF h[cursor][i] # NoOrder THEN h[cursor][i]
                            ELSE OnTheWay(i, "ACKNOWLEDGED")
    /\ pc \in BeforeAnswer =>
            brokerOrders[target] = NoOrder /\ OrderOf(target) = OnTheWay(target, StatusAt(pc))
    /\ pc \in AfterAnswer =>
            /\ brokerOrders[target] # NoOrder /\ h[cursor][target] = NoOrder
            /\ OrderOf(target) = OnTheWay(target, StatusAt(pc))

Alone == operatorCalls = 0 /\ crashes = 0

Follows ==
    /\ call = NoCall
    /\ Identifiers
    /\ Pending
    /\ Interruptions
    /\ \E h : History(h) /\ Lags(h)

LEMMA OnTheWayType ==
    ASSUME NEW i \in Intents, NEW status \in OrderStatus
    PROVE  /\ OnTheWay(i, status) \in Order
           /\ \A to \in OrderStatus : Move(OnTheWay(i, status), to) = OnTheWay(i, to)
BY SyncAssumption DEF OnTheWay, Order, Move

LEMMA CreatedIsProposed ==
    ASSUME NEW i \in Intents, log[i] = <<Created>>
    PROVE  OrderOf(i) = OnTheWay(i, "PROPOSED")
BY CreatedReplays DEF OrderOf, NewOrder, OnTheWay

\* An order that was cut off can be neither filled nor replaced.
LEMMA CutOffIsIdle ==
    ASSUME NEW i \in Intents, NEW s \in Unsettled
    PROVE  OnTheWay(i, s) \in Order /\ ~Working(OnTheWay(i, s))
BY OnTheWayType DEF Unsettled, OrderStatus, Working, OnTheWay

LEMMA StatusesAt ==
    /\ StatusAt("created") = "PROPOSED" /\ StatusAt("risk_pending") = "RISK_PENDING"
    /\ StatusAt("approved") = "APPROVED" /\ StatusAt("refused") = "APPROVED"
    /\ StatusAt("accepted") = "APPROVED" /\ StatusAt("refused_pending") = "SUBMISSION_PENDING"
    /\ StatusAt("accepted_pending") = "SUBMISSION_PENDING"
    /\ StatusAt("accepted_submitted") = "SUBMITTED"
    /\ \A p \in BeforeAnswer \cup AfterAnswer :
            StatusAt(p) \in OrderStatus /\ StatusAt(p) \in Unsettled
BY DEF StatusAt, BeforeAnswer, AfterAnswer, OrderStatus, Unsettled

\* One more event continues a history.
LEMMA HistoryGrows ==
    ASSUME Types, NEW h, History(h), NEW e \in BrokerEvent, NEW p \in Order,
           BrokerRecords(e.intent, p, e),
           \/ /\ e.type = "ORDER_ACKNOWLEDGED" /\ brokerOrders[e.intent] = NoOrder
              /\ p = OnTheWay(e.intent, "ACKNOWLEDGED")
           \/ brokerOrders[e.intent] \in Order /\ Records(brokerOrders[e.intent], e, p)
    PROVE  \E g : History(g)' /\ \A n \in 0 .. Len(brokerEvents) : g[n] = h[n]
<1>. DEFINE len == Len(brokerEvents)
<1>1. /\ e.intent \in Intents /\ len \in Nat
      /\ brokerOrders \in [Intents -> Order \cup {NoOrder}]
  BY DEF BrokerEvent, Types, TypeOK
<1>2. /\ Len(brokerEvents') = len + 1
      /\ \A n \in 1 .. len : brokerEvents'[n] = brokerEvents[n]
      /\ brokerEvents'[len + 1] = e
      /\ brokerOrders' \in [Intents -> Order \cup {NoOrder}]
  BY <1>1, RecordsType
<1>3. /\ brokerOrders'[e.intent] = p
      /\ \A j \in Intents : j # e.intent => brokerOrders'[j] = brokerOrders[j]
  BY <1>1 DEF BrokerRecords
<1>4. p # NoOrder
  BY DEF Order, NoOrder, OrderStatus
<1>5. PICK after : after = brokerOrders'
  OBVIOUS
<1>6. PICK l \in Nat : l = len
  BY <1>1
<1>. DEFINE g == [n \in 0 .. l + 1 |-> IF n = l + 1 THEN after ELSE h[n]]
<1>7. /\ h \in [0 .. l -> [Intents -> Order \cup {NoOrder}]]
      /\ h[l] = brokerOrders
      /\ \A n \in 0 .. l, i \in Intents : h[n][i] # NoOrder => brokerOrders[i] # NoOrder
      /\ \A n \in 1 .. l : Leads(h[n - 1], brokerEvents[n], h[n])
  BY <1>6 DEF History
<1>8. g \in [0 .. l + 1 -> [Intents -> Order \cup {NoOrder}]]
  BY <1>2, <1>5, <1>7
<1>9. g[l + 1] = after /\ \A n \in 0 .. l : g[n] = h[n]
  OBVIOUS
<1>. HIDE DEF g
<1>10. \A n \in 0 .. l + 1, i \in Intents : g[n][i] # NoOrder => after[i] # NoOrder
  BY <1>3, <1>4, <1>5, <1>7, <1>9
<1>11. \A n \in 1 .. l : Leads(g[n - 1], brokerEvents'[n], g[n])
  BY <1>2, <1>6, <1>7, <1>9
<1>12. Leads(g[l], brokerEvents'[l + 1], g[l + 1])
  BY <1>2, <1>3, <1>5, <1>6, <1>7, <1>9 DEF Leads
<1>13. \A n \in 1 .. l + 1 : Leads(g[n - 1], brokerEvents'[n], g[n])
  BY <1>11, <1>12
<1>14. History(g)'
  BY <1>2, <1>5, <1>6, <1>8, <1>9, <1>10, <1>13 DEF History
<1>. QED
  BY <1>6, <1>9, <1>14

LEMMA IdentifiersGrow ==
    ASSUME Types, Identifiers, NEW e \in BrokerEvent, NEW p \in Order,
           BrokerRecords(e.intent, p, e), fills' = fills, cursor' = cursor,
           cursor \in 0 .. Len(brokerEvents),
           \/ e.type = "FILL" /\ e.fill \notin brokerFills /\ brokerFills' = brokerFills \cup {e.fill}
           \/ e.type # "FILL" /\ brokerFills' = brokerFills
    PROVE  Identifiers'
<1>1. e.intent \in Intents /\ Len(brokerEvents) \in Nat
  BY DEF BrokerEvent, Types, TypeOK
<1>2. /\ Len(brokerEvents') = Len(brokerEvents) + 1
      /\ \A n \in 1 .. Len(brokerEvents) : brokerEvents'[n] = brokerEvents[n]
      /\ brokerEvents'[Len(brokerEvents) + 1] = e
  BY <1>1, RecordsType
<1>3. \A n : IsFill(n)' <=> IsFill(n) \/ (n = Len(brokerEvents) + 1 /\ e.type = "FILL")
  BY <1>1, <1>2 DEF IsFill
<1>4. \A n : IsFill(n) => brokerEvents'[n] = brokerEvents[n] /\ n \in 1 .. Len(brokerEvents)
  BY <1>2 DEF IsFill
<1>. QED
  BY <1>1, <1>2, <1>3, <1>4 DEF Identifiers

LEMMA FollowsBroker ==
    ASSUME Types, Follows, Broker
    PROVE  Follows'
<1>1. /\ log' = log /\ fills' = fills /\ cursor' = cursor /\ pc' = pc /\ target' = target
      /\ queue' = queue /\ syncRead' = syncRead /\ call' = call /\ interrupted' = interrupted
  BY BrokerStep DEF omsVars, serviceVars, operatorVars, faultVars
<1>2. PICK e \in BrokerEvent, p \in Order :
        /\ Records(brokerOrders[e.intent], e, p)
        /\ brokerOrders[e.intent] \in Order
        /\ BrokerRecords(e.intent, p, e)
        /\ \/ e.type = "FILL" /\ e.fill \notin brokerFills /\ brokerFills' = brokerFills \cup {e.fill}
           \/ e.type # "FILL" /\ brokerFills' = brokerFills
  BY BrokerStep
<1>3. PICK h : History(h) /\ Lags(h)
  BY DEF Follows
<1>4. PICK g : History(g)' /\ \A n \in 0 .. Len(brokerEvents) : g[n] = h[n]
  BY <1>2, <1>3, HistoryGrows
<1>5. e.intent \in Intents /\ cursor \in 0 .. Len(brokerEvents) /\ Len(brokerEvents) \in Nat
      /\ brokerOrders \in [Intents -> Order \cup {NoOrder}]
  BY DEF BrokerEvent, Follows, Pending, Types, TypeOK
<1>6. Identifiers'
  BY <1>1, <1>2, <1>5, IdentifiersGrow DEF Follows
<1>7. Pending'
  <2>1. /\ Len(brokerEvents') = Len(brokerEvents) + 1
        /\ \A n \in 1 .. Len(brokerEvents) : brokerEvents'[n] = brokerEvents[n]
    BY <1>2, <1>5, RecordsType
  <2>2. pc = "apply" => EventIntent' = EventIntent
    BY <1>1, <2>1, NextEvent DEF EventIntent
  <2>3. \A i : OrderOf(i)' = OrderOf(i)
    BY <1>1 DEF OrderOf
  <2>4. syncRead # NoOrder => syncRead' = OrderOf(EventIntent)'
    <3>1. PICK i : i = EventIntent
      OBVIOUS
    <3>. QED
      BY <1>1, <2>2, <2>3, <3>1 DEF Follows, Pending, OrderOf
  <2>. QED
    BY <1>1, <1>5, <2>1, <2>4 DEF Follows, Pending
<1>8. \A j \in Intents : brokerOrders'[j] # NoOrder <=> brokerOrders[j] # NoOrder
  <2>1. NoOrder \notin Order
    BY DEF NoOrder, Order, OrderStatus
  <2>. QED
    BY <1>2, <1>5, <2>1 DEF BrokerRecords
<1>9. Lags(g)'
  <2>1. \A j \in Intents : brokerOrders'[j] # NoOrder <=> brokerOrders[j] # NoOrder
    BY <1>8
  <2>2. g[cursor] = h[cursor]
    BY <1>4, <1>5
  <2>3. \A i : OrderOf(i)' = OrderOf(i)
    BY <1>1 DEF OrderOf
  <2>4. OrderOf(target)' = OrderOf(target)
    BY <1>1 DEF OrderOf
  <2>5. pc \in BeforeAnswer \cup AfterAnswer => target \in Intents
    BY DEF Types, BeforeAnswer, AfterAnswer
  <2>. QED
    BY <1>1, <1>3, <2>1, <2>2, <2>3, <2>4, <2>5 DEF Lags
<1>10. Interruptions'
  <2>1. \A i : OrderOf(i)' = OrderOf(i)
    BY <1>1 DEF OrderOf
  <2>. QED
    BY <1>1, <1>8, <2>1 DEF Follows, Interruptions
<1>. QED
  BY <1>1, <1>4, <1>6, <1>7, <1>9, <1>10 DEF Follows

LEMMA FollowsAccept ==
    ASSUME Types, Follows, BrokerAccepts
    PROVE  Follows'
<1>1. /\ pc = "approved" /\ pc' = "accepted" /\ brokerOrders[target] = NoOrder
      /\ BrokerRecords(target, Move(OrderOf(target), "ACKNOWLEDGED"),
                       [type |-> "ORDER_ACKNOWLEDGED", intent |-> target])
      /\ log' = log /\ fills' = fills /\ cursor' = cursor /\ target' = target
      /\ queue' = queue /\ syncRead' = syncRead /\ call' = call /\ brokerFills' = brokerFills
      /\ interrupted' = interrupted
  BY DEF BrokerAccepts, omsVars, operatorVars, faultVars
<1>2. target \in Intents /\ brokerOrders \in [Intents -> Order \cup {NoOrder}]
      /\ cursor \in 0 .. Len(brokerEvents) /\ Len(brokerEvents) \in Nat
  BY <1>1 DEF Types, TypeOK, Follows, Pending
<1>3. PICK i \in Intents : i = target
  BY <1>2
<1>4. PICK h : History(h) /\ Lags(h)
  BY DEF Follows
<1>5. OrderOf(i) = OnTheWay(i, "APPROVED")
  BY <1>1, <1>3, <1>4, StatusesAt DEF Lags, BeforeAnswer
<1>6. PICK p \in Order : p = OnTheWay(i, "ACKNOWLEDGED") /\ p = Move(OrderOf(i), "ACKNOWLEDGED")
  <2>1. "APPROVED" \in OrderStatus /\ "ACKNOWLEDGED" \in OrderStatus
    BY DEF OrderStatus
  <2>. QED
    BY <1>5, <2>1, OnTheWayType
<1>7. PICK e \in BrokerEvent : e.type = "ORDER_ACKNOWLEDGED" /\ e.intent = i
                               /\ BrokerRecords(e.intent, p, e)
  <2>. DEFINE e == [type |-> "ORDER_ACKNOWLEDGED", intent |-> i]
  <2>1. e \in BrokerEvent /\ e.type = "ORDER_ACKNOWLEDGED" /\ e.intent = i
    BY DEF BrokerEvent
  <2>2. BrokerRecords(i, p, e)
    BY <1>1, <1>3, <1>6
  <2>. HIDE DEF e
  <2>. QED
    BY <2>1, <2>2
<1>8. brokerOrders[i] = NoOrder
  BY <1>1, <1>3
<1>9. PICK g : History(g)' /\ \A n \in 0 .. Len(brokerEvents) : g[n] = h[n]
  BY <1>4, <1>6, <1>7, <1>8, HistoryGrows
<1>10. Identifiers'
  BY <1>1, <1>2, <1>7, IdentifiersGrow DEF Follows
<1>11. Len(brokerEvents') = Len(brokerEvents) + 1
  BY <1>7, RecordsType
<1>12. Pending'
  BY <1>1, <1>2, <1>11 DEF Follows, Pending
<1>13. Lags(g)'
  <2>1. NoOrder \notin Order
    BY DEF NoOrder, Order, OrderStatus
  <2>2. \A j \in Intents : j # i => brokerOrders'[j] = brokerOrders[j]
    BY <1>2, <1>7 DEF BrokerRecords
  <2>3. brokerOrders'[i] # NoOrder
    BY <1>2, <1>7, <2>1 DEF BrokerRecords
  <2>4. g[cursor] = h[cursor] /\ h[cursor][i] = NoOrder
    BY <1>2, <1>4, <1>8, <1>9 DEF History
  <2>5. \A j : OrderOf(j)' = OrderOf(j)
    BY <1>1 DEF OrderOf
  <2>6. OrderOf(target)' = OrderOf(i)
    BY <1>1, <1>3 DEF OrderOf
  <2>7. pc' \in AfterAnswer /\ pc' \notin BeforeAnswer /\ pc \notin AfterAnswer
    BY <1>1 DEF AfterAnswer, BeforeAnswer
  <2>8. OrderOf(target)' = OnTheWay(target', StatusAt(pc'))
    BY <1>1, <1>3, <1>5, <2>6, StatusesAt
  <2>. QED
    BY <1>1, <1>3, <1>4, <2>2, <2>3, <2>4, <2>5, <2>7, <2>8 DEF Lags
<1>14. Interruptions'
  <2>1. \A j : OrderOf(j)' = OrderOf(j)
    BY <1>1 DEF OrderOf
  <2>2. \A j \in Intents : j # i => brokerOrders'[j] = brokerOrders[j]
    BY <1>2, <1>7 DEF BrokerRecords
  <2>3. log[i] # <<Created>>
    BY <1>5, CreatedIsProposed DEF OnTheWay
  <2>4. pc \in BeforeAnswer
    BY <1>1 DEF BeforeAnswer
  <2>. QED
    BY <1>1, <1>3, <2>1, <2>2, <2>3, <2>4 DEF Follows, Interruptions
<1>. QED
  BY <1>1, <1>9, <1>10, <1>12, <1>13, <1>14 DEF Follows

\* Steps of the service that touch neither the OMS nor the adapter.
LEMMA FollowsQuiet ==
    ASSUME Types, Follows, UNCHANGED <<omsVars, brokerVars, call, interrupted>>,
           target' = target,
           \/ pc' = pc
           \/ pc' \notin BeforeAnswer \cup AfterAnswer /\ pc \notin AfterAnswer
           \/ pc = "approved" /\ pc' = "refused",
           pc' = "apply" => \A n \in 1 .. Len(queue') : queue'[n] = cursor + n,
           \/ syncRead' = NoOrder
           \/ pc' = "apply" /\ syncRead' = OrderOf(EventIntent) /\ queue' = queue
    PROVE  Follows'
<1>1. /\ log' = log /\ fills' = fills /\ cursor' = cursor /\ call' = call
      /\ brokerOrders' = brokerOrders /\ brokerEvents' = brokerEvents
      /\ brokerFills' = brokerFills
  BY DEF omsVars, brokerVars
<1>2. Identifiers'
  BY <1>1 DEF Follows, Identifiers, IsFill
<1>3. \A j : OrderOf(j)' = OrderOf(j)
  BY <1>1 DEF OrderOf
<1>4. Pending'
  <2>1. queue' = queue => OrderOf(EventIntent)' = OrderOf(EventIntent)
    BY <1>1 DEF OrderOf, EventIntent
  <2>. QED
    BY <1>1, <2>1 DEF Follows, Pending
<1>5. PICK h : History(h) /\ Lags(h)
  BY DEF Follows
<1>6. History(h)'
  BY <1>1, <1>5 DEF History
<1>7. OrderOf(target)' = OrderOf(target)
  BY <1>1 DEF OrderOf
<1>8. Lags(h)'
  <2>1. CASE pc' = pc
    BY <1>1, <1>3, <1>5, <1>7, <2>1 DEF Lags
  <2>2. CASE pc' \notin BeforeAnswer \cup AfterAnswer /\ pc \notin AfterAnswer
    BY <1>1, <1>3, <1>5, <2>2 DEF Lags
  <2>3. CASE pc = "approved" /\ pc' = "refused"
    <3>1. pc \in BeforeAnswer /\ pc' \in BeforeAnswer /\ StatusAt(pc') = StatusAt(pc)
          /\ pc \notin AfterAnswer /\ pc' \notin AfterAnswer
      BY <2>3, StatusesAt DEF BeforeAnswer, AfterAnswer
    <3>. QED
      BY <1>1, <1>3, <1>5, <1>7, <3>1 DEF Lags
  <2>. QED
    BY <2>1, <2>2, <2>3
<1>9. Interruptions'
  <2>1. pc' \in BeforeAnswer \cup AfterAnswer => pc \in BeforeAnswer \cup AfterAnswer
    BY DEF BeforeAnswer
  <2>. QED
    BY <1>1, <1>3, <2>1 DEF Follows, Interruptions
<1>. QED
  BY <1>1, <1>2, <1>4, <1>6, <1>8, <1>9 DEF Follows

LEMMA FollowsCreate ==
    ASSUME Types, Follows, NEW i \in Intents, SubmitCreates(i)
    PROVE  Follows'
<1>1. /\ pc = "idle" /\ pc' = "created" /\ target' = i /\ log[i] = <<>>
      /\ Append_(i, <<Created>>)
      /\ fills' = fills /\ cursor' = cursor /\ call' = call /\ syncRead' = syncRead
      /\ brokerOrders' = brokerOrders /\ brokerEvents' = brokerEvents
      /\ brokerFills' = brokerFills /\ interrupted' = interrupted
  BY DEF SubmitCreates, brokerVars, operatorVars, faultVars
<1>2. LogsTyped
  BY DEF Types, TypeOK, LogsTyped
<1>3. OrderOf(i)' = NewOrder(Quantity[i]) /\ OrderOf(i) = NoOrder
  BY <1>1, <1>2, AppendFirst DEF OrderOf
<1>4. \A j \in Intents : j # i => OrderOf(j)' = OrderOf(j)
  <2>1. <<Created>> \in Seq(LogRow)
    BY DEF LogRow
  <2>. QED
    BY <1>1, <1>2, <2>1, AppendRows
<1>5. Identifiers'
  BY <1>1 DEF Follows, Identifiers, IsFill
<1>6. Pending'
  BY <1>1 DEF Follows, Pending
<1>7. PICK h : History(h) /\ Lags(h)
  BY DEF Follows
<1>8. History(h)'
  BY <1>1, <1>7 DEF History
<1>9. pc \notin AfterAnswer /\ pc' \notin AfterAnswer /\ StatusAt(pc') = "PROPOSED"
  BY <1>1, StatusesAt DEF AfterAnswer
<1>10. i \notin interrupted
  BY <1>3 DEF Follows, Interruptions, OnTheWay, NoOrder, Unsettled
<1>11. brokerOrders[i] = NoOrder
  <2>. SUFFICES ASSUME brokerOrders[i] # NoOrder PROVE FALSE
    OBVIOUS
  <2>1. OrderOf(i) = IF h[cursor][i] # NoOrder THEN h[cursor][i] ELSE OnTheWay(i, "ACKNOWLEDGED")
    BY <1>7, <1>9, <1>10 DEF Lags
  <2>2. OnTheWay(i, "ACKNOWLEDGED") # NoOrder
    BY DEF OnTheWay, NoOrder
  <2>. QED
    BY <1>3, <2>1, <2>2
<1>12. NewOrder(Quantity[i]) = OnTheWay(i, "PROPOSED")
  BY DEF NewOrder, OnTheWay
<1>13. OrderOf(target)' = OrderOf(i)'
  BY <1>1 DEF OrderOf
<1>14. Lags(h)'
  BY <1>1, <1>3, <1>4, <1>7, <1>9, <1>11, <1>12, <1>13 DEF Lags
<1>15. Interruptions'
  <2>1. interrupted \subseteq Intents
    BY DEF Types, TypeOK
  <2>2. \A j \in Intents : j # i => log'[j] = log[j]
    BY <1>1, <1>2 DEF Append_, LogsTyped
  <2>3. \A j \in interrupted : OrderOf(j)' = OrderOf(j)
    BY <1>4, <1>10, <2>1
  <2>. QED
    BY <1>1, <1>11, <1>10, <2>2, <2>3 DEF Follows, Interruptions
<1>. QED
  BY <1>1, <1>5, <1>6, <1>8, <1>14, <1>15 DEF Follows

\* A transition on the way to the adapter or back from it.
LEMMA FollowsAdvance ==
    ASSUME Types, Follows, NEW from \in BeforeAnswer \cup AfterAnswer,
           NEW status \in OrderStatus, NEW to, Advance(from, status, to),
           \/ from \in BeforeAnswer /\ to \in BeforeAnswer /\ StatusAt(to) = status
           \/ from \in AfterAnswer /\ to \in AfterAnswer /\ StatusAt(to) = status
           \/ from \in BeforeAnswer /\ to = "idle"
           \/ from \in AfterAnswer /\ to = "sync" /\ status = "ACKNOWLEDGED"
    PROVE  Follows'
<1>1. /\ pc = from /\ pc' = to /\ target' = target /\ CanMove(OrderOf(target), status)
      /\ Append_(target, <<StatusChanged(status)>>)
      /\ fills' = fills /\ cursor' = cursor /\ call' = call /\ syncRead' = syncRead
      /\ brokerOrders' = brokerOrders /\ brokerEvents' = brokerEvents
      /\ brokerFills' = brokerFills /\ interrupted' = interrupted
  BY DEF Advance, brokerVars, operatorVars, faultVars
<1>2. LogsTyped /\ target \in Intents /\ pc # "apply" /\ to # "apply"
  BY <1>1 DEF Types, TypeOK, LogsTyped, BeforeAnswer, AfterAnswer
<1>3. PICK i \in Intents : i = target
  BY <1>2
<1>4. PICK h : History(h) /\ Lags(h)
  BY DEF Follows
<1>5. OrderOf(i) = OnTheWay(i, StatusAt(from)) /\ StatusAt(from) \in OrderStatus
  BY <1>1, <1>3, <1>4, StatusesAt DEF Lags
<1>6. OrderOf(i)' = OnTheWay(i, status)
  <2>1. log[i] # <<>>
    BY <1>1, <1>3, MovesExisting
  <2>2. StatusChanged(status) \in LogRow
    BY RowsOf
  <2>3. OrderOf(i)' = ReplayEvent(OrderOf(i), StatusChanged(status))
    BY <1>1, <1>2, <1>3, <2>1, <2>2, AppendRow
  <2>4. OrderOf(i) \in Order
    BY <1>5, OnTheWayType
  <2>5. OrderOf(i)' = Move(OrderOf(i), status)
    BY <1>1, <1>3, <2>3, <2>4, Turns
  <2>. QED
    BY <1>5, <2>5, OnTheWayType
<1>7. \A j \in Intents : j # i => OrderOf(j)' = OrderOf(j)
  <2>1. StatusChanged(status) \in LogRow /\ <<StatusChanged(status)>> \in Seq(LogRow)
    BY RowsOf
  <2>. QED
    BY <1>1, <1>2, <1>3, <2>1, AppendRows
<1>8. Identifiers'
  BY <1>1 DEF Follows, Identifiers, IsFill
<1>9. Pending'
  BY <1>1, <1>2 DEF Follows, Pending
<1>10. History(h)'
  BY <1>1, <1>4 DEF History
<1>11. OrderOf(target)' = OrderOf(i)'
  BY <1>1, <1>3 DEF OrderOf
<1>12. /\ BeforeAnswer \cap AfterAnswer = {} /\ "idle" \notin BeforeAnswer \cup AfterAnswer
       /\ "sync" \notin BeforeAnswer \cup AfterAnswer
  BY DEF BeforeAnswer, AfterAnswer
<1>13. i \notin interrupted
  BY <1>1, <1>3 DEF Follows, Interruptions
<1>14. Lags(h)'
  BY <1>1, <1>3, <1>4, <1>6, <1>7, <1>11, <1>12, <1>13 DEF Lags
<1>15. Interruptions'
  <2>1. <<StatusChanged(status)>> \in Seq(LogRow) /\ log[i] # <<>>
    BY <1>1, <1>3, RowsOf, MovesExisting
  <2>2. log'[i] = <<Created>> => log[i] = <<Created>>
    BY <1>1, <1>2, <1>3, <2>1, NotLonger
  <2>3. \A j \in Intents : j # i => log'[j] = log[j]
    BY <1>1, <1>2, <1>3 DEF Append_, LogsTyped
  <2>4. interrupted \subseteq Intents
    BY DEF Types, TypeOK
  <2>5. \A j \in interrupted : OrderOf(j)' = OrderOf(j)
    BY <1>7, <1>13, <2>4
  <2>. QED
    BY <1>1, <1>3, <1>13, <2>2, <2>3, <2>5 DEF Follows, Interruptions
<1>. QED
  BY <1>1, <1>8, <1>9, <1>10, <1>14, <1>15 DEF Follows

LEMMA FollowsSubmission ==
    ASSUME Types, Follows, MarkRiskPending \/ MarkDecision \/ MarkRefused \/ MarkAccepted
    PROVE  Follows'
<1>1. {"RISK_PENDING", "APPROVED", "RISK_REJECTED", "SUBMISSION_PENDING", "REJECTED",
        "SUBMITTED", "ACKNOWLEDGED"} \subseteq OrderStatus
  BY DEF OrderStatus
<1>2. CASE MarkRiskPending
  BY <1>1, <1>2, FollowsAdvance, StatusesAt DEF MarkRiskPending, BeforeAnswer
<1>3. CASE MarkDecision
  BY <1>1, <1>3, FollowsAdvance, StatusesAt DEF MarkDecision, BeforeAnswer
<1>4. CASE MarkRefused
  BY <1>1, <1>4, FollowsAdvance, StatusesAt DEF MarkRefused, BeforeAnswer
<1>5. CASE MarkAccepted
  <2>1. CASE Advance("accepted", "SUBMISSION_PENDING", "accepted_pending")
    BY <1>1, <2>1, FollowsAdvance, StatusesAt DEF AfterAnswer
  <2>2. CASE Advance("accepted_pending", "SUBMITTED", "accepted_submitted")
    BY <1>1, <2>2, FollowsAdvance, StatusesAt DEF AfterAnswer
  <2>3. CASE Advance("accepted_submitted", "ACKNOWLEDGED", "sync")
    BY <1>1, <2>3, FollowsAdvance, StatusesAt DEF AfterAnswer
  <2>. QED
    BY <1>5, <2>1, <2>2, <2>3 DEF MarkAccepted
<1>. QED
  BY <1>2, <1>3, <1>4, <1>5

\* The event at the front of the queue is the one after the cursor, and the
\* order that it is about was cut off or is as the adapter had it before that
\* event.
LEMMA NextIsNext ==
    ASSUME Types, Follows, pc = "apply", NEW e, e = brokerEvents[Head(queue)],
           NEW h, History(h), Lags(h)
    PROVE  /\ e \in BrokerEvent /\ e.intent \in Intents
           /\ Head(queue) = cursor + 1 /\ cursor + 1 \in 1 .. Len(brokerEvents)
           /\ Leads(h[cursor], e, h[cursor + 1])
           /\ e.type = "FILL" => e.fill \notin DOMAIN fills
           /\ OrderOf(e.intent) \in Order
           /\ \/ e.intent \in interrupted
              \/ /\ e.type = "ORDER_ACKNOWLEDGED"
                 /\ OrderOf(e.intent) = h[cursor + 1][e.intent]
              \/ /\ OrderOf(e.intent) = h[cursor][e.intent]
                 /\ Records(OrderOf(e.intent), e, h[cursor + 1][e.intent])
<1>1. /\ e \in BrokerEvent /\ e.intent \in Intents /\ Head(queue) \in 1 .. Len(brokerEvents)
  BY NextEvent DEF BrokerEvent
<1>2. Head(queue) = cursor + 1 /\ cursor \in 0 .. Len(brokerEvents) /\ Len(brokerEvents) \in Nat
  <2>1. queue # <<>> /\ queue \in Seq(DOMAIN brokerEvents) /\ Len(brokerEvents) \in Nat
    BY DEF Types, TypeOK
  <2>2. Head(queue) = queue[1] /\ 1 \in 1 .. Len(queue)
    BY <2>1
  <2>3. cursor \in Nat /\ \A n \in 1 .. Len(queue) : queue[n] = cursor + n
    BY DEF Follows, Pending, Types, TypeOK
  <2>4. queue[1] = cursor + 1
    BY <2>2, <2>3
  <2>. QED
    BY <2>1, <2>2, <2>4 DEF Follows, Pending
<1>3. cursor + 1 \in 1 .. Len(brokerEvents) /\ cursor = (cursor + 1) - 1
  BY <1>1, <1>2
<1>4. Leads(h[cursor], e, h[cursor + 1])
  BY <1>2, <1>3 DEF History
<1>5. e.type = "FILL" => e.fill \notin DOMAIN fills
  <2>. SUFFICES ASSUME e.type = "FILL", e.fill \in DOMAIN fills PROVE FALSE
    OBVIOUS
  <2>1. IsFill(cursor + 1) /\ brokerEvents[cursor + 1].fill = e.fill
    BY <1>2, <1>3 DEF IsFill
  <2>2. PICK n : IsFill(n) /\ n <= cursor /\ brokerEvents[n].fill = e.fill
    BY DEF Follows, Identifiers
  <2>3. n = cursor + 1
    BY <2>1, <2>2 DEF Follows, Identifiers
  <2>. QED
    BY <1>2, <2>2, <2>3
<1>6. PICK i \in Intents : i = e.intent
  BY <1>1
<1>7. NoOrder \notin Order
  BY DEF NoOrder, Order, OrderStatus
<1>8. h[cursor + 1][i] \in Order /\ brokerOrders[i] # NoOrder
  BY <1>3, <1>4, <1>6, <1>7 DEF Leads, History
<1>9. i \notin interrupted =>
        OrderOf(i) = IF h[cursor][i] # NoOrder THEN h[cursor][i] ELSE OnTheWay(i, "ACKNOWLEDGED")
  <2>1. pc \notin AfterAnswer
    BY DEF AfterAnswer
  <2>. QED
    BY <1>8, <2>1 DEF Lags
<1>10. CASE i \in interrupted
  <2>1. OrderOf(i) \in Order
    BY <1>10, CutOffIsIdle DEF Follows, Interruptions
  <2>. QED
    BY <1>1, <1>2, <1>3, <1>4, <1>5, <1>6, <1>10, <2>1
<1>11. CASE e.type = "ORDER_ACKNOWLEDGED" /\ h[cursor][i] = NoOrder
            /\ h[cursor + 1][i] = OnTheWay(i, "ACKNOWLEDGED")
  BY <1>1, <1>2, <1>3, <1>4, <1>5, <1>6, <1>8, <1>9, <1>11, <1>10
<1>12. CASE h[cursor][i] \in Order /\ Records(h[cursor][i], e, h[cursor + 1][i])
  BY <1>1, <1>2, <1>3, <1>4, <1>5, <1>6, <1>7, <1>9, <1>12, <1>10
<1>. QED
  BY <1>4, <1>6, <1>11, <1>12 DEF Leads

LEMMA FollowsApplies ==
    ASSUME Types, Follows, SyncApplies
    PROVE  Follows'
<1>1. PICK h : History(h) /\ Lags(h)
  BY DEF Follows
<1>2. PICK e : e = brokerEvents[Head(queue)]
  OBVIOUS
<1>3. PICK o : o = SyncOrder
  OBVIOUS
<1>4. /\ pc = "apply" /\ o \notin {NoOrder, Unreadable}
      /\ Append_(e.intent, Effect(o, e)) /\ fills' = FillsAfter(e) /\ cursor' = Head(queue)
      /\ queue' = Tail(queue) /\ pc' = IF queue' = <<>> THEN "idle" ELSE "apply"
      /\ syncRead' = NoOrder /\ target' = target /\ call' = call
      /\ brokerOrders' = brokerOrders /\ brokerEvents' = brokerEvents
      /\ brokerFills' = brokerFills /\ interrupted' = interrupted /\ Accepts(o, e)
  BY <1>2, <1>3 DEF SyncApplies, brokerVars, operatorVars, faultVars
<1>5. /\ e \in BrokerEvent /\ e.intent \in Intents
      /\ Head(queue) = cursor + 1 /\ cursor + 1 \in 1 .. Len(brokerEvents)
      /\ Leads(h[cursor], e, h[cursor + 1])
      /\ e.type = "FILL" => e.fill \notin DOMAIN fills
      /\ OrderOf(e.intent) \in Order
      /\ \/ e.intent \in interrupted
         \/ /\ e.type = "ORDER_ACKNOWLEDGED"
            /\ OrderOf(e.intent) = h[cursor + 1][e.intent]
         \/ /\ OrderOf(e.intent) = h[cursor][e.intent]
            /\ Records(OrderOf(e.intent), e, h[cursor + 1][e.intent])
  BY <1>1, <1>2, <1>4, NextIsNext
<1>6. PICK i \in Intents : i = e.intent
  BY <1>5
<1>7. o = OrderOf(i)
  BY <1>2, <1>3, <1>4, <1>6 DEF SyncOrder, EventIntent, Follows, Pending
<1>8. LogsTyped /\ log[i] # <<>> /\ NoOrder \notin Order
  BY <1>5, <1>6 DEF Types, TypeOK, LogsTyped, OrderOf, NoOrder, Order, OrderStatus
\* A cut off order takes only an acknowledgement or a cancellation, and these
\* leave a receipt.
<1>9. i \in interrupted => log' = log
  <2>. SUFFICES ASSUME i \in interrupted PROVE log' = log
    OBVIOUS
  <2>1. ~Working(o)
    BY <1>7, CutOffIsIdle DEF Follows, Interruptions
  <2>2. e.type \notin {"FILL", "ORDER_REPLACED"}
    BY <1>4, <1>5, <2>1 DEF Accepts, CanFill, CanAmend
  <2>3. e.type \in {"ORDER_ACKNOWLEDGED", "ORDER_CANCELLED"}
    BY <1>5, <2>2 DEF BrokerEvent
  <2>. QED
    BY <1>4, <1>5, <1>6, <1>8, <2>1, <2>3, EffectOnOrder
\* Any other order becomes what the adapter made of it.
<1>10. i \notin interrupted => OrderOf(i)' = h[cursor + 1][i]
  <2>. SUFFICES ASSUME i \notin interrupted PROVE OrderOf(i)' = h[cursor + 1][i]
    OBVIOUS
  <2>1. /\ e.type = "FILL" /\ e.fill \notin DOMAIN fills =>
                OrderOf(i)' = ReplayEvent(OrderOf(i), FillIngested(e.quantity))
        /\ e.type = "ORDER_CANCELLED" /\ Working(o) =>
                OrderOf(i)' =
                    ReplayEvent(ReplayEvent(OrderOf(i), StatusChanged("CANCEL_PENDING")),
                                StatusChanged("CANCELLED"))
        /\ e.type = "ORDER_REPLACED" =>
                OrderOf(i)' = ReplayEvent(OrderOf(i), Amended(e.quantity))
        /\ e.type = "ORDER_ACKNOWLEDGED" => log' = log
    BY <1>4, <1>5, <1>6, <1>8, EffectOnOrder
  <2>2. CASE e.type = "ORDER_ACKNOWLEDGED"
    <3>1. OrderOf(i) = h[cursor + 1][i]
      BY <1>5, <1>6, <2>2 DEF Records
    <3>2. OrderOf(i)' = OrderOf(i)
      BY <2>1, <2>2 DEF OrderOf
    <3>. QED
      BY <3>1, <3>2
  <2>3. CASE e.type = "ORDER_CANCELLED"
    <3>1. Working(OrderOf(i)) /\ h[cursor + 1][i] = Move(OrderOf(i), "CANCELLED")
      BY <1>5, <1>6, <2>3 DEF Records
    <3>2. OrderOf(i)' = ReplayEvent(ReplayEvent(OrderOf(i), StatusChanged("CANCEL_PENDING")),
                                    StatusChanged("CANCELLED"))
      BY <1>7, <2>1, <2>3, <3>1
    <3>. QED
      BY <1>5, <1>6, <3>1, <3>2, Turns
  <2>4. CASE e.type = "ORDER_REPLACED"
    <3>1. h[cursor + 1][i] = Amend(OrderOf(i), e.quantity)
      BY <1>5, <1>6, <2>4 DEF Records
    <3>2. e.quantity \in Nat
      BY <1>5, <2>4, SyncAssumption DEF BrokerEvent
    <3>. QED
      BY <1>5, <1>6, <2>1, <2>4, <3>1, <3>2, Turns
  <2>5. CASE e.type = "FILL"
    <3>1. CanFill(OrderOf(i), e.quantity) /\ h[cursor + 1][i] = Fill(OrderOf(i), e.quantity)
      BY <1>5, <1>6, <2>5 DEF Records
    <3>2. e.quantity \in Nat
      <4>1. e.quantity \in Amounts
        BY <1>5, <2>5 DEF BrokerEvent
      <4>. QED
        BY <4>1, SyncAssumption
    <3>. QED
      BY <1>5, <1>6, <2>1, <2>5, <3>1, <3>2, Turns
  <2>. QED
    BY <1>5, <2>2, <2>3, <2>4, <2>5 DEF BrokerEvent
<1>11. \A j \in Intents : j # i => OrderOf(j)' = OrderOf(j)
  <2>1. Effect(o, e) \in Seq(LogRow)
    BY <1>5, EffectType
  <2>. QED
    BY <1>4, <1>6, <1>8, <2>1, AppendRows
<1>12. Identifiers'
  <2>1. \A n : IsFill(n)' <=> IsFill(n)
    BY <1>4 DEF IsFill
  <2>2. cursor \in Nat
    BY DEF Types, TypeOK
  <2>3. \A f \in DOMAIN fills' : f \in DOMAIN fills \/ (e.type = "FILL" /\ f = e.fill)
    BY <1>4 DEF FillsAfter
  <2>4. ASSUME NEW f \in DOMAIN fills'
        PROVE  \E n : IsFill(n) /\ n <= cursor + 1 /\ brokerEvents[n].fill = f
    <3>1. CASE f \in DOMAIN fills
      <4>1. PICK n : IsFill(n) /\ n <= cursor /\ brokerEvents[n].fill = f
        BY <3>1 DEF Follows, Identifiers
      <4>2. n \in Nat
        BY <4>1 DEF IsFill, Types, TypeOK
      <4>. QED
        BY <2>2, <4>1, <4>2
    <3>2. CASE e.type = "FILL" /\ f = e.fill
      <4>1. IsFill(cursor + 1) /\ brokerEvents[cursor + 1].fill = f /\ cursor + 1 <= cursor + 1
        BY <1>2, <1>5, <2>2, <3>2 DEF IsFill
      <4>. QED
        BY <4>1
    <3>. QED
      BY <2>3, <3>1, <3>2
  <2>. QED
    BY <1>4, <1>5, <2>1, <2>4 DEF Follows, Identifiers
<1>13. Pending'
  <2>1. queue \in Seq(DOMAIN brokerEvents) /\ queue # <<>> /\ cursor \in Nat
        /\ \A n \in 1 .. Len(queue) : queue[n] = cursor + n
    BY <1>4 DEF Types, TypeOK, Follows, Pending
  <2>2. \A n \in 1 .. Len(Tail(queue)) : n + 1 \in 1 .. Len(queue) /\ Tail(queue)[n] = queue[n + 1]
    BY <2>1
  <2>3. \A n \in 1 .. Len(Tail(queue)) : n \in Nat
    BY <2>1
  <2>4. \A n \in 1 .. Len(Tail(queue)) : Tail(queue)[n] = (cursor + 1) + n
    BY <2>1, <2>2, <2>3
  <2>5. cursor + 1 \in 0 .. Len(brokerEvents)
    BY <1>5, <2>1
  <2>. QED
    BY <1>4, <1>5, <2>4, <2>5 DEF Pending
<1>14. History(h)'
  BY <1>1, <1>4 DEF History
<1>15. Lags(h)'
  <2>1. /\ pc \notin AfterAnswer /\ pc' \notin BeforeAnswer \cup AfterAnswer
    BY <1>4 DEF BeforeAnswer, AfterAnswer
  <2>2. cursor' = cursor + 1
    BY <1>4, <1>5
  <2>3. h[cursor + 1][i] # NoOrder /\ \A j \in Intents : j # i => h[cursor + 1][j] = h[cursor][j]
    BY <1>5, <1>6, <1>8 DEF Leads
  <2>. QED
    BY <1>1, <1>4, <1>10, <1>11, <2>1, <2>2, <2>3 DEF Lags
<1>16. Interruptions'
  <2>1. pc' \notin BeforeAnswer \cup AfterAnswer /\ interrupted \subseteq Intents
    BY <1>4 DEF BeforeAnswer, AfterAnswer, Types, TypeOK
  <2>2. \A j \in interrupted : OrderOf(j)' = OrderOf(j)
    <3>1. i \in interrupted => OrderOf(i)' = OrderOf(i)
      BY <1>9 DEF OrderOf
    <3>. QED
      BY <1>11, <2>1, <3>1
  <2>3. Effect(o, e) \in Seq(LogRow)
    BY <1>5, EffectType
  <2>4. log'[i] = <<Created>> => log[i] = <<Created>>
    BY <1>4, <1>6, <1>8, <2>3, NotLonger
  <2>5. \A j \in Intents : j # i => log'[j] = log[j]
    BY <1>4, <1>6, <1>8 DEF Append_, LogsTyped
  <2>. QED
    BY <1>4, <2>1, <2>2, <2>4, <2>5 DEF Follows, Interruptions
<1>. QED
  BY <1>4, <1>12, <1>13, <1>14, <1>15, <1>16 DEF Follows

LEMMA FollowsSync ==
    ASSUME Types, Follows, BrokerRefuses \/ CallSync \/ ReadEvents \/ SyncReads \/ SyncFails
    PROVE  Follows'
<1>1. UNCHANGED <<omsVars, brokerVars, call, interrupted>> /\ target' = target
  BY DEF BrokerRefuses, CallSync, ReadEvents, SyncReads, SyncFails, operatorVars, faultVars
<1>2. /\ pc = "apply" => \A n \in 1 .. Len(queue) : queue[n] = cursor + n
      /\ syncRead # NoOrder => pc = "apply" /\ syncRead = OrderOf(EventIntent)
  BY DEF Follows, Pending
<1>3. "approved" \notin AfterAnswer /\ {"idle", "sync", "apply"} \cap (BeforeAnswer \cup AfterAnswer) = {}
  BY DEF BeforeAnswer, AfterAnswer
<1>4. CASE BrokerRefuses
  <2>1. pc = "approved" /\ pc' = "refused" /\ syncRead' = syncRead
    BY <1>4 DEF BrokerRefuses
  <2>2. syncRead' = NoOrder
    BY <1>2, <2>1
  <2>. QED
    BY <1>1, <2>1, <2>2, FollowsQuiet
<1>5. CASE CallSync
  <2>1. pc = "idle" /\ pc' = "sync" /\ syncRead' = syncRead
    BY <1>5 DEF CallSync
  <2>2. syncRead' = NoOrder
    BY <1>2, <2>1
  <2>. QED
    BY <1>1, <1>3, <2>1, <2>2, FollowsQuiet
<1>6. CASE ReadEvents
  <2>1. /\ pc = "sync" /\ pc' \in {"idle", "apply"} /\ syncRead' = syncRead
        /\ queue' = [n \in 1 .. Len(brokerEvents) - cursor |-> cursor + n]
    BY <1>6 DEF ReadEvents
  <2>2. syncRead' = NoOrder
    BY <1>2, <2>1
  <2>3. cursor \in 0 .. Len(brokerEvents) /\ Len(brokerEvents) \in Nat
    BY DEF Follows, Pending, Types, TypeOK
  <2>4. Len(queue') = Len(brokerEvents) - cursor
    BY <2>1, <2>3
  <2>5. \A n \in 1 .. Len(queue') : queue'[n] = cursor + n
    BY <2>1, <2>4
  <2>. QED
    BY <1>1, <1>3, <2>1, <2>2, <2>5, FollowsQuiet
<1>7. CASE SyncReads
  <2>1. pc = "apply" /\ pc' = "apply" /\ queue' = queue /\ syncRead' = OrderOf(EventIntent)
    BY <1>7 DEF SyncReads
  <2>. QED
    BY <1>1, <1>2, <2>1, FollowsQuiet
<1>8. CASE SyncFails
  <2>1. pc = "apply" /\ pc' = "idle" /\ syncRead' = NoOrder
    BY <1>8 DEF SyncFails
  <2>. QED
    BY <1>1, <1>3, <2>1, FollowsQuiet DEF AfterAnswer
<1>. QED
  BY <1>4, <1>5, <1>6, <1>7, <1>8

\* A failed transaction cuts off the order that is being submitted, if any.
LEMMA FollowsFails ==
    ASSUME Types, Follows, ServiceCallFails
    PROVE  Follows'
<1>1. /\ pc' = "idle" /\ queue' = <<>> /\ syncRead' = NoOrder /\ target' = target
      /\ interrupted' = interrupted \cup {i \in Intents : Submitting(i)}
      /\ log' = log /\ fills' = fills /\ cursor' = cursor /\ call' = call
      /\ brokerOrders' = brokerOrders /\ brokerEvents' = brokerEvents
      /\ brokerFills' = brokerFills
  BY DEF ServiceCallFails, InterruptSubmission, omsVars, brokerVars, operatorVars
<1>2. Identifiers'
  BY <1>1 DEF Follows, Identifiers, IsFill
<1>3. \A j : OrderOf(j)' = OrderOf(j)
  BY <1>1 DEF OrderOf
<1>4. Pending'
  BY <1>1 DEF Follows, Pending
<1>5. PICK h : History(h) /\ Lags(h)
  BY DEF Follows
<1>6. History(h)'
  BY <1>1, <1>5 DEF History
<1>7. /\ pc' \notin BeforeAnswer \cup AfterAnswer
      /\ pc \in {"idle", "sync", "apply"} \cup BeforeAnswer \cup AfterAnswer
      /\ "idle" \notin AfterAnswer /\ "sync" \notin AfterAnswer /\ "apply" \notin AfterAnswer
  BY <1>1 DEF Types, TypeOK, ServicePc, BeforeAnswer, AfterAnswer
<1>8. \A i \in Intents : target = i /\ pc \in AfterAnswer => i \in interrupted'
  BY <1>1, <1>7 DEF Submitting
<1>9. Lags(h)'
  <2>1. ASSUME NEW i \in Intents, brokerOrders[i] # NoOrder, i \notin interrupted'
        PROVE  OrderOf(i) = IF h[cursor][i] # NoOrder THEN h[cursor][i]
                            ELSE OnTheWay(i, "ACKNOWLEDGED")
    BY <1>1, <1>5, <1>8, <2>1 DEF Lags
  <2>. QED
    BY <1>1, <1>3, <1>7, <2>1 DEF Lags
<1>10. Interruptions'
  <2>1. ASSUME NEW i \in Intents, Submitting(i)
        PROVE  \E s \in Unsettled : OrderOf(i) = OnTheWay(i, s)
    <3>1. target = i /\ pc \in BeforeAnswer \cup AfterAnswer
      BY <1>7, <2>1 DEF Submitting
    <3>2. OrderOf(target) = OnTheWay(target, StatusAt(pc))
      BY <1>5, <3>1 DEF Lags
    <3>. QED
      BY <3>1, <3>2, StatusesAt
  <2>2. ASSUME NEW i \in interrupted'
        PROVE  \E s \in Unsettled : OrderOf(i) = OnTheWay(i, s)
    BY <1>1, <2>1, <2>2 DEF Follows, Interruptions
  <2>. QED
    BY <1>1, <1>3, <1>7, <2>2 DEF Follows, Interruptions
<1>. QED
  BY <1>1, <1>2, <1>4, <1>6, <1>9, <1>10 DEF Follows

\* A retry takes up an order that the adapter has never seen.
LEMMA FollowsTakesUp ==
    ASSUME Types, Follows, NEW i \in Intents, SubmitTakesUp(i)
    PROVE  Follows'
<1>1. /\ pc = "idle" /\ pc' = "created" /\ target' = i /\ log[i] = <<Created>>
      /\ interrupted' = interrupted \ {i} /\ syncRead' = syncRead
      /\ log' = log /\ fills' = fills /\ cursor' = cursor /\ call' = call
      /\ brokerOrders' = brokerOrders /\ brokerEvents' = brokerEvents
      /\ brokerFills' = brokerFills
  BY DEF SubmitTakesUp, omsVars, brokerVars, operatorVars
<1>2. Identifiers'
  BY <1>1 DEF Follows, Identifiers, IsFill
<1>3. /\ \A j : OrderOf(j)' = OrderOf(j)
      /\ OrderOf(target)' = OrderOf(i)
  BY <1>1 DEF OrderOf
<1>4. Pending'
  BY <1>1 DEF Follows, Pending
<1>5. PICK h : History(h) /\ Lags(h)
  BY DEF Follows
<1>6. History(h)'
  BY <1>1, <1>5 DEF History
<1>7. brokerOrders[i] = NoOrder /\ OrderOf(i) = OnTheWay(i, "PROPOSED")
  BY <1>1, CreatedIsProposed DEF Follows, Interruptions
<1>8. /\ pc \notin AfterAnswer /\ pc' \in BeforeAnswer /\ pc' \notin AfterAnswer
      /\ StatusAt(pc') = "PROPOSED"
  BY <1>1, StatusesAt DEF BeforeAnswer, AfterAnswer
<1>9. Lags(h)'
  BY <1>1, <1>3, <1>5, <1>7, <1>8 DEF Lags
<1>10. Interruptions'
  BY <1>1, <1>3, <1>8 DEF Follows, Interruptions
<1>. QED
  BY <1>1, <1>2, <1>4, <1>6, <1>9, <1>10 DEF Follows

\* The service and the adapter, left alone.
Mirror == Types /\ (Alone => Follows)

LEMMA MirrorStep ==
    ASSUME Mirror, [Next]_vars
    PROVE  Mirror'
<1>1. Types /\ Types'
  BY TypesStep DEF Mirror
<1>. SUFFICES ASSUME Alone' PROVE Follows'
  BY <1>1 DEF Mirror
<1>2. operatorCalls \in Nat /\ crashes \in Nat
  BY <1>1 DEF Types, TypeOK
<1>3. ~Crash /\ \A op \in OperatorCalls, i \in Intents, quantity \in Amounts :
                    ~OperatorCallsOms(op, i, quantity)
  BY <1>2 DEF Crash, OperatorCallsOms, Alone
<1>4. Alone
  <2>1. ASSUME NEW i \in Intents, SubmitCreates(i) \/ SubmitTakesUp(i)
        PROVE  Alone
    BY <2>1 DEF SubmitCreates, SubmitTakesUp, operatorVars, faultVars, Alone
  <2>2. ASSUME CallSync \/ ServiceStep
        PROVE  Alone
    BY <2>2 DEF CallSync, ServiceStep, MarkRiskPending, MarkDecision, MarkRefused, MarkAccepted,
       Advance, BrokerAccepts, BrokerRefuses, ReadEvents, SyncReads, SyncApplies, SyncFails,
       operatorVars, faultVars, Alone
  <2>3. ASSUME OperatorReads \/ OperatorCancels \/ OperatorAmends \/ OperatorFails
        PROVE  Alone
    BY <2>3 DEF OperatorReads, OperatorCancels, OperatorAmends, OperatorFails, faultVars, Alone
  <2>4. ASSUME ServiceCallFails \/ OperatorCallFails
        PROVE  Alone
    BY <2>4 DEF ServiceCallFails, OperatorCallFails, operatorVars, Alone
  <2>5. ASSUME Broker
        PROVE  Alone
    BY <1>1, <2>5, BrokerStep DEF operatorVars, faultVars, Alone
  <2>6. ASSUME UNCHANGED vars
        PROVE  Alone
    BY <2>6 DEF vars, operatorVars, faultVars, Alone
  <2>. QED
    BY <1>3, <2>1, <2>2, <2>3, <2>4, <2>5, <2>6 DEF Next, Service, Operator
<1>5. Follows
  BY <1>4 DEF Mirror
<1>6. ~Operator /\ ~OperatorCallFails
  BY <1>3, <1>5 DEF Follows, Operator, OperatorReads, OperatorCancels, OperatorAmends, OperatorFails,
     OperatorCallFails
<1>7. CASE UNCHANGED vars
  <2>1. /\ UNCHANGED <<omsVars, brokerVars, call, interrupted>> /\ target' = target
        /\ pc' = pc /\ queue' = queue /\ syncRead' = syncRead
    BY <1>7 DEF vars, serviceVars, operatorVars, faultVars
  <2>. QED
    BY <1>1, <1>5, <2>1, FollowsQuiet DEF Follows, Pending
<1>8. CASE Broker
  BY <1>1, <1>5, <1>8, FollowsBroker
<1>9. CASE Service
  BY <1>1, <1>5, <1>9, FollowsCreate, FollowsTakesUp, FollowsSubmission, FollowsAccept, FollowsSync,
     FollowsApplies
  DEF Service, ServiceStep
<1>10. CASE ServiceCallFails
  BY <1>1, <1>5, <1>10, FollowsFails
<1>. QED
  BY <1>3, <1>6, <1>7, <1>8, <1>9, <1>10 DEF Next

LEMMA MirrorInit == Init => Mirror
<1>. SUFFICES ASSUME Init PROVE Mirror
  OBVIOUS
<1>1. Types
  BY TypesInit
<1>2. /\ brokerOrders = NoOrders /\ brokerEvents = <<>> /\ brokerFills = {} /\ pc = "idle"
      /\ fills = [f \in {} |-> NoOrder] /\ cursor = 0 /\ syncRead = NoOrder /\ call = NoCall
      /\ interrupted = {}
  BY DEF Init
<1>3. Len(brokerEvents) = 0
  BY <1>2
<1>. DEFINE h == [n \in 0 .. 0 |-> NoOrders]
<1>4. h \in [0 .. 0 -> [Intents -> Order \cup {NoOrder}]] /\ h[0] = NoOrders
  BY DEF NoOrders
<1>5. 1 .. 0 = {} /\ 0 .. 0 = {0}
  OBVIOUS
<1>6. \A n : ~IsFill(n)
  BY <1>3, <1>5 DEF IsFill
<1>7. Identifiers
  BY <1>2, <1>6 DEF Identifiers
<1>8. Pending
  BY <1>2, <1>3 DEF Pending
<1>. HIDE DEF h
<1>9. History(h)
  BY <1>2, <1>3, <1>4, <1>5 DEF History, NoOrders
<1>10. Lags(h)
  <2>1. \A i \in Intents : brokerOrders[i] = NoOrder
    BY <1>2 DEF NoOrders
  <2>2. pc \notin BeforeAnswer /\ pc \notin AfterAnswer
    BY <1>2 DEF BeforeAnswer, AfterAnswer
  <2>. QED
    BY <2>1, <2>2 DEF Lags
<1>11. Interruptions
  BY <1>2 DEF Interruptions, NoOrders, BeforeAnswer, AfterAnswer
<1>. QED
  BY <1>1, <1>2, <1>7, <1>8, <1>9, <1>10, <1>11 DEF Mirror, Follows

(* Left alone by operators and crashes, sync_events meets an event that it *)
(* must refuse only when a failed transition (postgres_oms_transition_     *)
(* failed) cut the submission of that order off: however many transactions *)
(* fail, every other order lags behind the broker and does not diverge     *)
(* (_submit_checked_assessment, apply_broker_event).                       *)
THEOREM NothingIsRefused == Spec => []SyncNeverRefused
<1>1. Mirror => SyncNeverRefused
  <2>. SUFFICES ASSUME Mirror, Alone, pc = "apply"
                PROVE  /\ Readable(EventIntent)
                       /\ \/ Accepts(OrderOf(EventIntent), brokerEvents[Head(queue)])
                          \/ EventIntent \in interrupted
    BY DEF SyncNeverRefused, Alone
  <2>1. PICK h : History(h) /\ Lags(h)
    BY DEF Mirror, Follows
  <2>2. PICK e : e = brokerEvents[Head(queue)]
    OBVIOUS
  <2>3. /\ e \in BrokerEvent
        /\ e.type = "FILL" => e.fill \notin DOMAIN fills
        /\ OrderOf(e.intent) \in Order
        /\ \/ e.intent \in interrupted
           \/ e.type = "ORDER_ACKNOWLEDGED"
           \/ Records(OrderOf(e.intent), e, h[cursor + 1][e.intent])
    BY <2>1, <2>2, NextIsNext DEF Mirror
  <2>4. Readable(e.intent)
    BY <2>3 DEF Readable, NoOrder, Unreadable, Order, OrderStatus
  <2>5. Accepts(OrderOf(e.intent), e) \/ e.intent \in interrupted
    BY <2>3 DEF Accepts, Records
  <2>. QED
    BY <2>2, <2>4, <2>5 DEF EventIntent
<1>. QED
  BY <1>1, MirrorInit, MirrorStep, PTL DEF Spec

(* Left alone by operators and crashes, the OMS holds the broker's order   *)
(* once it has applied the broker's last event, save the orders that a     *)
(* failed transition cut off: these stand still, with nothing filled       *)
(* (sync_events, _submit_checked_assessment).                              *)
THEOREM BrokerIsMirrored == Spec => []MirrorsBroker
<1>1. Mirror => MirrorsBroker
  <2>. SUFFICES ASSUME Mirror, Alone, pc = "idle", cursor = Len(brokerEvents),
                       NEW i \in Intents, brokerOrders[i] # NoOrder
                PROVE  \/ OrderOf(i) = brokerOrders[i]
                       \/ /\ i \in interrupted
                          /\ OrderOf(i).status \in Unsettled
                          /\ OrderOf(i).filled = 0
    BY DEF MirrorsBroker, Alone
  <2>1. PICK h : History(h) /\ Lags(h)
    BY DEF Mirror, Follows
  <2>2. h[cursor][i] = brokerOrders[i]
    BY <2>1 DEF History
  <2>3. CASE i \in interrupted
    <3>1. PICK s \in Unsettled : OrderOf(i) = OnTheWay(i, s)
      BY <2>3 DEF Mirror, Follows, Interruptions
    <3>. QED
      BY <2>3, <3>1 DEF OnTheWay
  <2>4. CASE i \notin interrupted
    BY <2>1, <2>2, <2>4 DEF Lags, AfterAnswer
  <2>. QED
    BY <2>3, <2>4
<1>. QED
  BY <1>1, MirrorInit, MirrorStep, PTL DEF Spec

--------------------------------------------------------------------------------
(***************************************************************************)
(* One connection: what the ledger promises holds of the log               *)
(***************************************************************************)

LedgerFacts == INSTANCE PaperLedgerProofs WITH
    book <- [i \in Intents |-> OrderOf(i)],
    Sequences <- 1 .. MaxBrokerEvents

LEMMA SameLedger ==
    /\ Ledger!Init <=> LedgerFacts!Init
    /\ [Ledger!Next]_(Ledger!ledgerVars) <=> [LedgerFacts!Next]_(LedgerFacts!ledgerVars)
<1>1. Ledger!Init <=> LedgerFacts!Init
  BY DEF Ledger!Init, LedgerFacts!Init, Ledger!NoOrder, LedgerFacts!NoOrder
<1>2. [Ledger!Next]_(Ledger!ledgerVars) <=> [LedgerFacts!Next]_(LedgerFacts!ledgerVars)
  BY Zenon DEF Ledger!Next, LedgerFacts!Next, Ledger!ledgerVars, LedgerFacts!ledgerVars,
     Ledger!OmsCall, LedgerFacts!OmsCall, Ledger!ApplyBrokerEvent, LedgerFacts!ApplyBrokerEvent,
     Ledger!Create, LedgerFacts!Create, Ledger!Transition, LedgerFacts!Transition,
     Ledger!AmendOrder, LedgerFacts!AmendOrder, Ledger!CancelOrder, LedgerFacts!CancelOrder,
     Ledger!IngestFill, LedgerFacts!IngestFill, Ledger!Receive, LedgerFacts!Receive,
     Ledger!SetOrder, LedgerFacts!SetOrder, Ledger!WithFill, LedgerFacts!WithFill,
     Ledger!Exists, LedgerFacts!Exists, Ledger!NoOrder, LedgerFacts!NoOrder,
     Ledger!NewOrder, LedgerFacts!NewOrder, Ledger!Successors, LedgerFacts!Successors,
     Ledger!OrderStatus, LedgerFacts!OrderStatus, Ledger!CanMove, LedgerFacts!CanMove,
     Ledger!Transitions, LedgerFacts!Transitions, Ledger!Move, LedgerFacts!Move,
     Ledger!CanAmend, LedgerFacts!CanAmend, Ledger!Working, LedgerFacts!Working,
     Ledger!Amend, LedgerFacts!Amend, Ledger!CanFill, LedgerFacts!CanFill,
     Ledger!Fill, LedgerFacts!Fill
<1>. QED
  BY <1>1, <1>2

(* When operators use the service's connection, no order that is replayed  *)
(* from its log is ever filled beyond its quantity, replacements and       *)
(* amendments between the fills included.                                  *)
THEOREM NoOrderOverfilled == ASSUME SharedConnection PROVE Spec => []Ledger!NeverOverfilled
<1>1. LedgerFacts!LedgerAssumption
  BY SyncAssumption DEF LedgerFacts!LedgerAssumption
<1>2. LedgerFacts!Spec => []LedgerFacts!NeverOverfilled
  BY <1>1, LedgerFacts!OrdersNeverOverfilled
<1>3. LedgerFacts!NeverOverfilled => Ledger!NeverOverfilled
  BY DEF LedgerFacts!NeverOverfilled, Ledger!NeverOverfilled
<1>4. Spec => Ledger!Spec
  BY LogImplementsLedger DEF ImplementsLedger
<1>. QED
  BY <1>2, <1>3, <1>4, SameLedger, PTL DEF Ledger!Spec, LedgerFacts!Spec

(* When operators use the service's connection, an order that replays to a *)
(* terminal status replays to the same order ever after: no event, crash   *)
(* or later call moves it.                                                 *)
THEOREM TerminalOrdersStay == ASSUME SharedConnection PROVE Spec => Ledger!TerminalIsFinal
<1>1. LedgerFacts!LedgerAssumption
  BY SyncAssumption DEF LedgerFacts!LedgerAssumption
<1>2. LedgerFacts!Spec => LedgerFacts!TerminalIsFinal
  BY <1>1, LedgerFacts!TerminalOrdersAreFinal
<1>3. [LedgerFacts!TerminalStays]_(LedgerFacts!ledgerVars) => [Ledger!TerminalStays]_(Ledger!ledgerVars)
  BY DEF LedgerFacts!TerminalStays, Ledger!TerminalStays, LedgerFacts!Terminal, Ledger!Terminal,
         LedgerFacts!ledgerVars, Ledger!ledgerVars
<1>4. Spec => Ledger!Spec
  BY LogImplementsLedger DEF ImplementsLedger
<1>. QED
  BY <1>2, <1>3, <1>4, SameLedger, PTL
  DEF Ledger!Spec, LedgerFacts!Spec, Ledger!TerminalIsFinal, LedgerFacts!TerminalIsFinal
================================================================================
