------------------------------ MODULE BrokerSync ------------------------------
(***************************************************************************)
(* The event-sourced paper OMS (postgres_paper_oms.PostgresPaperOms), the  *)
(* in-memory sandbox broker (broker_adapter.SandboxPaperBrokerAdapter) and *)
(* the service between them (broker_sync.PaperBrokerSyncService).          *)
(*                                                                         *)
(* The OMS keeps no current order: every operation replays the intent's    *)
(* event log.  A service step is one OMS transaction or one adapter call;  *)
(* between two of them the broker may fill, cancel or replace, an operator *)
(* may use the OMS directly, a transaction may fail while process and      *)
(* adapter live on, and the process may crash, which also loses the        *)
(* adapter's memory.                                                       *)
(***************************************************************************)
EXTENDS Integers, Sequences, SequencesExt, FiniteSetsExt, PaperOrder

CONSTANTS
    Intents,            \* order intents
    Quantity,           \* the quantity each intent asks for
    Approved,           \* intents whose stored assessment approves them
    Amounts,            \* quantities of fills and replacements
    FillIds,            \* external_fill_id values
    SharedConnection,   \* the operator uses the service's process and connection
    OperatorCalls,      \* OMS methods an operator calls: "cancel", "amend"
    MaxBrokerEvents,    \* bound on the adapter's event list
    MaxOperatorCalls,   \* bound on operator calls
    MaxFaults           \* bound on process crashes and failed transactions

ASSUME SyncAssumption ==
    /\ Quantity \in [Intents -> Nat \ {0}]
    /\ Approved \subseteq Intents
    /\ Amounts \subseteq Nat
    /\ SharedConnection \in BOOLEAN
    /\ OperatorCalls \subseteq {"cancel", "amend"}
    /\ {MaxBrokerEvents, MaxOperatorCalls, MaxFaults} \subseteq Nat

VARIABLES
    log,            \* oms_events of each intent, in event_sequence order
    fills,          \* the fills table, by external_fill_id
    receipts,       \* broker_sync_events: the sequence is also the external_event_id
    cursor,         \* broker_event_cursors
    brokerOrders,   \* adapter._orders
    brokerEvents,   \* adapter._events; an event's sequence is its index
    brokerFills,    \* adapter._fill_ids
    submissions,    \* how often adapter.submit accepted each intent
    pc,             \* where the service is
    target,         \* the intent being submitted
    queue,          \* sequences that sync_events has left to apply
    syncRead,       \* the order read by apply_broker_event's open transaction
    call,           \* the operator's call in progress
    operatorCalls,  \* operator calls so far
    crashes,        \* crashes so far
    failures,       \* failed transactions so far
    interrupted     \* history: intents whose submission an exception or a crash ended

omsVars == <<log, fills, receipts, cursor>>
brokerVars == <<brokerOrders, brokerEvents, brokerFills, submissions>>
serviceVars == <<pc, target, queue, syncRead>>
operatorVars == <<call, operatorCalls>>
faultVars == <<crashes, failures, interrupted>>
vars == <<omsVars, brokerVars, serviceVars, operatorVars, faultVars>>
--------------------------------------------------------------------------------
(***************************************************************************)
(* Replaying the event log                                                 *)
(***************************************************************************)

NoOrder == [quantity |-> 0, filled |-> 0, status |-> "NONE"]

\* What replaying an illegal log gives: the OMS raises on every read.
Unreadable == [quantity |-> 0, filled |-> 0, status |-> "UNREADABLE"]

Created == [kind |-> "ORDER_CREATED"]
StatusChanged(status) == [kind |-> "ORDER_STATUS_CHANGED", to |-> status]
Amended(quantity) == [kind |-> "ORDER_AMENDED", quantity |-> quantity]
FillIngested(quantity) == [kind |-> "FILL_INGESTED", quantity |-> quantity]

\* One turn of the loop in _order.  The replay checks transitions and fills
\* again, an amendment it takes as it is.
ReplayEvent(o, e) ==
    IF o = Unreadable THEN Unreadable
    ELSE CASE e.kind = "ORDER_CREATED" -> o
           [] e.kind = "ORDER_STATUS_CHANGED" ->
                IF CanMove(o, e.to) THEN Move(o, e.to) ELSE Unreadable
           [] e.kind = "ORDER_AMENDED" -> Amend(o, e.quantity)
           [] e.kind = "FILL_INGESTED" ->
                IF CanFill(o, e.quantity) THEN Fill(o, e.quantity) ELSE Unreadable

\* The loop over an intent's rows.
Replay(rows, quantity) ==
    LET turn == [n \in DOMAIN rows |->
                    [o \in Order \cup {Unreadable} |-> ReplayEvent(o, rows[n])]]
        after[n \in 0 .. Len(rows)] ==
            IF n = 0 THEN NewOrder(quantity) ELSE turn[n][after[n - 1]]
    IN  after[Len(rows)]

\* PostgresPaperOms._order
OrderOf(i) == IF log[i] = <<>> THEN NoOrder ELSE Replay(log[i], Quantity[i])

Readable(i) == OrderOf(i) \notin {NoOrder, Unreadable}

Append_(i, events) == log' = [log EXCEPT ![i] = @ \o events]
--------------------------------------------------------------------------------
(***************************************************************************)
(* State                                                                   *)
(***************************************************************************)

LogRow ==
    {Created} \cup [kind: {"ORDER_STATUS_CHANGED"}, to: OrderStatus]
    \cup [kind: {"ORDER_AMENDED", "FILL_INGESTED"}, quantity: Amounts]

FillRow == [intent: Intents, quantity: Amounts]

BrokerEvent ==
    [type: {"ORDER_ACKNOWLEDGED", "ORDER_CANCELLED"}, intent: Intents]
    \cup [type: {"ORDER_REPLACED"}, intent: Intents, quantity: Amounts]
    \cup [type: {"FILL"}, intent: Intents, fill: FillIds, quantity: Amounts]

NoIntent == "none"

NoCall == [op |-> "none"]

Call ==
    [op: OperatorCalls, intent: Intents, quantity: Amounts,
     step: {"first", "second"}, read: Order \cup {NoOrder}]

ServicePc ==
    {"idle", "created", "risk_pending", "approved", "refused", "refused_pending",
     "accepted", "accepted_pending", "accepted_submitted", "sync", "apply"}

TypeOK ==
    /\ log \in [Intents -> Seq(LogRow)]
    /\ \A i \in Intents : OrderOf(i) \in Order \cup {NoOrder, Unreadable}
    /\ DOMAIN fills \subseteq FillIds /\ fills \in [DOMAIN fills -> FillRow]
    /\ receipts \subseteq Nat
    /\ cursor \in Nat
    /\ brokerOrders \in [Intents -> Order \cup {NoOrder}]
    /\ brokerEvents \in Seq(BrokerEvent) /\ Len(brokerEvents) <= MaxBrokerEvents
    /\ brokerFills \subseteq FillIds
    /\ submissions \in [Intents -> Nat]
    /\ pc \in ServicePc
    /\ target \in Intents \cup {NoIntent}
    /\ queue \in Seq(DOMAIN brokerEvents)
    /\ syncRead \in Order \cup {NoOrder}
    /\ call \in Call \cup {NoCall}
    /\ operatorCalls \in 0 .. MaxOperatorCalls
    /\ crashes \in 0 .. MaxFaults
    /\ failures \in 0 .. MaxFaults
    /\ interrupted \subseteq Intents

NoOrders == [i \in Intents |-> NoOrder]

Init ==
    /\ log = [i \in Intents |-> <<>>]
    /\ fills = [f \in {} |-> NoOrder]
    /\ receipts = {}
    /\ cursor = 0
    /\ brokerOrders = NoOrders
    /\ brokerEvents = <<>>
    /\ brokerFills = {}
    /\ submissions = [i \in Intents |-> 0]
    /\ pc = "idle"
    /\ target = NoIntent
    /\ queue = <<>>
    /\ syncRead = NoOrder
    /\ call = NoCall
    /\ operatorCalls = 0
    /\ crashes = 0
    /\ failures = 0
    /\ interrupted = {}
--------------------------------------------------------------------------------
(***************************************************************************)
(* The sandbox broker.  Each accepted operation appends one event.         *)
(***************************************************************************)

BrokerRecords(i, o, event) ==
    /\ Len(brokerEvents) < MaxBrokerEvents
    /\ brokerOrders' = [brokerOrders EXCEPT ![i] = o]
    /\ brokerEvents' = Append(brokerEvents, event)

\* simulate_fill
BrokerFills(i, f, quantity) ==
    /\ f \notin brokerFills
    /\ CanFill(brokerOrders[i], quantity)
    /\ BrokerRecords(i, Fill(brokerOrders[i], quantity),
            [type |-> "FILL", intent |-> i, fill |-> f, quantity |-> quantity])
    /\ brokerFills' = brokerFills \cup {f}
    /\ UNCHANGED <<omsVars, submissions, serviceVars, operatorVars, faultVars>>

\* adapter.cancel
BrokerCancels(i) ==
    /\ CanMove(brokerOrders[i], "CANCEL_PENDING")
    /\ BrokerRecords(i, Move(brokerOrders[i], "CANCELLED"),
            [type |-> "ORDER_CANCELLED", intent |-> i])
    /\ UNCHANGED <<omsVars, brokerFills, submissions, serviceVars, operatorVars, faultVars>>

\* adapter.replace
BrokerReplaces(i, quantity) ==
    /\ CanAmend(brokerOrders[i], quantity)
    /\ BrokerRecords(i, Amend(brokerOrders[i], quantity),
            [type |-> "ORDER_REPLACED", intent |-> i, quantity |-> quantity])
    /\ UNCHANGED <<omsVars, brokerFills, submissions, serviceVars, operatorVars, faultVars>>
--------------------------------------------------------------------------------
(***************************************************************************)
(* submit_after_assessment and _submit_checked_assessment                  *)
(***************************************************************************)

\* Mutant of SubmitCreates: an order left APPROVED is taken up again.
SubmitResumes(i) ==
    /\ pc = "idle"
    /\ \/ /\ log[i] = <<>>
          /\ Append_(i, <<Created>>)
          /\ pc' = "created"
       \/ /\ OrderOf(i).status = "APPROVED"
          /\ pc' = "approved"
          /\ UNCHANGED log
    /\ target' = i
    /\ UNCHANGED <<fills, receipts, cursor, brokerVars, queue, syncRead,
                   operatorVars, faultVars>>

\* An intent that already has an order is handed back as it is (or refused
\* when its payload was amended since): only a new one is taken further.
SubmitCreates(i) ==
    /\ pc = "idle"
    /\ log[i] = <<>>
    /\ Append_(i, <<Created>>)
    /\ pc' = "created"
    /\ target' = i
    /\ UNCHANGED <<fills, receipts, cursor, brokerVars, queue, syncRead,
                   operatorVars, faultVars>>

\* When the oms.get of a retry fails, the exception is taken for "no order": create
\* then hands back the order that is there, and the submission goes on when it is
\* still PROPOSED (no operator can have touched it).
SubmitTakesUp(i) ==
    /\ pc = "idle"
    /\ log[i] = <<Created>>
    /\ pc' = "created"
    /\ target' = i
    /\ interrupted' = interrupted \ {i}
    /\ UNCHANGED <<omsVars, brokerVars, queue, syncRead, operatorVars, crashes, failures>>

\* One oms.transition of the target, in a transaction of its own (that it may
\* fail is ServiceCallFails).  No operator call can touch an order before it is
\* ACKNOWLEDGED, so the order read in the transaction is the order at its commit.
Advance(from, status, to) ==
    /\ pc = from
    /\ CanMove(OrderOf(target), status)
    /\ Append_(target, <<StatusChanged(status)>>)
    /\ pc' = to
    /\ UNCHANGED <<fills, receipts, cursor, brokerVars, target, queue, syncRead,
                   operatorVars, faultVars>>

MarkRiskPending == Advance("created", "RISK_PENDING", "risk_pending")

MarkDecision ==
    IF target \in Approved
    THEN Advance("risk_pending", "APPROVED", "approved")
    ELSE Advance("risk_pending", "RISK_REJECTED", "idle")

\* adapter.submit
BrokerAccepts ==
    /\ pc = "approved"
    /\ brokerOrders[target] = NoOrder
    /\ BrokerRecords(target, Move(OrderOf(target), "ACKNOWLEDGED"),
            [type |-> "ORDER_ACKNOWLEDGED", intent |-> target])
    /\ submissions' = [submissions EXCEPT ![target] = @ + 1]
    /\ pc' = "accepted"
    /\ UNCHANGED <<omsVars, brokerFills, target, queue, syncRead, operatorVars, faultVars>>

\* Mutant of BrokerRefuses: the exception leaves the order where it is.
BrokerRefusesSilently ==
    /\ pc = "approved"
    /\ pc' = "idle"
    /\ UNCHANGED <<omsVars, brokerVars, target, queue, syncRead, operatorVars, faultVars>>

\* adapter.submit raises: an adapter of the protocol may refuse any order.
BrokerRefuses ==
    /\ pc = "approved"
    /\ pc' = "refused"
    /\ UNCHANGED <<omsVars, brokerVars, target, queue, syncRead, operatorVars, faultVars>>

MarkRefused ==
    \/ Advance("refused", "SUBMISSION_PENDING", "refused_pending")
    \/ Advance("refused_pending", "REJECTED", "idle")

MarkAccepted ==
    \/ Advance("accepted", "SUBMISSION_PENDING", "accepted_pending")
    \/ Advance("accepted_pending", "SUBMITTED", "accepted_submitted")
    \/ Advance("accepted_submitted", "ACKNOWLEDGED", "sync")
--------------------------------------------------------------------------------
(***************************************************************************)
(* sync_events                                                             *)
(***************************************************************************)

\* sync_events called on its own rather than at the end of a submission.
CallSync ==
    /\ pc = "idle"
    /\ pc' = "sync"
    /\ UNCHANGED <<omsVars, brokerVars, target, queue, syncRead, operatorVars, faultVars>>

\* Mutant of ReadEvents: one event too many.
ReadEventsTooFar ==
    /\ pc = "sync"
    /\ queue' = [n \in 1 .. Len(brokerEvents) + 1 - cursor |-> cursor + n]
    /\ pc' = IF queue' = <<>> THEN "idle" ELSE "apply"
    /\ UNCHANGED <<omsVars, brokerVars, target, syncRead, operatorVars, faultVars>>

\* Mutant of ReadEvents: the newest event first.
ReadEventsNewestFirst ==
    /\ pc = "sync"
    /\ queue' = [n \in 1 .. Len(brokerEvents) - cursor |-> Len(brokerEvents) + 1 - n]
    /\ pc' = IF queue' = <<>> THEN "idle" ELSE "apply"
    /\ UNCHANGED <<omsVars, brokerVars, target, syncRead, operatorVars, faultVars>>

\* The cursor is read once; the events after it are fixed from here on, none
\* when the cursor of an earlier process is ahead of this adapter.
ReadEvents ==
    /\ pc = "sync"
    /\ queue' = [n \in 1 .. Len(brokerEvents) - cursor |-> cursor + n]
    /\ pc' = IF queue' = <<>> THEN "idle" ELSE "apply"
    /\ UNCHANGED <<omsVars, brokerVars, target, syncRead, operatorVars, faultVars>>

EventIntent == brokerEvents[Head(queue)].intent

\* With a connection of its own the transaction is open between its read of
\* the order and its commit; READ COMMITTED does not lock what it read.
SyncReads ==
    /\ pc = "apply"
    /\ ~SharedConnection
    /\ syncRead = NoOrder
    /\ Readable(EventIntent)
    /\ syncRead' = OrderOf(EventIntent)
    /\ UNCHANGED <<omsVars, brokerVars, pc, target, queue, operatorVars, faultVars>>

SyncOrder == IF SharedConnection THEN OrderOf(EventIntent) ELSE syncRead

SameFill(e) == fills[e.fill] = [intent |-> e.intent, quantity |-> e.quantity]

\* The event is acceptable to the order that the transaction read.
Accepts(o, e) ==
    CASE e.type = "FILL" ->
            IF e.fill \in DOMAIN fills THEN SameFill(e) ELSE CanFill(o, e.quantity)
      [] e.type = "ORDER_REPLACED" -> CanAmend(o, e.quantity)
      [] OTHER -> TRUE

\* Mutant of Effect: a cancellation skips CANCEL_PENDING.
EffectCancelsDirectly(o, e) ==
    CASE e.type = "FILL" /\ e.fill \notin DOMAIN fills ->
            <<FillIngested(e.quantity)>>
      [] e.type = "ORDER_CANCELLED" /\ Working(o) -> <<StatusChanged("CANCELLED")>>
      [] e.type = "ORDER_REPLACED" -> <<Amended(e.quantity)>>
      [] OTHER -> <<>>

\* Mutant of Effect: a replacement leaves only its receipt.
EffectIgnoresReplacement(o, e) ==
    CASE e.type = "FILL" /\ e.fill \notin DOMAIN fills ->
            <<FillIngested(e.quantity)>>
      [] e.type = "ORDER_CANCELLED" /\ Working(o) ->
            <<StatusChanged("CANCEL_PENDING"), StatusChanged("CANCELLED")>>
      [] OTHER -> <<>>

\* The rows that it appends to oms_events.
Effect(o, e) ==
    CASE e.type = "FILL" /\ e.fill \notin DOMAIN fills ->
            <<FillIngested(e.quantity)>>
      [] e.type = "ORDER_CANCELLED" /\ Working(o) ->
            <<StatusChanged("CANCEL_PENDING"), StatusChanged("CANCELLED")>>
      [] e.type = "ORDER_REPLACED" -> <<Amended(e.quantity)>>
      [] OTHER -> <<>>

\* Mutant of FillsAfter: the order counts a fill that has no row.
FillsUnrecorded(e) == fills

FillsAfter(e) ==
    IF e.type = "FILL"
    THEN [f \in DOMAIN fills \cup {e.fill} |->
            IF f = e.fill THEN [intent |-> e.intent, quantity |-> e.quantity]
                          ELSE fills[f]]
    ELSE fills

\* Mutant of SyncApplies: the cursor is left for later.
SyncAppliesWithoutCursor ==
    LET sequence == Head(queue)
        e == brokerEvents[sequence]
    IN  /\ pc = "apply"
        /\ SyncOrder \notin {NoOrder, Unreadable}
        /\ sequence \notin receipts
        /\ sequence > cursor
        /\ Accepts(SyncOrder, e)
        /\ Append_(e.intent, Effect(SyncOrder, e))
        /\ fills' = FillsAfter(e)
        /\ receipts' = receipts \cup {sequence}
        /\ queue' = Tail(queue)
        /\ pc' = IF queue' = <<>> THEN "idle" ELSE "apply"
        /\ syncRead' = NoOrder
        /\ UNCHANGED <<cursor, brokerVars, target, operatorVars, faultVars>>

\* apply_broker_event: receipt, cursor, fill and lifecycle rows in one commit.
SyncApplies ==
    LET sequence == Head(queue)
        e == brokerEvents[sequence]
    IN  /\ pc = "apply"
        /\ SyncOrder \notin {NoOrder, Unreadable}
        /\ sequence \notin receipts
        /\ sequence > cursor
        /\ Accepts(SyncOrder, e)
        /\ Append_(e.intent, Effect(SyncOrder, e))
        /\ fills' = FillsAfter(e)
        /\ receipts' = receipts \cup {sequence}
        /\ cursor' = sequence
        /\ queue' = Tail(queue)
        /\ pc' = IF queue' = <<>> THEN "idle" ELSE "apply"
        /\ syncRead' = NoOrder
        /\ UNCHANGED <<brokerVars, target, operatorVars, faultVars>>

\* A refused event, or an order that cannot be read, raises out of the loop:
\* nothing is written and the events behind it wait for a later call.
SyncFails ==
    /\ pc = "apply"
    /\ \/ /\ SyncOrder # NoOrder
          /\ ~Accepts(SyncOrder, brokerEvents[Head(queue)])
       \/ OrderOf(EventIntent) = Unreadable /\ syncRead = NoOrder
    /\ queue' = <<>>
    /\ pc' = "idle"
    /\ syncRead' = NoOrder
    /\ UNCHANGED <<omsVars, brokerVars, target, operatorVars, faultVars>>
--------------------------------------------------------------------------------
(***************************************************************************)
(* The operator's direct use of the OMS: cancel is two transactions, amend *)
(* is one.                                                                 *)
(***************************************************************************)

OperatorCallsOms(op, i, quantity) ==
    /\ call = NoCall
    /\ operatorCalls < MaxOperatorCalls
    /\ log[i] # <<>>
    /\ call' = [op |-> op, intent |-> i, quantity |-> quantity,
                step |-> "first", read |-> NoOrder]
    /\ operatorCalls' = operatorCalls + 1
    /\ UNCHANGED <<omsVars, brokerVars, serviceVars, faultVars>>

OperatorReads ==
    /\ call # NoCall
    /\ ~SharedConnection
    /\ call.read = NoOrder
    /\ Readable(call.intent)
    /\ call' = [call EXCEPT !.read = OrderOf(call.intent)]
    /\ UNCHANGED <<omsVars, brokerVars, serviceVars, operatorCalls, faultVars>>

OperatorOrder == IF SharedConnection THEN OrderOf(call.intent) ELSE call.read

\* The status that the call's current transaction of oms.cancel appends.
CancelStatus == IF call.step = "first" THEN "CANCEL_PENDING" ELSE "CANCELLED"

OperatorCancels ==
    /\ call # NoCall
    /\ call.op = "cancel"
    /\ CanMove(OperatorOrder, CancelStatus)
    /\ Append_(call.intent, <<StatusChanged(CancelStatus)>>)
    /\ call' = IF call.step = "first"
               THEN [call EXCEPT !.step = "second", !.read = NoOrder]
               ELSE NoCall
    /\ UNCHANGED <<fills, receipts, cursor, brokerVars, serviceVars, operatorCalls, faultVars>>

OperatorAmends ==
    /\ call # NoCall
    /\ call.op = "amend"
    /\ CanAmend(OperatorOrder, call.quantity)
    /\ Append_(call.intent, <<Amended(call.quantity)>>)
    /\ call' = NoCall
    /\ UNCHANGED <<fills, receipts, cursor, brokerVars, serviceVars, operatorCalls, faultVars>>

\* The OMS refuses the call, or cannot read the order at all.
OperatorFails ==
    /\ call # NoCall
    /\ \/ /\ OperatorOrder # NoOrder
          /\ ~(call.op = "cancel" /\ CanMove(OperatorOrder, CancelStatus))
          /\ ~(call.op = "amend" /\ CanAmend(OperatorOrder, call.quantity))
       \/ OrderOf(call.intent) = Unreadable /\ call.read = NoOrder
    /\ call' = NoCall
    /\ UNCHANGED <<omsVars, brokerVars, serviceVars, operatorCalls, faultVars>>
--------------------------------------------------------------------------------
\* The service is between create and the end of the transitions of an order.
Submitting(i) == target = i /\ pc \notin {"idle", "sync", "apply"}

InterruptSubmission == interrupted' = interrupted \cup {i \in Intents : Submitting(i)}

\* PostgreSQL fails a transaction of the service (postgres_oms_transition_failed
\* and the like): it rolls back, or commits and only its answer is lost, which is
\* the same failure one step later.  The exception ends the call where it is; the
\* process and the adapter, with the order it may have accepted, live on.
ServiceCallFails ==
    /\ pc # "idle"
    /\ crashes + failures < MaxFaults
    /\ failures' = failures + 1
    /\ InterruptSubmission
    /\ pc' = "idle"
    /\ queue' = <<>>
    /\ syncRead' = NoOrder
    /\ UNCHANGED <<omsVars, brokerVars, target, operatorVars, crashes>>

\* The same of an operator's call, which may already have committed the first
\* transaction of a cancel.
OperatorCallFails ==
    /\ call # NoCall
    /\ crashes + failures < MaxFaults
    /\ failures' = failures + 1
    /\ call' = NoCall
    /\ UNCHANGED <<omsVars, brokerVars, serviceVars, operatorCalls, crashes, interrupted>>

\* The process dies: an open transaction rolls back and the adapter's memory
\* is gone.  The next process starts with an empty adapter whose sequences
\* count from 1 again, while receipts and cursor are kept.
Crash ==
    /\ crashes + failures < MaxFaults
    /\ crashes' = crashes + 1
    /\ InterruptSubmission
    /\ brokerOrders' = NoOrders
    /\ brokerEvents' = <<>>
    /\ brokerFills' = {}
    /\ pc' = "idle"
    /\ queue' = <<>>
    /\ syncRead' = NoOrder
    /\ call' = IF SharedConnection THEN NoCall ELSE call
    /\ UNCHANGED <<omsVars, submissions, target, operatorCalls, failures>>
--------------------------------------------------------------------------------
Broker ==
    \E i \in Intents :
        \/ BrokerCancels(i)
        \/ \E quantity \in Amounts :
            \/ BrokerReplaces(i, quantity)
            \/ \E f \in FillIds : BrokerFills(i, f, quantity)

\* What the service does once it has been called.
ServiceStep ==
    \/ MarkRiskPending \/ MarkDecision
    \/ BrokerAccepts \/ BrokerRefuses \/ MarkRefused \/ MarkAccepted
    \/ ReadEvents \/ SyncReads \/ SyncApplies \/ SyncFails

Service ==
    \/ \E i \in Intents : SubmitCreates(i) \/ SubmitTakesUp(i)
    \/ CallSync
    \/ ServiceStep

Operator ==
    \/ \E op \in OperatorCalls, i \in Intents, quantity \in Amounts :
        OperatorCallsOms(op, i, quantity)
    \/ OperatorReads \/ OperatorCancels \/ OperatorAmends \/ OperatorFails

Next == Broker \/ Service \/ Operator \/ ServiceCallFails \/ OperatorCallFails \/ Crash

Spec == Init /\ [][Next]_vars

\* A Python call that has started runs to its end, by a return or an exception,
\* unless the process dies; nothing makes anyone call again.
FairSpec == Spec /\ WF_vars(ServiceStep)
--------------------------------------------------------------------------------
(***************************************************************************)
(* Properties                                                              *)
(***************************************************************************)

Ledger == INSTANCE PaperLedger WITH
    book <- [i \in Intents |-> OrderOf(i)],
    Sequences <- 1 .. MaxBrokerEvents

(* Replaying the event log behaves like a book of order rows: every        *)
(* transaction of the OMS is one step of PaperLedger, and a crash between  *)
(* any two of them is none.                                                *)
ImplementsLedger == Ledger!Spec

(* The cursor is the newest receipt even when transactions of several      *)
(* connections interleave and processes crash between them.                *)
CursorIsNewestReceipt == Ledger!CursorIsNewestReceipt

(* The current state of every order can be reconstructed from its events   *)
(* (the promise of the module comment of postgres_paper_oms.py).           *)
StateReconstructable == \A i \in Intents : OrderOf(i) # Unreadable

(* What an order says is filled is what the fills table holds for it: a    *)
(* fill is never counted twice and never recorded without being counted,   *)
(* also when the adapter reuses identifiers after a restart (_ingest_fill). *)
FilledIsSumOfFills ==
    \A i \in Intents :
        Readable(i) =>
            OrderOf(i).filled =
                MapThenSumSet(LAMBDA f : fills[f].quantity,
                              {f \in DOMAIN fills : fills[f].intent = i})

(* An intent reaches the broker at most once, whatever crashes and retries *)
(* happen: the adapter forgets, the event log does not                     *)
(* (submit_after_assessment returns an existing order).                    *)
SubmittedAtMostOnce ==
    \A i \in Intents :
        /\ submissions[i] <= 1
        /\ submissions[i] = 1 =>
              i \in Approved /\ StatusChanged("APPROVED") \in Range(log[i])

(* Left alone by operators and crashes, the service refuses an event only   *)
(* when a failed transition cut the submission of its order off: every      *)
(* other order lags behind the broker but does not diverge.  (Such a        *)
(* refusal blocks the events behind it, those of other orders too.)         *)
SyncNeverRefused ==
    operatorCalls = 0 /\ crashes = 0 /\ pc = "apply" =>
        /\ Readable(EventIntent)
        /\ \/ Accepts(OrderOf(EventIntent), brokerEvents[Head(queue)])
           \/ EventIntent \in interrupted

Unsettled == {"PROPOSED", "RISK_PENDING", "APPROVED", "SUBMISSION_PENDING", "SUBMITTED"}

(* Left alone by operators and crashes, the OMS holds the broker's order    *)
(* once it has applied the broker's last event, except that an order whose  *)
(* submission a failed transition cut off stays where it was, with nothing  *)
(* filled, whatever the broker has done with its own since.                 *)
MirrorsBroker ==
    operatorCalls = 0 /\ crashes = 0 /\ pc = "idle" /\ cursor = Len(brokerEvents) =>
        \A i \in Intents :
            brokerOrders[i] # NoOrder =>
                \/ OrderOf(i) = brokerOrders[i]
                \/ /\ i \in interrupted
                   /\ OrderOf(i).status \in Unsettled
                   /\ OrderOf(i).filled = 0

Settled == OrderStatus \ Unsettled

(* A submission that has started settles unless the process dies or a       *)
(* transaction of this submission fails: its order is acknowledged or       *)
(* rejected and never left on the way, also when the broker refuses it, an  *)
(* operator acts meanwhile on a connection of its own, or another call has  *)
(* failed (_submit_checked_assessment).                                     *)
SubmissionSettles ==
    \A i \in Intents :
        Submitting(i) ~> (OrderOf(i).status \in Settled \/ i \in interrupted)
================================================================================
