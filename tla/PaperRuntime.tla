----------------------------- MODULE PaperRuntime -----------------------------
(***************************************************************************)
(* From an order intent to the paper OMS: paper_runtime.PaperRuntime.assess *)
(* and assess_and_submit over the PostgreSQL authorities, run by several   *)
(* processes at once.  The risk decision and its daily-notional            *)
(* reservation (risk.PostgresRiskStore.persist), the assessment            *)
(* (postgres_pretrade) and the OMS order (broker_sync) are written by      *)
(* three transactions; between them another process may act, evidence may  *)
(* change, and the call may fail or its process die.                       *)
(***************************************************************************)
EXTENDS Integers

CONSTANTS
    Runtimes,       \* processes that hold a composed paper runtime
    Intents,        \* order intents
    Accounts,       \* paper accounts
    Days,           \* business days
    AccountOf,      \* account_id of an intent
    Notional,       \* notional of an intent
    Scopes,         \* kinds of kill-switch scope an operator uses, each of
                    \* them covering every intent
    DailyLimit,     \* maximum_daily_order_notional of the risk policy
    MaxFailures,    \* bound on calls that fail
    MaxSwitches     \* bound on kill-switch and recovery-gate events

NoDay == "no_day"

ASSUME RuntimeAssumption ==
    /\ NoDay \notin Days
    /\ AccountOf \in [Intents -> Accounts]
    /\ Notional \in [Intents -> Nat]
    /\ Scopes \subseteq {"GLOBAL", "ACCOUNT", "ASSET_CLASS", "BROKER", "EXCHANGE",
                        "INSTRUMENT", "STRATEGY"}
    /\ {DailyLimit, MaxFailures, MaxSwitches} \subseteq Nat

VARIABLES
    \* PostgreSQL
    decision,       \* risk_decisions by intent: "none", or its approved column
    reservedOn,     \* risk_reservations by intent: the business_date, or NoDay
    reserved,       \* SUM(notional) of risk_reservations by account and day,
                    \* kept here as the running total of the rows inserted
    assessment,     \* runtime_pretrade_assessments by intent, or NoAssessment
    alerted,        \* intents with a PRETRADE_RISK_REJECTED alert
    orders,         \* intents with an OMS order
    activeScopes,   \* scopes whose newest kill_switch_events row is active
    gateBlocks,     \* the last runtime_recovery_events row requires reconciliation
    \* each process's call
    pc,             \* where the call is
    intent,         \* the intent it assesses
    day,            \* business day of its observed_at
    submits,        \* it is assess_and_submit, not assess
    risk,           \* risk decision of the candidate assessment
    portfolio,      \* the portfolio gate approved it, on the evidence it read
    total,          \* SUM read under the account/day lock
    failures,       \* failed calls so far
    switches        \* operator events so far

riskTables == <<decision, reservedOn, reserved, alerted>>
operatorVars == <<activeScopes, gateBlocks, switches>>
tables == <<riskTables, assessment, orders, operatorVars>>
argumentVars == <<intent, day>>
localVars == <<submits, risk, portfolio, total>>
callVars == <<argumentVars, localVars>>
vars == <<tables, callVars, pc, failures>>

NoAssessment == [risk |-> "none", portfolio |-> FALSE]

Verdict == {"APPROVE", "REJECT"}
Assessment == [risk: Verdict, portfolio: BOOLEAN]

Pc == {"idle", "gate", "lookup", "evaluate", "persist", "budget", "commit",
       "append", "handoff"}

TypeOK ==
    /\ decision \in [Intents -> Verdict \cup {"none"}]
    /\ reservedOn \in [Intents -> Days \cup {NoDay}]
    /\ reserved \in [Accounts -> [Days -> Nat]]
    /\ assessment \in [Intents -> Assessment \cup {NoAssessment}]
    /\ alerted \subseteq Intents
    /\ orders \subseteq Intents
    /\ activeScopes \subseteq Scopes
    /\ gateBlocks \in BOOLEAN
    /\ pc \in [Runtimes -> Pc]
    /\ intent \in [Runtimes -> Intents]
    /\ day \in [Runtimes -> Days]
    /\ submits \in [Runtimes -> BOOLEAN]
    /\ risk \in [Runtimes -> Verdict]
    /\ portfolio \in [Runtimes -> BOOLEAN]
    /\ total \in [Runtimes -> Nat]
    /\ failures \in Nat
    /\ switches \in Nat

Init ==
    /\ decision = [i \in Intents |-> "none"]
    /\ reservedOn = [i \in Intents |-> NoDay]
    /\ reserved = [a \in Accounts |-> [d \in Days |-> 0]]
    /\ assessment = [i \in Intents |-> NoAssessment]
    /\ alerted = {}
    /\ orders = {}
    /\ activeScopes = {}
    /\ gateBlocks = FALSE
    /\ pc = [p \in Runtimes |-> "idle"]
    /\ intent \in [Runtimes -> Intents]
    /\ day \in [Runtimes -> Days]
    /\ submits = [p \in Runtimes |-> FALSE]
    /\ risk = [p \in Runtimes |-> "REJECT"]
    /\ portfolio = [p \in Runtimes |-> FALSE]
    /\ total = [p \in Runtimes |-> 0]
    /\ failures = 0
    /\ switches = 0
--------------------------------------------------------------------------------
Goto(p, label) == pc' = [pc EXCEPT ![p] = label]

\* The call ends: its local values are gone.
Return(p) ==
    /\ Goto(p, "idle")
    /\ submits' = [submits EXCEPT ![p] = FALSE]
    /\ risk' = [risk EXCEPT ![p] = "REJECT"]
    /\ portfolio' = [portfolio EXCEPT ![p] = FALSE]
    /\ total' = [total EXCEPT ![p] = 0]

Proceed(p, label) ==
    \/ label = "idle" /\ Return(p)
    \/ label # "idle" /\ Goto(p, label) /\ UNCHANGED localVars

\* PreTradeAssessment.approved
Approves(a) == a.risk = "APPROVE" /\ a.portfolio

\* Mutant of AfterAssessment: approval is not looked at.
SubmitsAnyway(p, a) == IF submits[p] THEN "handoff" ELSE "idle"

\* Where a call goes with its assessment: only an approved one of
\* assess_and_submit is handed to the broker service.
AfterAssessment(p, a) ==
    IF submits[p] /\ Approves(a) THEN "handoff" ELSE "idle"

\* An assessment is requested, first or again, on any business day.
Call(p, i, d, submit) ==
    /\ pc[p] = "idle"
    /\ Goto(p, "gate")
    /\ intent' = [intent EXCEPT ![p] = i]
    /\ day' = [day EXCEPT ![p] = d]
    /\ submits' = [submits EXCEPT ![p] = submit]
    /\ UNCHANGED <<tables, risk, portfolio, total, failures>>

\* durable_recovery_gate.blocks(): a blocked call raises.
CheckGate(p) ==
    /\ pc[p] = "gate"
    /\ Proceed(p, IF gateBlocks THEN "idle" ELSE "lookup")
    /\ UNCHANGED <<tables, argumentVars, failures>>

\* A stored assessment is returned as it is; no gate is evaluated again.
Lookup(p) ==
    LET stored == assessment[intent[p]]
    IN  /\ pc[p] = "lookup"
        /\ Proceed(p, IF stored = NoAssessment THEN "evaluate"
                                              ELSE AfterAssessment(p, stored))
        /\ UNCHANGED <<tables, argumentVars, failures>>

\* The scopes that RiskEngine.assess asks the kill-switch registry about.
CheckedScopes == {"GLOBAL", "ACCOUNT", "INSTRUMENT", "STRATEGY"}

\* assess_pretrade: the outcome depends on evidence that changes from call
\* to call; an active kill switch that is asked about makes the risk decision
\* a rejection.
Evaluate(p, verdict, permits) ==
    /\ pc[p] = "evaluate"
    /\ activeScopes \cap CheckedScopes # {} => verdict = "REJECT"
    /\ Goto(p, "persist")
    /\ risk' = [risk EXCEPT ![p] = verdict]
    /\ portfolio' = [portfolio EXCEPT ![p] = permits]
    /\ UNCHANGED <<tables, intent, day, submits, total, failures>>
--------------------------------------------------------------------------------
(***************************************************************************)
(* PostgresRiskStore.persist, one transaction.  Its advisory locks are     *)
(* held from the statement that takes them to the commit or rollback, so   *)
(* they are read off the processes that are inside it.                     *)
(***************************************************************************)

IntentLockFree(i) ==
    \A q \in Runtimes : pc[q] \in {"budget", "commit"} => intent[q] # i

\* Mutant of DayLockFree: the account/day lock is not taken.
DayLockNotTaken(account, d) == TRUE

\* Mutant of DayLockFree: those who wait for the lock count as its holders.
DayLockBehindWaiters(account, d) ==
    \A q \in Runtimes :
        pc[q] \in {"budget", "commit"} =>
            AccountOf[intent[q]] # account \/ day[q] # d

DayLockFree(account, d) ==
    \A q \in Runtimes :
        pc[q] = "commit" => AccountOf[intent[q]] # account \/ day[q] # d

\* Mutant of PersistFindsDecision: the candidate keeps its own decision.
PersistKeepsCandidate(p) ==
    LET i == intent[p]
    IN  /\ pc[p] = "persist"
        /\ IntentLockFree(i)
        /\ decision[i] # "none"
        /\ Goto(p, "append")
        /\ UNCHANGED <<tables, callVars, failures>>

\* The intent has a decision already: it replaces the candidate's.
PersistFindsDecision(p) ==
    LET i == intent[p]
    IN  /\ pc[p] = "persist"
        /\ IntentLockFree(i)
        /\ decision[i] # "none"
        /\ Goto(p, "append")
        /\ risk' = [risk EXCEPT ![p] = decision[i]]
        /\ UNCHANGED <<tables, intent, day, submits, portfolio, total, failures>>

\* The risk decision is stored as it was made, also when it is the portfolio
\* gate that rejects; the alert is raised in the same transaction.
PersistRejected(p) ==
    LET i == intent[p]
    IN  /\ pc[p] = "persist"
        /\ IntentLockFree(i)
        /\ decision[i] = "none"
        /\ ~(risk[p] = "APPROVE" /\ portfolio[p])
        /\ decision' = [decision EXCEPT ![i] = risk[p]]
        /\ alerted' = alerted \cup {i}
        /\ Goto(p, "append")
        /\ UNCHANGED <<reservedOn, reserved, assessment, orders, operatorVars,
                       callVars, failures>>

\* Both gates approve: the intent lock is held and the day lock is next.
PersistApproved(p) ==
    LET i == intent[p]
    IN  /\ pc[p] = "persist"
        /\ IntentLockFree(i)
        /\ decision[i] = "none"
        /\ risk[p] = "APPROVE"
        /\ portfolio[p]
        /\ Goto(p, "budget")
        /\ UNCHANGED <<tables, callVars, failures>>

ReadBudget(p) ==
    LET account == AccountOf[intent[p]]
    IN  /\ pc[p] = "budget"
        /\ DayLockFree(account, day[p])
        /\ total' = [total EXCEPT ![p] = reserved[account][day[p]]]
        /\ Goto(p, "commit")
        /\ UNCHANGED <<tables, intent, day, submits, risk, portfolio, failures>>

\* Mutant of CommitDecision: a rejection by the budget raises no alert.
CommitDecisionQuietly(p) ==
    LET i == intent[p]
        fits == total[p] + Notional[i] <= DailyLimit
    IN  /\ pc[p] = "commit"
        /\ Goto(p, "append")
        /\ \/ /\ fits
              /\ reserved' = [reserved EXCEPT ![AccountOf[i]][day[p]] = @ + Notional[i]]
              /\ reservedOn' = [reservedOn EXCEPT ![i] = day[p]]
              /\ decision' = [decision EXCEPT ![i] = "APPROVE"]
              /\ UNCHANGED risk
           \/ /\ ~fits
              /\ decision' = [decision EXCEPT ![i] = "REJECT"]
              /\ risk' = [risk EXCEPT ![p] = "REJECT"]
              /\ UNCHANGED <<reserved, reservedOn>>
        /\ UNCHANGED <<alerted, assessment, orders, operatorVars,
                       intent, day, submits, portfolio, total, failures>>

\* Reservation and approval together, or a rejection with its alert.
CommitDecision(p) ==
    LET i == intent[p]
        fits == total[p] + Notional[i] <= DailyLimit
    IN  /\ pc[p] = "commit"
        /\ Goto(p, "append")
        /\ \/ /\ fits
              /\ reserved' = [reserved EXCEPT ![AccountOf[i]][day[p]] = @ + Notional[i]]
              /\ reservedOn' = [reservedOn EXCEPT ![i] = day[p]]
              /\ decision' = [decision EXCEPT ![i] = "APPROVE"]
              /\ UNCHANGED <<risk, alerted>>
           \/ /\ ~fits
              /\ decision' = [decision EXCEPT ![i] = "REJECT"]
              /\ risk' = [risk EXCEPT ![p] = "REJECT"]
              /\ alerted' = alerted \cup {i}
              /\ UNCHANGED <<reserved, reservedOn>>
        /\ UNCHANGED <<assessment, orders, operatorVars,
                       intent, day, submits, portfolio, total, failures>>
--------------------------------------------------------------------------------
\* PostgresPreTradeAssessmentStore.append: a second assessment of the intent
\* is a conflict, which raises.
AppendAssessment(p) ==
    LET i == intent[p]
        candidate == [risk |-> risk[p], portfolio |-> portfolio[p]]
    IN  /\ pc[p] = "append"
        /\ \/ /\ assessment[i] = NoAssessment
              /\ assessment' = [assessment EXCEPT ![i] = candidate]
              /\ Proceed(p, AfterAssessment(p, candidate))
           \/ /\ assessment[i] # NoAssessment
              /\ Return(p)
              /\ UNCHANGED assessment
        /\ UNCHANGED <<riskTables, orders, operatorVars, argumentVars, failures>>

\* submit_after_assessment up to oms.create: an existing order is returned.
HandOff(p) ==
    /\ pc[p] = "handoff"
    /\ orders' = orders \cup {intent[p]}
    /\ Return(p)
    /\ UNCHANGED <<riskTables, assessment, operatorVars, argumentVars, failures>>

\* The call raises or its process dies: an open transaction rolls back and
\* its locks are released; what was committed stays.
Fails(p) ==
    /\ pc[p] # "idle"
    /\ failures < MaxFailures
    /\ failures' = failures + 1
    /\ Return(p)
    /\ UNCHANGED <<tables, argumentVars>>
--------------------------------------------------------------------------------
\* PostgresKillSwitchRegistry.activate and deactivate; an event that repeats
\* the newest one changes nothing here.
SetKillSwitch(scope, active) ==
    /\ switches < MaxSwitches
    /\ active # (scope \in activeScopes)
    /\ switches' = switches + 1
    /\ activeScopes' = IF active THEN activeScopes \cup {scope} ELSE activeScopes \ {scope}
    /\ UNCHANGED <<riskTables, assessment, orders, gateBlocks, callVars, pc, failures>>

\* require_reconciliation, and mark_reconciled of a gate that blocks; a
\* requirement that repeats the newest one changes nothing here.
SetRecoveryGate(blocks) ==
    /\ switches < MaxSwitches
    /\ blocks # gateBlocks
    /\ switches' = switches + 1
    /\ gateBlocks' = blocks
    /\ UNCHANGED <<riskTables, assessment, orders, activeScopes, callVars, pc, failures>>
--------------------------------------------------------------------------------
Persist(p) ==
    PersistFindsDecision(p) \/ PersistRejected(p) \/ PersistApproved(p)

Step(p) ==
    \/ CheckGate(p)
    \/ Lookup(p)
    \/ \E verdict \in Verdict, permits \in BOOLEAN : Evaluate(p, verdict, permits)
    \/ Persist(p)
    \/ ReadBudget(p)
    \/ CommitDecision(p)
    \/ AppendAssessment(p)
    \/ HandOff(p)

Next ==
    \/ \E p \in Runtimes :
        \/ \E i \in Intents, d \in Days, submit \in BOOLEAN : Call(p, i, d, submit)
        \/ Step(p)
        \/ Fails(p)
    \/ \E b \in BOOLEAN :
        \/ \E scope \in Scopes : SetKillSwitch(scope, b)
        \/ SetRecoveryGate(b)

Spec == Init /\ [][Next]_vars

\* A call keeps running.  PostgreSQL grants an advisory lock in the order in
\* which it was asked for, so a waiting call is not passed over for ever.
FairSpec == Spec /\ \A p \in Runtimes : SF_vars(Step(p))
--------------------------------------------------------------------------------
(***************************************************************************)
(* Properties                                                              *)
(***************************************************************************)

(* The reservations of an account and day never exceed the daily limit,    *)
(* whatever processes assess at once and wherever they fail                *)
(* (PostgresRiskStore.persist).                                            *)
WithinDailyLimit ==
    \A a \in Accounts, d \in Days : reserved[a][d] <= DailyLimit

(* Every recorded decision has a reservation or an alert, never both:      *)
(* a rejection, of either gate or of the budget, is alerted in the         *)
(* transaction that records it and consumes no budget.                     *)
ReservedOrAlerted ==
    \A i \in Intents :
        /\ (decision[i] # "none") <=> (reservedOn[i] # NoDay \/ i \in alerted)
        /\ reservedOn[i] # NoDay => decision[i] = "APPROVE" /\ i \notin alerted

(* The assessment that is stored for an intent carries the decision that   *)
(* is stored for it, even when another process decided first or the budget *)
(* overturned the candidate.                                               *)
AssessmentFollowsDecision ==
    \A i \in Intents :
        assessment[i] # NoAssessment => assessment[i].risk = decision[i]

(* An order rests on a stored assessment that approves it.                 *)
OrdersAreApproved ==
    \A i \in orders : Approves(assessment[i])

(* A decision, a reservation and an assessment are never revised.          *)
EvidenceIsImmutable ==
    [][\A i \in Intents :
        /\ decision[i] # "none" => decision'[i] = decision[i]
        /\ reservedOn[i] # NoDay => reservedOn'[i] = reservedOn[i]
        /\ assessment[i] # NoAssessment => assessment'[i] = assessment[i]]_vars

(* Every call returns: the two advisory locks cannot deadlock and no call  *)
(* waits for ever.                                                         *)
CallsReturn == \A p \in Runtimes : pc[p] # "idle" ~> pc[p] = "idle"

(* A rejection by the portfolio or the risk gate never reaches the OMS:    *)
(* an order's intent holds a reservation (docs/EXECUTION_POLICY.md).       *)
OrdersAreReserved == \A i \in orders : reservedOn[i] # NoDay
================================================================================
