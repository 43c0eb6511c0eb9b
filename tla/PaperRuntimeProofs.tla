-------------------------- MODULE PaperRuntimeProofs --------------------------
(***************************************************************************)
(* Proofs about PaperRuntime for every set of processes, intents, accounts *)
(* and days, every limit and every notional.                               *)
(***************************************************************************)
EXTENDS PaperRuntime, TLAPS

LEMMA ReturnType ==
    ASSUME TypeOK, NEW p \in Runtimes, Return(p)
    PROVE  /\ pc' \in [Runtimes -> Pc]
           /\ submits' \in [Runtimes -> BOOLEAN]
           /\ risk' \in [Runtimes -> Verdict]
           /\ portfolio' \in [Runtimes -> BOOLEAN]
           /\ total' \in [Runtimes -> Nat]
BY DEF TypeOK, Return, Goto, Pc, Verdict

LEMMA ProceedType ==
    ASSUME TypeOK, NEW p \in Runtimes, NEW label \in Pc, Proceed(p, label)
    PROVE  /\ pc' \in [Runtimes -> Pc]
           /\ submits' \in [Runtimes -> BOOLEAN]
           /\ risk' \in [Runtimes -> Verdict]
           /\ portfolio' \in [Runtimes -> BOOLEAN]
           /\ total' \in [Runtimes -> Nat]
<1>1. CASE Return(p)
    BY <1>1, ReturnType
<1>2. CASE Goto(p, label) /\ UNCHANGED localVars
    BY <1>2 DEF TypeOK, Goto, localVars
<1> QED BY <1>1, <1>2 DEF Proceed

(* The variables of a runtime and its tables keep their types.             *)
THEOREM TypeCorrect == Spec => []TypeOK
<1>1. Init => TypeOK
    <2> SUFFICES ASSUME Init
                 PROVE  TypeOK
        OBVIOUS
    <2>1. reserved \in [Accounts -> [Days -> Nat]]
        BY DEF Init
    <2>2. /\ decision \in [Intents -> Verdict \cup {"none"}]
          /\ reservedOn \in [Intents -> Days \cup {NoDay}]
          /\ assessment \in [Intents -> Assessment \cup {NoAssessment}]
          /\ alerted \subseteq Intents
          /\ orders \subseteq Intents
          /\ activeScopes \subseteq Scopes
          /\ gateBlocks \in BOOLEAN
        BY DEF Init
    <2>3. /\ pc \in [Runtimes -> Pc]
          /\ intent \in [Runtimes -> Intents]
          /\ day \in [Runtimes -> Days]
          /\ submits \in [Runtimes -> BOOLEAN]
          /\ risk \in [Runtimes -> Verdict]
          /\ portfolio \in [Runtimes -> BOOLEAN]
          /\ total \in [Runtimes -> Nat]
          /\ failures \in Nat
          /\ switches \in Nat
        BY DEF Init, Pc, Verdict
    <2> QED BY <2>1, <2>2, <2>3 DEF TypeOK
<1>2. TypeOK /\ [Next]_vars => TypeOK'
    <2> SUFFICES ASSUME TypeOK, [Next]_vars
                 PROVE  TypeOK'
        OBVIOUS
    <2>1. CASE UNCHANGED vars
        BY <2>1 DEF TypeOK, vars, tables, riskTables, operatorVars, callVars,
                    argumentVars, localVars
    <2>2. ASSUME NEW p \in Runtimes, NEW i \in Intents, NEW d \in Days,
                 NEW submit \in BOOLEAN, Call(p, i, d, submit)
          PROVE  TypeOK'
        BY <2>2 DEF Call, Goto, TypeOK, Pc, tables, riskTables, operatorVars
    <2>3. ASSUME NEW p \in Runtimes, CheckGate(p)
          PROVE  TypeOK'
        <3>1. PICK label \in {"idle", "lookup"} : Proceed(p, label)
            BY <2>3 DEF CheckGate
        <3>2. label \in Pc
            BY DEF Pc
        <3> QED BY <2>3, <3>1, <3>2, ProceedType
                DEF CheckGate, TypeOK, tables, riskTables, operatorVars, argumentVars
    <2>4. ASSUME NEW p \in Runtimes, Lookup(p)
          PROVE  TypeOK'
        <3>1. PICK label \in {"idle", "evaluate", "handoff"} : Proceed(p, label)
            BY <2>4 DEF Lookup, AfterAssessment
        <3>2. label \in Pc
            BY DEF Pc
        <3> QED BY <2>4, <3>1, <3>2, ProceedType
                DEF Lookup, TypeOK, tables, riskTables, operatorVars, argumentVars
    <2>5. ASSUME NEW p \in Runtimes, NEW verdict \in Verdict, NEW permits \in BOOLEAN,
                 Evaluate(p, verdict, permits)
          PROVE  TypeOK'
        BY <2>5 DEF Evaluate, Goto, TypeOK, Pc, tables, riskTables, operatorVars
    <2>6. ASSUME NEW p \in Runtimes, PersistFindsDecision(p)
          PROVE  TypeOK'
        BY <2>6 DEF PersistFindsDecision, Goto, TypeOK, Pc, tables, riskTables,
                    operatorVars
    <2>7. ASSUME NEW p \in Runtimes, PersistRejected(p)
          PROVE  TypeOK'
        BY <2>7 DEF PersistRejected, Goto, TypeOK, Pc, operatorVars, callVars,
                    argumentVars, localVars
    <2>8. ASSUME NEW p \in Runtimes, PersistApproved(p)
          PROVE  TypeOK'
        BY <2>8 DEF PersistApproved, Goto, TypeOK, Pc, tables, riskTables,
                    operatorVars, callVars, argumentVars, localVars
    <2>9. ASSUME NEW p \in Runtimes, ReadBudget(p)
          PROVE  TypeOK'
        BY <2>9, RuntimeAssumption
           DEF ReadBudget, Goto, TypeOK, Pc, tables, riskTables, operatorVars
    <2>10. ASSUME NEW p \in Runtimes, CommitDecision(p)
           PROVE  TypeOK'
        <3>1. /\ intent[p] \in Intents
              /\ AccountOf[intent[p]] \in Accounts
              /\ day[p] \in Days
              /\ Notional[intent[p]] \in Nat
            BY RuntimeAssumption DEF TypeOK
        <3>2. reserved' \in [Accounts -> [Days -> Nat]]
            BY <2>10, <3>1 DEF CommitDecision, TypeOK
        <3> QED BY <2>10, <3>1, <3>2
                DEF CommitDecision, Goto, TypeOK, Pc, Verdict, operatorVars
    <2>11. ASSUME NEW p \in Runtimes, AppendAssessment(p)
           PROVE  TypeOK'
        <3>1. intent[p] \in Intents /\ [risk |-> risk[p], portfolio |-> portfolio[p]] \in Assessment
            BY DEF TypeOK, Assessment
        <3>2. assessment' \in [Intents -> Assessment \cup {NoAssessment}]
            BY <2>11, <3>1 DEF AppendAssessment, TypeOK
        <3>3. PICK label \in {"idle", "handoff"} : Return(p) \/ Proceed(p, label)
            BY <2>11 DEF AppendAssessment, AfterAssessment
        <3>4. label \in Pc
            BY DEF Pc
        <3> QED BY <2>11, <3>2, <3>3, <3>4, ReturnType, ProceedType
                DEF AppendAssessment, TypeOK, riskTables, operatorVars, argumentVars
    <2>12. ASSUME NEW p \in Runtimes, HandOff(p)
           PROVE  TypeOK'
        BY <2>12, ReturnType
           DEF HandOff, TypeOK, riskTables, operatorVars, argumentVars
    <2>13. ASSUME NEW p \in Runtimes, Fails(p)
           PROVE  TypeOK'
        BY <2>13, ReturnType
           DEF Fails, TypeOK, tables, riskTables, operatorVars, argumentVars
    <2>14. ASSUME NEW scope \in Scopes, NEW active \in BOOLEAN, SetKillSwitch(scope, active)
           PROVE  TypeOK'
        BY <2>14 DEF SetKillSwitch, TypeOK, riskTables, callVars, argumentVars, localVars
    <2>15. ASSUME NEW blocks \in BOOLEAN, SetRecoveryGate(blocks)
           PROVE  TypeOK'
        BY <2>15 DEF SetRecoveryGate, TypeOK, riskTables, callVars, argumentVars, localVars
    <2> QED BY <2>1, <2>2, <2>3, <2>4, <2>5, <2>6, <2>7, <2>8, <2>9, <2>10, <2>11,
               <2>12, <2>13, <2>14, <2>15 DEF Next, Step, Persist
<1> QED BY <1>1, <1>2, PTL DEF Spec
--------------------------------------------------------------------------------
(***************************************************************************)
(* A step of one call leaves the other calls alone.                        *)
(***************************************************************************)

OthersStay(p) ==
    \A q \in Runtimes \ {p} :
        /\ pc'[q] = pc[q]
        /\ intent'[q] = intent[q]
        /\ day'[q] = day[q]
        /\ risk'[q] = risk[q]
        /\ total'[q] = total[q]

LEMMA ProceedFrame ==
    ASSUME TypeOK, NEW p \in Runtimes, NEW label \in Pc,
           Return(p) \/ Proceed(p, label), UNCHANGED argumentVars
    PROVE  /\ OthersStay(p)
           /\ pc'[p] \in {"idle", label}
           /\ intent'[p] = intent[p]
           /\ day'[p] = day[p]
<1>1. CASE Return(p)
    BY <1>1 DEF TypeOK, Return, Goto, OthersStay, argumentVars
<1>2. CASE Goto(p, label) /\ UNCHANGED localVars
    BY <1>2 DEF TypeOK, Goto, OthersStay, argumentVars, localVars
<1> QED BY <1>1, <1>2 DEF Proceed

(* The steps of a call that write no table and end outside the transaction *)
(* of PostgresRiskStore.persist.                                           *)
Quiet(p) ==
    \/ \E i \in Intents, d \in Days, submit \in BOOLEAN : Call(p, i, d, submit)
    \/ CheckGate(p)
    \/ \E verdict \in Verdict, permits \in BOOLEAN : Evaluate(p, verdict, permits)
    \/ Fails(p)

LEMMA QuietStep ==
    ASSUME TypeOK, NEW p \in Runtimes, Quiet(p)
    PROVE  /\ OthersStay(p)
           /\ pc'[p] \in {"idle", "gate", "lookup", "persist"}
           /\ UNCHANGED tables
<1>1. ASSUME NEW i \in Intents, NEW d \in Days, NEW submit \in BOOLEAN,
             Call(p, i, d, submit)
      PROVE  OthersStay(p) /\ pc'[p] = "gate" /\ UNCHANGED tables
    BY <1>1 DEF Call, Goto, OthersStay, TypeOK
<1>2. ASSUME CheckGate(p)
      PROVE  OthersStay(p) /\ pc'[p] \in {"idle", "lookup"} /\ UNCHANGED tables
    <2>1. PICK label \in {"idle", "lookup"} : Proceed(p, label)
        BY <1>2 DEF CheckGate
    <2>2. label \in Pc
        BY DEF Pc
    <2> QED BY <1>2, <2>1, <2>2, ProceedFrame DEF CheckGate
<1>3. ASSUME NEW verdict \in Verdict, NEW permits \in BOOLEAN,
             Evaluate(p, verdict, permits)
      PROVE  OthersStay(p) /\ pc'[p] = "persist" /\ UNCHANGED tables
    BY <1>3 DEF Evaluate, Goto, OthersStay, TypeOK
<1>4. ASSUME Fails(p)
      PROVE  OthersStay(p) /\ pc'[p] = "idle" /\ UNCHANGED tables
    BY <1>4 DEF Fails, Return, Goto, OthersStay, TypeOK, argumentVars
<1> QED BY <1>1, <1>2, <1>3, <1>4 DEF Quiet

LEMMA LookupStep ==
    ASSUME TypeOK, NEW p \in Runtimes, Lookup(p)
    PROVE  /\ OthersStay(p)
           /\ pc'[p] \in {"idle", "evaluate", "handoff"}
           /\ pc'[p] = "handoff" => Approves(assessment[intent[p]])
           /\ intent'[p] = intent[p]
           /\ UNCHANGED tables
<1>1. PICK label \in {"idle", "evaluate", "handoff"} :
            /\ Proceed(p, label)
            /\ label = "handoff" => Approves(assessment[intent[p]])
    BY DEF Lookup, AfterAssessment
<1>2. label \in Pc
    BY DEF Pc
<1> QED BY <1>1, <1>2, ProceedFrame DEF Lookup

LEMMA AppendStep ==
    ASSUME TypeOK, NEW p \in Runtimes, AppendAssessment(p)
    PROVE  /\ OthersStay(p)
           /\ pc[p] = "append"
           /\ pc'[p] \in {"idle", "handoff"}
           /\ pc'[p] = "handoff" => Approves(assessment'[intent[p]])
           /\ intent'[p] = intent[p]
           /\ UNCHANGED <<riskTables, orders>>
           /\ \/ UNCHANGED assessment
              \/ /\ assessment[intent[p]] = NoAssessment
                 /\ assessment' = [assessment EXCEPT ![intent[p]] =
                        [risk |-> risk[p], portfolio |-> portfolio[p]]]
<1>1. CASE assessment[intent[p]] # NoAssessment
    <2>1. Return(p) /\ UNCHANGED argumentVars /\ UNCHANGED <<riskTables, orders, assessment>>
        BY <1>1 DEF AppendAssessment
    <2>2. "idle" \in Pc
        BY DEF Pc
    <2> QED BY <2>1, <2>2, ProceedFrame DEF AppendAssessment
<1>2. CASE assessment[intent[p]] = NoAssessment
    <2> DEFINE candidate == [risk |-> risk[p], portfolio |-> portfolio[p]]
    <2>1. PICK label \in {"idle", "handoff"} :
            /\ Proceed(p, label)
            /\ label = "handoff" => Approves(candidate)
        BY <1>2 DEF AppendAssessment, AfterAssessment
    <2>2. assessment' = [assessment EXCEPT ![intent[p]] = candidate]
        BY <1>2 DEF AppendAssessment
    <2>3. assessment'[intent[p]] = candidate
        BY <2>2 DEF TypeOK
    <2>4. label \in Pc
        BY DEF Pc
    <2>5. UNCHANGED argumentVars /\ UNCHANGED <<riskTables, orders>>
        BY DEF AppendAssessment
    <2> HIDE DEF candidate
    <2>6. OthersStay(p) /\ pc'[p] \in {"idle", label} /\ intent'[p] = intent[p]
        BY <2>1, <2>4, <2>5, ProceedFrame
    <2> QED BY <1>2, <2>1, <2>2, <2>3, <2>5, <2>6 DEF AppendAssessment, candidate
<1> QED BY <1>1, <1>2

LEMMA HandOffStep ==
    ASSUME TypeOK, NEW p \in Runtimes, HandOff(p)
    PROVE  /\ OthersStay(p)
           /\ pc'[p] = "idle"
           /\ pc[p] = "handoff"
           /\ orders' = orders \cup {intent[p]}
           /\ UNCHANGED <<riskTables, assessment>>
BY DEF HandOff, Return, Goto, OthersStay, TypeOK, argumentVars

LEMMA PersistStep ==
    ASSUME TypeOK, NEW p \in Runtimes,
           PersistFindsDecision(p) \/ PersistRejected(p) \/ PersistApproved(p)
               \/ ReadBudget(p) \/ CommitDecision(p)
    PROVE  /\ OthersStay(p)
           /\ intent' = intent
           /\ day' = day
<1>1. CASE PersistFindsDecision(p)
    BY <1>1 DEF PersistFindsDecision, Goto, OthersStay, TypeOK
<1>2. CASE PersistRejected(p)
    BY <1>2 DEF PersistRejected, Goto, OthersStay, TypeOK, callVars, argumentVars, localVars
<1>3. CASE PersistApproved(p)
    BY <1>3 DEF PersistApproved, Goto, OthersStay, TypeOK, callVars, argumentVars, localVars
<1>4. CASE ReadBudget(p)
    BY <1>4 DEF ReadBudget, Goto, OthersStay, TypeOK
<1>5. CASE CommitDecision(p)
    BY <1>5 DEF CommitDecision, Goto, OthersStay, TypeOK
<1> QED BY <1>1, <1>2, <1>3, <1>4, <1>5

(* The steps of the specification, without those that write only operator  *)
(* tables.                                                                 *)
LEMMA StepCases ==
    ASSUME [Next]_vars
    PROVE  \/ UNCHANGED <<riskTables, assessment, orders, callVars, pc>>
           \/ \E p \in Runtimes :
                \/ Quiet(p) \/ Lookup(p) \/ PersistFindsDecision(p)
                \/ PersistRejected(p) \/ PersistApproved(p) \/ ReadBudget(p)
                \/ CommitDecision(p) \/ AppendAssessment(p) \/ HandOff(p)
<1>1. CASE UNCHANGED vars
    BY <1>1 DEF vars, tables
<1>2. ASSUME NEW scope \in Scopes, NEW active \in BOOLEAN, SetKillSwitch(scope, active)
      PROVE  UNCHANGED <<riskTables, assessment, orders, callVars, pc>>
    BY <1>2 DEF SetKillSwitch
<1>3. ASSUME NEW blocks \in BOOLEAN, SetRecoveryGate(blocks)
      PROVE  UNCHANGED <<riskTables, assessment, orders, callVars, pc>>
    BY <1>3 DEF SetRecoveryGate
<1> QED BY <1>1, <1>2, <1>3 DEF Next, Step, Persist, Quiet
--------------------------------------------------------------------------------
(***************************************************************************)
(* The daily limit.  What a call read under the account/day lock is still  *)
(* the sum when it commits, because no other call of that account and day  *)
(* can be past its own read.                                               *)
(***************************************************************************)

Budget ==
    /\ \A p \in Runtimes :
        pc[p] = "commit" => total[p] = reserved[AccountOf[intent[p]]][day[p]]
    /\ \A p, q \in Runtimes :
        p # q /\ pc[p] = "commit" /\ pc[q] = "commit" =>
            AccountOf[intent[p]] # AccountOf[intent[q]] \/ day[p] # day[q]

LEMMA BudgetStep ==
    ASSUME TypeOK, Budget, WithinDailyLimit, [Next]_vars
    PROVE  Budget' /\ WithinDailyLimit'
<1>1. CASE UNCHANGED <<riskTables, assessment, orders, callVars, pc>>
    BY <1>1 DEF Budget, WithinDailyLimit, riskTables, callVars, argumentVars, localVars
<1>2. ASSUME NEW p \in Runtimes, OthersStay(p), pc'[p] # "commit", UNCHANGED reserved
      PROVE  Budget' /\ WithinDailyLimit'
    BY <1>2 DEF Budget, WithinDailyLimit, OthersStay
<1>3. ASSUME NEW p \in Runtimes, Quiet(p) \/ Lookup(p)
      PROVE  Budget' /\ WithinDailyLimit'
    BY <1>3, <1>2, QuietStep, LookupStep DEF tables, riskTables
<1>4. ASSUME NEW p \in Runtimes, AppendAssessment(p) \/ HandOff(p)
      PROVE  Budget' /\ WithinDailyLimit'
    BY <1>4, <1>2, AppendStep, HandOffStep DEF riskTables
<1>5. ASSUME NEW p \in Runtimes,
             PersistFindsDecision(p) \/ PersistRejected(p) \/ PersistApproved(p)
      PROVE  Budget' /\ WithinDailyLimit'
    <2>1. pc'[p] \in {"append", "budget"} /\ UNCHANGED reserved
        BY <1>5 DEF PersistFindsDecision, PersistRejected, PersistApproved, Goto,
                    TypeOK, tables, riskTables
    <2> QED BY <1>5, <1>2, <2>1, PersistStep
<1>6. ASSUME NEW p \in Runtimes, ReadBudget(p)
      PROVE  Budget' /\ WithinDailyLimit'
    <2>1. /\ OthersStay(p)
          /\ intent' = intent
          /\ day' = day
        BY <1>6, PersistStep
    <2>2. /\ UNCHANGED reserved
          /\ total'[p] = reserved[AccountOf[intent[p]]][day[p]]
          /\ DayLockFree(AccountOf[intent[p]], day[p])
        BY <1>6 DEF ReadBudget, TypeOK, tables, riskTables
    <2> QED BY <2>1, <2>2 DEF Budget, WithinDailyLimit, OthersStay, DayLockFree
<1>7. ASSUME NEW p \in Runtimes, CommitDecision(p)
      PROVE  Budget' /\ WithinDailyLimit'
    <2> DEFINE account == AccountOf[intent[p]]
    <2>1. /\ OthersStay(p)
          /\ intent' = intent
          /\ day' = day
          /\ pc[p] = "commit"
          /\ pc'[p] = "append"
        BY <1>7, PersistStep DEF CommitDecision, Goto, TypeOK
    <2>2. /\ account \in Accounts
          /\ day[p] \in Days
          /\ Notional[intent[p]] \in Nat
          /\ total[p] = reserved[account][day[p]]
        BY <2>1, RuntimeAssumption DEF TypeOK, Budget
    <2>3. CASE UNCHANGED reserved
        BY <1>2, <2>1, <2>3
    <2>4. CASE /\ total[p] + Notional[intent[p]] <= DailyLimit
               /\ reserved' = [reserved EXCEPT ![account][day[p]] =
                                    @ + Notional[intent[p]]]
        <3>1. \A a \in Accounts, d \in Days :
                reserved'[a][d] = IF a = account /\ d = day[p]
                                  THEN total[p] + Notional[intent[p]]
                                  ELSE reserved[a][d]
            BY <2>2, <2>4 DEF TypeOK
        <3>2. WithinDailyLimit'
            BY <2>4, <3>1 DEF WithinDailyLimit
        <3>3. ASSUME NEW q \in Runtimes, pc'[q] = "commit"
              PROVE  total'[q] = reserved'[AccountOf[intent'[q]]][day'[q]]
            <4>1. /\ q # p
                  /\ pc[q] = "commit"
                  /\ intent[q] \in Intents
                  /\ AccountOf[intent[q]] \in Accounts
                  /\ day[q] \in Days
                  /\ total'[q] = total[q]
                BY <2>1, <3>3, RuntimeAssumption DEF OthersStay, TypeOK
            <4>2. AccountOf[intent[q]] # account \/ day[q] # day[p]
                BY <2>1, <4>1 DEF Budget
            <4> QED BY <2>1, <3>1, <4>1, <4>2 DEF Budget
        <3> QED BY <2>1, <3>2, <3>3 DEF Budget, OthersStay
    <2> QED BY <1>7, <2>3, <2>4 DEF CommitDecision
<1> QED BY <1>1, <1>3, <1>4, <1>5, <1>6, <1>7, StepCases

(* However many processes assess at once, the reservations of an account   *)
(* and day stay within the daily limit (PostgresRiskStore.persist).        *)
THEOREM DailyLimitHolds == Spec => []WithinDailyLimit
<1>1. Init => Budget /\ WithinDailyLimit
    BY RuntimeAssumption DEF Init, Budget, WithinDailyLimit
<1>2. TypeOK /\ Budget /\ WithinDailyLimit /\ [Next]_vars => (Budget /\ WithinDailyLimit)'
    BY BudgetStep
<1> QED BY <1>1, <1>2, TypeCorrect, PTL DEF Spec
--------------------------------------------------------------------------------
(***************************************************************************)
(* The evidence of an intent.  A call inside the transaction holds its     *)
(* intent alone, the intent is undecided and the candidate approves; a     *)
(* call past it carries the decision that was stored; a call about to hand *)
(* off has a stored assessment that approves.                              *)
(***************************************************************************)

Undecided ==
    \A p \in Runtimes :
        pc[p] \in {"budget", "commit"} =>
            /\ risk[p] = "APPROVE"
            /\ decision[intent[p]] = "none"
            /\ \A q \in Runtimes \ {p} :
                    pc[q] \in {"budget", "commit"} => intent[q] # intent[p]

Carried ==
    \A p \in Runtimes : pc[p] = "append" => risk[p] = decision[intent[p]]

Handed ==
    \A p \in Runtimes : pc[p] = "handoff" => Approves(assessment[intent[p]])

Evidence ==
    /\ Undecided
    /\ Carried
    /\ Handed
    /\ ReservedOrAlerted
    /\ AssessmentFollowsDecision
    /\ OrdersAreApproved

\* What a step does to the evidence of all intents: nothing that is there
\* changes.
Immutable ==
    \A i \in Intents :
        /\ decision[i] # "none" => decision'[i] = decision[i]
        /\ reservedOn[i] # NoDay => reservedOn'[i] = reservedOn[i]
        /\ assessment[i] # NoAssessment => assessment'[i] = assessment[i]

LEMMA EvidenceStep ==
    ASSUME TypeOK, Evidence, [Next]_vars
    PROVE  Evidence' /\ Immutable
<1> USE DEF Evidence
<1>1. CASE UNCHANGED <<riskTables, assessment, orders, callVars, pc>>
    <2>1. UNCHANGED <<decision, reservedOn, alerted, assessment, orders, intent, risk, pc>>
        BY <1>1 DEF riskTables, callVars, argumentVars, localVars
    <2> QED BY <2>1 DEF Undecided, Carried, Handed, ReservedOrAlerted,
                    AssessmentFollowsDecision, OrdersAreApproved, Immutable
<1>2. ASSUME NEW p \in Runtimes, OthersStay(p),
             UNCHANGED <<decision, reservedOn, alerted, assessment, orders>>,
             pc'[p] \notin {"budget", "commit", "append"},
             pc'[p] = "handoff" => Approves(assessment[intent'[p]])
      PROVE  Evidence' /\ Immutable
    <2>1. Undecided' /\ Carried' /\ Handed'
        BY <1>2 DEF Undecided, Carried, Handed, OthersStay
    <2>2. ReservedOrAlerted' /\ AssessmentFollowsDecision' /\ OrdersAreApproved'
        BY <1>2 DEF ReservedOrAlerted, AssessmentFollowsDecision, OrdersAreApproved
    <2>3. Immutable
        BY <1>2 DEF Immutable
    <2> QED BY <2>1, <2>2, <2>3
<1>3. ASSUME NEW p \in Runtimes, Quiet(p) \/ Lookup(p)
      PROVE  Evidence' /\ Immutable
    BY <1>3, <1>2, QuietStep, LookupStep DEF tables, riskTables
<1>4. ASSUME NEW p \in Runtimes, HandOff(p)
      PROVE  Evidence' /\ Immutable
    <2>1. /\ OthersStay(p)
          /\ pc'[p] = "idle"
          /\ pc[p] = "handoff"
          /\ orders' = orders \cup {intent[p]}
          /\ UNCHANGED <<decision, reservedOn, alerted, assessment>>
        BY <1>4, HandOffStep DEF riskTables
    <2>2. Undecided' /\ Carried' /\ Handed'
        BY <2>1 DEF Undecided, Carried, Handed, OthersStay
    <2>3. ReservedOrAlerted' /\ AssessmentFollowsDecision' /\ Immutable
        BY <2>1 DEF ReservedOrAlerted, AssessmentFollowsDecision, Immutable
    <2>4. OrdersAreApproved'
        BY <2>1 DEF OrdersAreApproved, Handed
    <2> QED BY <2>2, <2>3, <2>4
<1>5. ASSUME NEW p \in Runtimes, AppendAssessment(p)
      PROVE  Evidence' /\ Immutable
    <2>1. /\ OthersStay(p)
          /\ pc[p] = "append"
          /\ pc'[p] \in {"idle", "handoff"}
          /\ pc'[p] = "handoff" => Approves(assessment'[intent[p]])
          /\ intent'[p] = intent[p]
          /\ UNCHANGED <<decision, reservedOn, alerted, orders>>
        BY <1>5, AppendStep DEF riskTables
    <2>2. \/ UNCHANGED assessment
          \/ /\ assessment[intent[p]] = NoAssessment
             /\ assessment' = [assessment EXCEPT ![intent[p]] =
                    [risk |-> risk[p], portfolio |-> portfolio[p]]]
        BY <1>5, AppendStep
    <2>3. intent[p] \in Intents /\ assessment \in [Intents -> Assessment \cup {NoAssessment}]
        BY DEF TypeOK
    <2>4. \A i \in Intents :
            /\ assessment[i] # NoAssessment => assessment'[i] = assessment[i]
            /\ Approves(assessment[i]) => assessment'[i] = assessment[i]
        BY <2>2, <2>3 DEF Approves, NoAssessment
    <2>5. \A i \in Intents :
            assessment'[i] # assessment[i] => i = intent[p] /\ assessment'[i].risk = risk[p]
        BY <2>2, <2>3
    <2>6. Immutable
        BY <2>1, <2>4 DEF Immutable
    <2>7. Undecided' /\ Carried'
        BY <2>1 DEF Undecided, Carried, OthersStay
    <2>8. Handed'
        <3> SUFFICES ASSUME NEW q \in Runtimes, pc'[q] = "handoff"
                     PROVE  Approves(assessment'[intent'[q]])
            BY DEF Handed
        <3>1. CASE q = p
            BY <2>1, <3>1
        <3>2. CASE q # p
            <4>1. Approves(assessment[intent[q]]) /\ intent'[q] = intent[q]
                BY <2>1, <3>2 DEF Handed, OthersStay
            <4>2. intent[q] \in Intents
                BY DEF TypeOK
            <4> QED BY <2>4, <4>1, <4>2
        <3> QED BY <3>1, <3>2
    <2>9. ReservedOrAlerted' /\ OrdersAreApproved'
        <3>1. \A i \in orders : i \in Intents
            BY DEF TypeOK
        <3> QED BY <2>1, <2>4, <3>1 DEF ReservedOrAlerted, OrdersAreApproved
    <2>10. AssessmentFollowsDecision'
        <3>1. risk[p] = decision[intent[p]]
            BY <2>1 DEF Carried
        <3> QED BY <2>1, <2>5, <3>1 DEF AssessmentFollowsDecision
    <2> QED BY <2>6, <2>7, <2>8, <2>9, <2>10
<1>6. ASSUME NEW p \in Runtimes,
             PersistFindsDecision(p) \/ PersistApproved(p) \/ ReadBudget(p)
      PROVE  Evidence' /\ Immutable
    <2>1. OthersStay(p) /\ intent' = intent
        BY <1>6, PersistStep
    <2>2. UNCHANGED <<decision, reservedOn, alerted, assessment, orders>>
        BY <1>6 DEF PersistFindsDecision, PersistApproved, ReadBudget, tables, riskTables
    <2>3. \/ pc'[p] = "append" /\ risk'[p] = decision[intent[p]]
          \/ /\ pc'[p] = "budget"
             /\ risk'[p] = "APPROVE"
             /\ decision[intent[p]] = "none"
             /\ IntentLockFree(intent[p])
          \/ pc'[p] = "commit" /\ pc[p] = "budget" /\ risk'[p] = risk[p]
        BY <1>6 DEF PersistFindsDecision, PersistApproved, ReadBudget, Goto, TypeOK,
                    callVars, localVars
    <2>4. Undecided'
        BY <2>1, <2>2, <2>3 DEF Undecided, OthersStay, IntentLockFree
    <2>5. Carried' /\ Handed'
        BY <2>1, <2>2, <2>3 DEF Carried, Handed, OthersStay
    <2>6. ReservedOrAlerted' /\ AssessmentFollowsDecision' /\ OrdersAreApproved' /\ Immutable
        BY <2>2 DEF ReservedOrAlerted, AssessmentFollowsDecision, OrdersAreApproved, Immutable
    <2> QED BY <2>4, <2>5, <2>6
\* The two steps that decide an intent.
<1>7. ASSUME NEW p \in Runtimes, PersistRejected(p) \/ CommitDecision(p)
      PROVE  Evidence' /\ Immutable
    <2> DEFINE i == intent[p]
    <2>1. OthersStay(p) /\ intent' = intent
        BY <1>7, PersistStep
    <2>2. i \in Intents /\ day[p] \in Days /\ risk[p] \in Verdict
        BY DEF TypeOK
    <2>3. /\ decision[i] = "none"
          /\ \A q \in Runtimes \ {p} : pc[q] \in {"budget", "commit"} => intent[q] # i
        BY <1>7 DEF PersistRejected, CommitDecision, IntentLockFree, Undecided
    <2>4. /\ pc'[p] = "append"
          /\ UNCHANGED <<assessment, orders>>
        BY <1>7 DEF PersistRejected, CommitDecision, Goto, TypeOK
    <2>5. \E verdict \in Verdict :
            /\ decision' = [decision EXCEPT ![i] = verdict]
            /\ risk'[p] = verdict
            /\ \/ /\ verdict = "APPROVE"
                  /\ reservedOn' = [reservedOn EXCEPT ![i] = day[p]]
                  /\ UNCHANGED alerted
               \/ /\ alerted' = alerted \cup {i}
                  /\ UNCHANGED reservedOn
        <3>1. CASE PersistRejected(p)
            BY <2>2, <3>1 DEF PersistRejected, callVars, localVars
        <3>2. CASE CommitDecision(p) /\ total[p] + Notional[i] <= DailyLimit
            <4>1. /\ decision' = [decision EXCEPT ![i] = "APPROVE"]
                  /\ reservedOn' = [reservedOn EXCEPT ![i] = day[p]]
                  /\ UNCHANGED <<risk, alerted>>
                BY <3>2 DEF CommitDecision
            <4>2. risk[p] = "APPROVE"
                BY <3>2 DEF CommitDecision, Undecided
            <4> QED BY <4>1, <4>2 DEF Verdict
        <3>3. CASE CommitDecision(p) /\ ~(total[p] + Notional[i] <= DailyLimit)
            BY <3>3 DEF CommitDecision, Verdict, TypeOK
        <3> QED BY <1>7, <3>1, <3>2, <3>3
    <2>6. PICK verdict \in Verdict :
            /\ decision' = [decision EXCEPT ![i] = verdict]
            /\ risk'[p] = verdict
            /\ \/ /\ verdict = "APPROVE"
                  /\ reservedOn' = [reservedOn EXCEPT ![i] = day[p]]
                  /\ UNCHANGED alerted
               \/ /\ alerted' = alerted \cup {i}
                  /\ UNCHANGED reservedOn
        BY <2>5
    <2>7. reservedOn[i] = NoDay /\ i \notin alerted
        BY <2>2, <2>3 DEF ReservedOrAlerted
    <2>8. /\ decision'[i] = verdict
          /\ verdict # "none"
          /\ \A j \in Intents \ {i} :
                /\ decision'[j] = decision[j]
                /\ reservedOn'[j] = reservedOn[j]
                /\ j \in alerted' <=> j \in alerted
        BY <2>2, <2>6 DEF TypeOK, Verdict
    <2>9. \/ verdict = "APPROVE" /\ reservedOn'[i] = day[p] /\ i \notin alerted'
          \/ reservedOn'[i] = NoDay /\ i \in alerted'
        BY <2>2, <2>6, <2>7 DEF TypeOK
    <2>10. Undecided'
        <3> SUFFICES ASSUME NEW q \in Runtimes, pc'[q] \in {"budget", "commit"}
                     PROVE  /\ risk'[q] = "APPROVE"
                            /\ decision'[intent'[q]] = "none"
                            /\ \A r \in Runtimes \ {q} :
                                  pc'[r] \in {"budget", "commit"} =>
                                      intent'[r] # intent'[q]
            BY DEF Undecided
        <3>1. q # p /\ pc[q] \in {"budget", "commit"} /\ intent[q] \in Intents
            BY <2>1, <2>4 DEF OthersStay, TypeOK
        <3> QED BY <2>1, <2>3, <2>4, <2>8, <3>1 DEF Undecided, OthersStay
    <2>11. Carried'
        <3> SUFFICES ASSUME NEW q \in Runtimes, pc'[q] = "append"
                     PROVE  risk'[q] = decision'[intent'[q]]
            BY DEF Carried
        <3>1. CASE q = p
            BY <2>1, <2>6, <2>8, <3>1
        <3>2. CASE q # p
            <4>1. /\ risk'[q] = decision[intent[q]]
                  /\ risk[q] \in Verdict
                  /\ risk'[q] = risk[q]
                  /\ intent[q] \in Intents
                BY <2>1, <3>2 DEF Carried, OthersStay, TypeOK
            <4>2. intent[q] # i
                BY <2>3, <4>1 DEF Verdict
            <4> QED BY <2>1, <2>8, <4>1, <4>2
        <3> QED BY <3>1, <3>2
    <2>12. Handed' /\ OrdersAreApproved'
        BY <2>1, <2>4 DEF Handed, OrdersAreApproved, OthersStay
    <2>13. ReservedOrAlerted'
        BY <2>2, <2>8, <2>9, RuntimeAssumption DEF ReservedOrAlerted
    <2>14. AssessmentFollowsDecision'
        <3>1. assessment[i] = NoAssessment
            BY <2>2, <2>3 DEF AssessmentFollowsDecision, TypeOK, Assessment, Verdict
        <3> QED BY <2>4, <2>8, <3>1 DEF AssessmentFollowsDecision
    <2>15. Immutable
        BY <2>3, <2>4, <2>7, <2>8 DEF Immutable
    <2> QED BY <2>10, <2>11, <2>12, <2>13, <2>14, <2>15
<1> QED BY <1>1, <1>3, <1>4, <1>5, <1>6, <1>7, StepCases

LEMMA EvidenceInductive == Spec => []Evidence
<1>1. Init => Evidence
    BY DEF Init, Evidence, Undecided, Carried, Handed, ReservedOrAlerted,
           AssessmentFollowsDecision, OrdersAreApproved
<1>2. TypeOK /\ Evidence /\ [Next]_vars => Evidence'
    BY EvidenceStep
<1> QED BY <1>1, <1>2, TypeCorrect, PTL DEF Spec

(* Every decision that is recorded has a reservation or an alert, and never *)
(* both (PostgresRiskStore.persist).                                       *)
THEOREM DecisionsReserveOrAlert == Spec => []ReservedOrAlerted
<1>1. Evidence => ReservedOrAlerted
    BY DEF Evidence
<1> QED BY <1>1, EvidenceInductive, PTL

(* A stored assessment carries the decision stored for its intent          *)
(* (PaperRuntime.assess).                                                  *)
THEOREM AssessmentsFollowDecisions == Spec => []AssessmentFollowsDecision
<1>1. Evidence => AssessmentFollowsDecision
    BY DEF Evidence
<1> QED BY <1>1, EvidenceInductive, PTL

(* An order rests on a stored assessment that approves it                  *)
(* (PaperRuntime.assess_and_submit).                                       *)
THEOREM OrdersRestOnApproval == Spec => []OrdersAreApproved
<1>1. Evidence => OrdersAreApproved
    BY DEF Evidence
<1> QED BY <1>1, EvidenceInductive, PTL

(* Decisions, reservations and assessments are written once                *)
(* (PostgresRiskStore.persist, PostgresPreTradeAssessmentStore.append).    *)
THEOREM EvidenceNeverRevised == Spec => EvidenceIsImmutable
<1>1. TypeOK /\ Evidence /\ [Next]_vars => [Immutable]_vars
    BY EvidenceStep
<1>2. [][Immutable]_vars => EvidenceIsImmutable
    BY PTL DEF EvidenceIsImmutable, Immutable
<1> QED BY <1>1, <1>2, EvidenceInductive, TypeCorrect, PTL DEF Spec
================================================================================
