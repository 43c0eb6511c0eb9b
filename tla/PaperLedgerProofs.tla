-------------------------- MODULE PaperLedgerProofs ---------------------------
(***************************************************************************)
(* Proofs about PaperLedger for every set of intents, fills and sequences. *)
(* The inductive invariant is the conjunction of the type invariant, the   *)
(* bound on the filled quantity and the shape of the cursor; each of the   *)
(* last two needs only the type invariant besides itself.                  *)
(***************************************************************************)
EXTENDS PaperLedger, TLAPS

(* What an operation may do to one order: any of these leaves a well-typed *)
(* order that is not overfilled, and none applies to a terminal one.       *)
OrderStep(o, p) ==
    \/ \E status \in Successors(o) : p = Move(o, status)
    \/ \E quantity \in Amounts : CanAmend(o, quantity) /\ p = Amend(o, quantity)
    \/ \E quantity \in Amounts : CanFill(o, quantity) /\ p = Fill(o, quantity)
    \/ Working(o) /\ p = Move(o, "CANCELLED")

(* Every order operation of PaperOrder keeps the order well typed and      *)
(* never fills it beyond its quantity.                                     *)
LEMMA OrderStepSound ==
    ASSUME NEW o \in Order, NEW p, OrderStep(o, p)
    PROVE  /\ p \in Order
           /\ o.filled <= o.quantity => p.filled <= p.quantity
<1>1. CASE \E status \in Successors(o) : p = Move(o, status)
    BY <1>1 DEF Successors, Move, Order
<1>2. CASE \E quantity \in Amounts : CanAmend(o, quantity) /\ p = Amend(o, quantity)
    BY <1>2, LedgerAssumption DEF CanAmend, Amend, Order
<1>3. CASE \E quantity \in Amounts : CanFill(o, quantity) /\ p = Fill(o, quantity)
    <2>1. PICK quantity \in Amounts : CanFill(o, quantity) /\ p = Fill(o, quantity)
        BY <1>3
    <2>2. /\ quantity \in Nat
          /\ o.filled \in Nat
          /\ o.quantity \in Nat
        BY LedgerAssumption DEF Order
    <2>3. p.filled = o.filled + quantity /\ p.quantity = o.quantity
        BY <2>1 DEF Fill, Order
    <2>4. p \in Order
        <3>1. p = [quantity |-> o.quantity, filled |-> o.filled + quantity,
                   status |-> IF o.filled + quantity = o.quantity
                              THEN "FILLED" ELSE "PARTIALLY_FILLED"]
            BY <2>1 DEF Fill, Order
        <3>2. o.filled + quantity \in Nat
            BY <2>2
        <3> QED BY <3>1, <3>2, <2>2 DEF Order, OrderStatus
    <2>5. p.filled <= p.quantity
        BY <2>1, <2>2, <2>3 DEF CanFill
    <2> QED BY <2>4, <2>5
<1>4. CASE Working(o) /\ p = Move(o, "CANCELLED")
    BY <1>4 DEF Move, Order, OrderStatus
<1> QED BY <1>1, <1>2, <1>3, <1>4 DEF OrderStep

(* No operation of PaperOrder applies to an order in a terminal status.    *)
LEMMA NoStepFromTerminal ==
    ASSUME NEW o, NEW p, o.status \in Terminal
    PROVE  ~OrderStep(o, p)
<1>1. ~Working(o)
    BY DEF Working, Terminal
<1>2. ASSUME NEW status
      PROVE  ~CanMove(o, status)
    BY DEF CanMove, Transitions, Terminal
<1> QED BY <1>1, <1>2 DEF OrderStep, Successors, CanAmend, CanFill

(* The book changes in at most one order, by an order operation, or gains  *)
(* a new order.                                                            *)
BookStep ==
    \/ UNCHANGED book
    \/ \E i \in Intents :
        \/ /\ book[i] = NoOrder
           /\ book' = [book EXCEPT ![i] = NewOrder(Quantity[i])]
        \/ \E p : /\ book[i] # NoOrder
                  /\ OrderStep(book[i], p)
                  /\ book' = [book EXCEPT ![i] = p]

(* The fills table keeps its rows or gains one well-typed row.             *)
FillsStep ==
    \/ UNCHANGED fills
    \/ \E f \in FillIds, i \in Intents, quantity \in Amounts :
        fills' = WithFill(f, [intent |-> i, quantity |-> quantity])

(* Receipt and cursor stay or move together.                               *)
ReceiptStep ==
    \/ UNCHANGED <<receipts, cursor>>
    \/ \E sequence \in Sequences : Receive(sequence)

(* Every step of the ledger is one step of each of its three parts.        *)
LEMMA StepParts ==
    ASSUME [Next]_ledgerVars
    PROVE  BookStep /\ FillsStep /\ ReceiptStep
<1>1. CASE UNCHANGED ledgerVars
    BY <1>1 DEF ledgerVars, BookStep, FillsStep, ReceiptStep
<1>2. ASSUME NEW i \in Intents, NEW quantity \in Amounts, AmendOrder(i, quantity)
      PROVE  BookStep /\ FillsStep
    BY <1>2 DEF AmendOrder, Exists, SetOrder, BookStep, OrderStep, FillsStep
<1>3. ASSUME NEW f \in FillIds, NEW i \in Intents, NEW quantity \in Amounts,
             IngestFill(f, i, quantity)
      PROVE  BookStep /\ FillsStep
    BY <1>3 DEF IngestFill, Exists, SetOrder, BookStep, OrderStep, FillsStep
<1>4. CASE OmsCall
    <2>1. ReceiptStep
        BY <1>4 DEF OmsCall, ReceiptStep
    <2>2. ASSUME NEW i \in Intents, Create(i)
          PROVE  BookStep /\ FillsStep
        BY <2>2 DEF Create, Exists, SetOrder, BookStep, FillsStep
    <2>3. ASSUME NEW i \in Intents, Transition(i)
          PROVE  BookStep /\ FillsStep
        BY <2>3 DEF Transition, Exists, SetOrder, BookStep, OrderStep, FillsStep
    <2> QED BY <1>4, <1>2, <1>3, <2>1, <2>2, <2>3 DEF OmsCall
<1>5. CASE \E sequence \in Sequences : ApplyBrokerEvent(sequence)
    <2>1. ReceiptStep
        BY <1>5 DEF ApplyBrokerEvent, ReceiptStep
    <2>2. ASSUME NEW i \in Intents, CancelOrder(i)
          PROVE  BookStep /\ FillsStep
        BY <2>2 DEF CancelOrder, Exists, SetOrder, BookStep, OrderStep, FillsStep
    <2>3. ASSUME UNCHANGED <<book, fills>>
          PROVE  BookStep /\ FillsStep
        BY <2>3 DEF BookStep, FillsStep
    <2> QED BY <1>5, <1>2, <1>3, <2>1, <2>2, <2>3 DEF ApplyBrokerEvent
<1> QED BY <1>1, <1>4, <1>5 DEF Next

(* The variables of the ledger have their types in every reachable state.  *)
THEOREM TypeCorrect == Spec => []TypeOK
<1>1. Init => TypeOK
    BY DEF Init, TypeOK
<1>2. TypeOK /\ [Next]_ledgerVars => TypeOK'
    <2> SUFFICES ASSUME TypeOK, [Next]_ledgerVars
                 PROVE  TypeOK'
        OBVIOUS
    <2>1. BookStep /\ FillsStep /\ ReceiptStep
        BY StepParts
    <2>2. (book \in [Intents -> Order \cup {NoOrder}])'
        <3>1. ASSUME NEW i \in Intents
              PROVE  NewOrder(Quantity[i]) \in Order
            BY LedgerAssumption DEF NewOrder, Order, OrderStatus
        <3>2. ASSUME NEW i \in Intents, NEW p, book[i] # NoOrder, OrderStep(book[i], p)
              PROVE  p \in Order
            <4>1. book[i] \in Order
                BY <3>2 DEF TypeOK
            <4> QED BY <4>1, <3>2, OrderStepSound
        <3> QED BY <2>1, <3>1, <3>2 DEF BookStep, TypeOK
    <2>3. (\A f \in DOMAIN fills : f \in FillIds /\ fills[f] \in FillRow)'
        <3>1. CASE UNCHANGED fills
            BY <3>1 DEF TypeOK
        <3>2. ASSUME NEW f \in FillIds, NEW i \in Intents, NEW quantity \in Amounts,
                     fills' = WithFill(f, [intent |-> i, quantity |-> quantity])
              PROVE  \A g \in DOMAIN fills' : g \in FillIds /\ fills'[g] \in FillRow
            BY <3>2, LedgerAssumption DEF WithFill, TypeOK, FillRow
        <3> QED BY <2>1, <3>1, <3>2 DEF FillsStep
    <2>4. (receipts \subseteq Sequences /\ cursor \in Nat)'
        BY <2>1, LedgerAssumption DEF ReceiptStep, Receive, TypeOK
    <2> QED BY <2>2, <2>3, <2>4 DEF TypeOK
<1> QED BY <1>1, <1>2, PTL DEF Spec

(* No sequence of fills, amendments and broker events overfills an order.  *)
THEOREM OrdersNeverOverfilled == Spec => []NeverOverfilled
<1>1. Init => NeverOverfilled
    BY DEF Init, NeverOverfilled, NoOrder
<1>2. NeverOverfilled /\ TypeOK /\ [Next]_ledgerVars => NeverOverfilled'
    <2> SUFFICES ASSUME NeverOverfilled, TypeOK, [Next]_ledgerVars,
                        NEW i \in Intents
                 PROVE  book'[i].filled <= book'[i].quantity
        BY DEF NeverOverfilled
    <2>1. CASE book'[i] = book[i]
        BY <2>1 DEF NeverOverfilled
    <2>2. CASE book'[i] = NewOrder(Quantity[i])
        BY <2>2, LedgerAssumption DEF NewOrder
    <2>3. CASE book[i] # NoOrder /\ OrderStep(book[i], book'[i])
        <3>1. book[i] \in Order
            BY <2>3 DEF TypeOK
        <3> QED BY <3>1, <2>3, OrderStepSound DEF NeverOverfilled
    <2>4. BookStep
        BY StepParts
    <2> QED BY <2>1, <2>2, <2>3, <2>4 DEF BookStep, TypeOK
<1> QED BY <1>1, <1>2, TypeCorrect, PTL DEF Spec

(* Receipts and cursor never drift apart, so no event is applied twice and *)
(* none that was applied is asked for again.                               *)
THEOREM CursorIsNewest == Spec => []CursorIsNewestReceipt
<1>1. Init => CursorIsNewestReceipt
    BY DEF Init, CursorIsNewestReceipt
<1>2. CursorIsNewestReceipt /\ TypeOK /\ [Next]_ledgerVars => CursorIsNewestReceipt'
    <2> SUFFICES ASSUME CursorIsNewestReceipt, TypeOK, [Next]_ledgerVars
                 PROVE  CursorIsNewestReceipt'
        OBVIOUS
    <2>1. ReceiptStep
        BY StepParts
    <2>2. CASE UNCHANGED <<receipts, cursor>>
        BY <2>2 DEF CursorIsNewestReceipt
    <2>3. ASSUME NEW sequence \in Sequences, Receive(sequence)
          PROVE  CursorIsNewestReceipt'
        <3>1. /\ sequence \in Nat
              /\ receipts \subseteq Nat
              /\ cursor \in Nat
            BY LedgerAssumption DEF TypeOK
        <3> QED BY <2>3, <3>1 DEF Receive, CursorIsNewestReceipt
    <2> QED BY <2>1, <2>2, <2>3 DEF ReceiptStep
<1> QED BY <1>1, <1>2, TypeCorrect, PTL DEF Spec

(* An order in a terminal status never changes again.                      *)
THEOREM TerminalOrdersAreFinal == Spec => TerminalIsFinal
<1>1. TypeOK /\ [Next]_ledgerVars => [TerminalStays]_ledgerVars
    <2> SUFFICES ASSUME TypeOK, [Next]_ledgerVars, NEW i \in Intents,
                        book[i].status \in Terminal
                 PROVE  book'[i] = book[i]
        BY DEF TerminalStays
    <2>1. BookStep
        BY StepParts
    <2>2. book[i] # NoOrder
        BY DEF NoOrder, Terminal
    <2>3. \A p : ~OrderStep(book[i], p)
        BY NoStepFromTerminal
    <2> QED BY <2>1, <2>2, <2>3 DEF BookStep, TypeOK
<1> QED BY <1>1, TypeCorrect, PTL DEF Spec, TerminalIsFinal
================================================================================
