----------------------------- MODULE PaperLedger ------------------------------
(***************************************************************************)
(* What the durable paper OMS promises, with the event log left out: a     *)
(* book of current orders, the fills accepted for them, and for the one    *)
(* broker source the receipts and the cursor of its event stream.  Every   *)
(* operation is one atomic step; a broker event moves the order, the       *)
(* receipt and the cursor together or not at all.                          *)
(***************************************************************************)
EXTENDS Integers, PaperOrder

CONSTANTS
    Intents,      \* order intents
    Quantity,     \* the quantity each intent asks for
    Amounts,      \* quantities a fill or an amendment may carry
    FillIds,      \* external_fill_id values
    Sequences     \* sequence numbers of broker events

ASSUME LedgerAssumption ==
    /\ Quantity \in [Intents -> Nat \ {0}]
    /\ Amounts \subseteq Nat
    /\ Sequences \subseteq Nat \ {0}

VARIABLES
    book,         \* the current order of every intent that has one
    fills,        \* rows of the fills table, by external_fill_id
    receipts,     \* sequences of the rows of broker_sync_events
    cursor        \* the row of broker_event_cursors, 0 without one

ledgerVars == <<book, fills, receipts, cursor>>

\* What book holds for an intent without an order.
NoOrder == [quantity |-> 0, filled |-> 0, status |-> "NONE"]

FillRow == [intent: Intents, quantity: Nat]

TypeOK ==
    /\ book \in [Intents -> Order \cup {NoOrder}]
    /\ \A f \in DOMAIN fills : f \in FillIds /\ fills[f] \in FillRow
    /\ receipts \subseteq Sequences
    /\ cursor \in Nat

Exists(i) == book[i] # NoOrder

Init ==
    /\ book = [i \in Intents |-> NoOrder]
    /\ fills = [f \in {} |-> NoOrder]
    /\ receipts = {}
    /\ cursor = 0
--------------------------------------------------------------------------------
SetOrder(i, o) == book' = [book EXCEPT ![i] = o]

WithFill(f, row) ==
    [g \in DOMAIN fills \cup {f} |-> IF g = f THEN row ELSE fills[g]]

Create(i) ==
    /\ UNCHANGED fills
    /\ ~Exists(i)
    /\ SetOrder(i, NewOrder(Quantity[i]))

Transition(i) ==
    /\ UNCHANGED fills
    /\ Exists(i)
    /\ \E status \in Successors(book[i]) : SetOrder(i, Move(book[i], status))

AmendOrder(i, quantity) ==
    /\ UNCHANGED fills
    /\ Exists(i)
    /\ CanAmend(book[i], quantity)
    /\ SetOrder(i, Amend(book[i], quantity))

\* ORDER_CANCELLED: the order passes through CANCEL_PENDING in one commit.
CancelOrder(i) ==
    /\ UNCHANGED fills
    /\ Exists(i)
    /\ Working(book[i])
    /\ SetOrder(i, Move(book[i], "CANCELLED"))

\* A fill changes the order once per external_fill_id; a repeat of the same
\* row changes nothing and a conflicting one is refused.
IngestFill(f, i, quantity) ==
    \/ /\ f \notin DOMAIN fills
       /\ fills' = WithFill(f, [intent |-> i, quantity |-> quantity])
       /\ Exists(i)
       /\ CanFill(book[i], quantity)
       /\ SetOrder(i, Fill(book[i], quantity))
    \/ /\ f \in DOMAIN fills
       /\ fills[f] = [intent |-> i, quantity |-> quantity]
       /\ UNCHANGED <<book, fills>>

\* A call of one of the OMS's own methods.
OmsCall ==
    /\ UNCHANGED <<receipts, cursor>>
    /\ \E i \in Intents :
        \/ Create(i)
        \/ Transition(i)
        \/ \E quantity \in Amounts :
            \/ AmendOrder(i, quantity)
            \/ \E f \in FillIds : IngestFill(f, i, quantity)

\* The receipt and the cursor of a broker event that is applied.
Receive(sequence) ==
    /\ sequence \notin receipts
    /\ sequence > cursor
    /\ receipts' = receipts \cup {sequence}
    /\ cursor' = sequence

\* An acknowledgement, and the cancellation of an order that is not working,
\* leave only their receipt.
ApplyBrokerEvent(sequence) ==
    /\ Receive(sequence)
    /\ \/ UNCHANGED <<book, fills>>
       \/ \E i \in Intents :
            \/ CancelOrder(i)
            \/ \E quantity \in Amounts :
                \/ AmendOrder(i, quantity)
                \/ \E f \in FillIds : IngestFill(f, i, quantity)

Next ==
    \/ OmsCall
    \/ \E sequence \in Sequences : ApplyBrokerEvent(sequence)

Spec == Init /\ [][Next]_ledgerVars
--------------------------------------------------------------------------------
(***************************************************************************)
(* Properties                                                              *)
(***************************************************************************)

(* No order is ever filled beyond its quantity, although an amendment or a *)
(* replacement may lower the quantity between two fills (PaperOrder.fill   *)
(* with the guards of amend and of apply_broker_event).                    *)
NeverOverfilled ==
    \A i \in Intents : book[i].filled <= book[i].quantity

(* The cursor is the newest receipt, so order_events(after_sequence =      *)
(* cursor) never returns an event that has a receipt.                      *)
CursorIsNewestReceipt ==
    /\ \A s \in receipts : s <= cursor
    /\ cursor # 0 => cursor \in receipts

TerminalStays ==
    \A i \in Intents : book[i].status \in Terminal => book'[i] = book[i]

(* An order that reached a terminal status keeps it, its quantity and its  *)
(* filled quantity: no event, however late, moves it again.                *)
TerminalIsFinal == [][TerminalStays]_ledgerVars
================================================================================
