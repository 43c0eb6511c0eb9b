------------------------------ MODULE PaperOrder ------------------------------
(***************************************************************************)
(* The paper order of paper_execution.PaperOrder: its status graph, fills  *)
(* and amendments, as functions from the order before to the order after.  *)
(* The broker adapter, the OMS and the replay of the OMS event log all use *)
(* the same ones.  Prices are left out: they enter the checks only as      *)
(* "price > 0", a condition on the caller's input.                         *)
(***************************************************************************)
EXTENDS Integers

OrderStatus ==
    {"PROPOSED", "RISK_PENDING", "RISK_REJECTED", "APPROVED",
     "SUBMISSION_PENDING", "SUBMITTED", "ACKNOWLEDGED", "PARTIALLY_FILLED",
     "FILLED", "CANCEL_PENDING", "CANCELLED", "REJECTED", "EXPIRED", "UNKNOWN",
     "RECONCILIATION_REQUIRED"}

\* quantity is intent.quantity as amended so far, filled is filled_quantity.
Order == [quantity: Nat, filled: Nat, status: OrderStatus]

NewOrder(quantity) == [quantity |-> quantity, filled |-> 0, status |-> "PROPOSED"]

\* The table _TRANSITIONS.
Transitions ==
    ({"PROPOSED"} \X {"RISK_PENDING", "CANCELLED"})
    \cup ({"RISK_PENDING"} \X {"APPROVED", "RISK_REJECTED"})
    \cup ({"APPROVED"} \X {"SUBMISSION_PENDING", "CANCELLED"})
    \cup ({"SUBMISSION_PENDING"} \X {"SUBMITTED", "REJECTED", "UNKNOWN"})
    \cup ({"SUBMITTED"} \X {"ACKNOWLEDGED", "REJECTED", "UNKNOWN"})
    \cup ({"ACKNOWLEDGED"} \X {"PARTIALLY_FILLED", "FILLED", "CANCEL_PENDING", "EXPIRED"})
    \cup ({"PARTIALLY_FILLED"} \X {"PARTIALLY_FILLED", "FILLED", "CANCEL_PENDING"})
    \cup ({"CANCEL_PENDING"} \X {"CANCELLED", "UNKNOWN"})

\* The statuses that _TRANSITIONS has no row for.
Terminal ==
    {"RISK_REJECTED", "FILLED", "CANCELLED", "REJECTED", "EXPIRED", "UNKNOWN",
     "RECONCILIATION_REQUIRED"}

CanMove(o, status) == <<o.status, status>> \in Transitions

Successors(o) == {status \in OrderStatus : CanMove(o, status)}

Move(o, status) == [o EXCEPT !.status = status]

\* Mutant of Working: an order that is filled still counts as working.
WorkingOrFilled(o) == o.status \in {"ACKNOWLEDGED", "PARTIALLY_FILLED", "FILLED"}

\* Every fill, amendment and cancellation requires one of these two statuses.
Working(o) == o.status \in {"ACKNOWLEDGED", "PARTIALLY_FILLED"}

CanFill(o, quantity) ==
    /\ Working(o)
    /\ quantity > 0
    /\ quantity <= o.quantity - o.filled

Fill(o, quantity) ==
    [o EXCEPT !.filled = @ + quantity,
              !.status = IF o.filled + quantity = o.quantity
                         THEN "FILLED" ELSE "PARTIALLY_FILLED"]

\* Mutant of CanAmend: the filled quantity is not looked at.
CanAmendFreely(o, quantity) == Working(o)

\* An amendment may reach down to the filled quantity, that included.
CanAmend(o, quantity) == Working(o) /\ quantity >= o.filled

Amend(o, quantity) == [o EXCEPT !.quantity = quantity]
================================================================================
