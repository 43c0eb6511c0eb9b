--------------------------- MODULE OperationalAlerts ---------------------------
(***************************************************************************)
(* The alert record that PostgresOperationalAlertStore keeps for one       *)
(* fingerprint, and the two operations that change it.  Both run inside    *)
(* one transaction that is serialised per fingerprint                      *)
(* (pg_advisory_xact_lock) or per row (SELECT ... FOR UPDATE), so each is  *)
(* a function from the record before to the record after.                  *)
(***************************************************************************)
EXTENDS Integers

AlertStatus == {"OPEN", "ACKNOWLEDGED", "RESOLVED"}

\* openedAt is the row's opened_at, lastAt the newest occurred_at of the
\* alert's events.  A fingerprint that never had an alert reads like a
\* resolved one: neither is returned by "status <> 'RESOLVED'".
Alert == [status: AlertStatus, openedAt: Nat, lastAt: Nat]

NeverRaised == [status |-> "RESOLVED", openedAt |-> 0, lastAt |-> 0]

Active(a) == a.status # "RESOLVED"

\* raise_alert_in_transaction: an active alert of the fingerprint is returned
\* as it is; otherwise a new row and its OPEN event are inserted.
RaiseAlert(a, when) ==
    IF Active(a)
    THEN a
    ELSE [status |-> "OPEN", openedAt |-> when, lastAt |-> when]

\* The checks of transition_in_transaction: OPEN is not a target, a resolved
\* alert does not move, and time does not run backwards.
CanTransition(a, status, when) ==
    /\ status # "OPEN"
    /\ Active(a)
    /\ when >= a.openedAt
    /\ when >= a.lastAt

TransitionAlert(a, status, when) ==
    [a EXCEPT !.status = status, !.lastAt = when]
================================================================================
