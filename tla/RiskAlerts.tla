----------------------------- MODULE RiskAlerts -----------------------------
(***************************************************************************)
(* Risk alerts (libs/risk_control). A request loads one alert or lists     *)
(* several, changes the copies and saves the whole rows one by one, each   *)
(* in a transaction of its own. Names, severities, messages and times are  *)
(* left out; a resolved alert may be old enough to be deleted at any time. *)
(***************************************************************************)
EXTENDS Naturals, FiniteSets

CONSTANTS
  Users, AlertIds,  \* ids are uuid4 values, never handed out twice
  Owner,            \* the user each alert is created for
  Keys,             \* idempotency keys of notification tasks
  NoUser,           \* nobody has acknowledged, resolved or notified
  Threads           \* request threads of the server process

ASSUME OwnerAssumption == Owner \in [AlertIds -> Users] /\ NoUser \notin Users

VARIABLES
  alerts,    \* the alert table
  submitted, \* the <<user, key>> of every notification job
  thread     \* what each request thread is doing

vars == <<alerts, submitted, thread>>

Statuses == {"open", "acknowledged", "resolved"}
Someone  == Users \cup {NoUser}

\* A row: its status and who acknowledged, resolved and notified it, of which
\* notification_status is "sent" when somebody did. Blank is the lack of a row.
Row == [is: {"unborn", "stored", "deleted"}, status: Statuses,
        acknowledgedBy: Someone, resolvedBy: Someone, notifiedBy: Someone]

Opened == [is |-> "stored", status |-> "open", acknowledgedBy |-> NoUser,
           resolvedBy |-> NoUser, notifiedBy |-> NoUser]
Blank  == [Opened EXCEPT !.is = "unborn"]

\* Mutant: a resolved alert can be acknowledged.
AcknowledgedAlways(row, u) == [row EXCEPT !.status = "acknowledged", !.acknowledgedBy = u]

\* acknowledge, resolve and mark_notified, on a copy.
Acknowledged(row, u) ==
  IF row.status = "resolved" THEN row
  ELSE [row EXCEPT !.status = "acknowledged", !.acknowledgedBy = u]

Resolved(row, u) == [row EXCEPT !.status = "resolved", !.resolvedBy = u]

\* Mutant: an alert is marked as notified whatever its status.
NotifiedOnly(row, u) == [row EXCEPT !.notifiedBy = u]

Notified(row, u) ==
  [IF row.status = "open" THEN Acknowledged(row, u) ELSE row EXCEPT !.notifiedBy = u]

\* A request: the copies it has yet to save.
Request == [todo: SUBSET AlertIds, copy: [AlertIds -> Row]]
Idle    == [todo |-> {}, copy |-> [a \in AlertIds |-> Blank]]

IsIdle(t) == thread[t].todo = {}

Take(t, new, S) ==
  thread' = [thread EXCEPT ![t] =
               [todo |-> S, copy |-> [a \in AlertIds |-> IF a \in S THEN new[a] ELSE Blank]]]

Stored(a) == alerts[a].is = "stored"

\* get_alert and list_alerts: the rows of the user. The accounts of a user are
\* the user's own, so the check of the account that follows passes.
OwnedBy(u) == {a \in AlertIds : Owner[a] = u /\ Stored(a)}

-----------------------------------------------------------------------------
(* Requests (service.py)                                                   *)

CreateAlert(a) ==
  /\ alerts[a].is = "unborn"
  /\ alerts' = [alerts EXCEPT ![a] = Opened]
  /\ UNCHANGED <<submitted, thread>>

AcknowledgeAlert(t, u, a) ==
  /\ IsIdle(t)
  /\ a \in OwnedBy(u)
  /\ Take(t, [b \in AlertIds |-> Acknowledged(alerts[b], u)], {a})
  /\ UNCHANGED <<alerts, submitted>>

ResolveAlert(t, u, a) ==
  /\ IsIdle(t)
  /\ a \in OwnedBy(u)
  /\ Take(t, [b \in AlertIds |-> Resolved(alerts[b], u)], {a})
  /\ UNCHANGED <<alerts, submitted>>

\* One alert that is missing or another user's refuses the whole batch.
BatchAcknowledge(t, u, S) ==
  /\ IsIdle(t)
  /\ S # {} /\ S \subseteq OwnedBy(u)
  /\ Take(t, [b \in AlertIds |-> Acknowledged(alerts[b], u)], S)
  /\ UNCHANGED <<alerts, submitted>>

\* The user's alerts that are neither resolved nor notified.
Pending(u) == {a \in OwnedBy(u) : alerts[a].status # "resolved" /\ alerts[a].notifiedBy = NoUser}

\* Mutant: the key is looked up for all users.
NotifyForAll(t, u, k) ==
  /\ IsIdle(t)
  /\ k \notin submitted
  /\ submitted' = submitted \cup {k}
  /\ Take(t, [b \in AlertIds |-> Notified(alerts[b], u)], Pending(u))
  /\ UNCHANGED alerts

\* notify_alert_task (api.py) runs notify_pending_alerts as a job. A key the
\* user has given before refuses it with 409, and a request without a key
\* gives the same one every time.
NotifyPending(t, u, k) ==
  /\ IsIdle(t)
  /\ <<u, k>> \notin submitted
  /\ submitted' = submitted \cup {<<u, k>>}
  /\ Take(t, [b \in AlertIds |-> Notified(alerts[b], u)], Pending(u))
  /\ UNCHANGED alerts

\* save_alert: the upsert of the whole copy, which also brings back a row
\* deleted meanwhile.
SaveAlert(t, a) ==
  /\ a \in thread[t].todo
  /\ alerts' = [alerts EXCEPT ![a] = thread[t].copy[a]]
  /\ Take(t, thread[t].copy, thread[t].todo \ {a})
  /\ UNCHANGED submitted

\* delete_resolved_alerts_older_than, of those resolved long enough ago.
Removable(u) == {a \in OwnedBy(u) : alerts[a].status = "resolved"}

\* cleanup_alerts_task runs cleanup_resolved_alerts as a job. A key that was
\* used refuses it, and then nothing is deleted.
CleanupResolved(u, S) ==
  /\ S # {} /\ S \subseteq Removable(u)
  /\ alerts' = [a \in AlertIds |-> IF a \in S THEN [Blank EXCEPT !.is = "deleted"] ELSE alerts[a]]
  /\ UNCHANGED <<submitted, thread>>

\* The process dies and is restarted: its requests are lost, the keys of the
\* jobs they ran as are not.
Crash ==
  /\ thread' = [t \in Threads |-> Idle]
  /\ UNCHANGED <<alerts, submitted>>

-----------------------------------------------------------------------------
Init ==
  /\ alerts = [a \in AlertIds |-> Blank]
  /\ submitted = {}
  /\ thread = [t \in Threads |-> Idle]

\* The routes that list, count or show alerts change nothing.
AlertRoutes(t) ==
  \/ \E u \in Users, a \in AlertIds : AcknowledgeAlert(t, u, a) \/ ResolveAlert(t, u, a)
  \/ \E u \in Users, S \in SUBSET AlertIds : BatchAcknowledge(t, u, S)
  \/ \E u \in Users, k \in Keys : NotifyPending(t, u, k)
  \/ \E a \in AlertIds : SaveAlert(t, a)

Next ==
  \/ \E a \in AlertIds : CreateAlert(a)
  \/ \E u \in Users, S \in SUBSET AlertIds : CleanupResolved(u, S)
  \/ \E t \in Threads : AlertRoutes(t)
  \/ Crash

Spec == Init /\ [][Next]_vars

-----------------------------------------------------------------------------
(* Properties                                                              *)

TypeOK ==
  /\ alerts \in [AlertIds -> Row]
  /\ submitted \subseteq Users \X Keys
  /\ thread \in [Threads -> Request]

\* What a row says fits together, whichever of two requests that loaded it
\* saves last: an alert somebody was notified of is not open any more, one
\* that is resolved or acknowledged says by whom, and only its owner ever
\* touches it (acknowledge, resolve, mark_notified, batch_acknowledge).
RowFits(a, row) ==
  /\ row.notifiedBy # NoUser => row.status # "open"
  /\ row.status = "resolved" <=> row.resolvedBy # NoUser
  /\ row.status = "acknowledged" => row.acknowledgedBy # NoUser
  /\ {row.acknowledgedBy, row.resolvedBy, row.notifiedBy} \subseteq {NoUser, Owner[a]}

RowsFit == \A a \in AlertIds : RowFits(a, alerts[a])

=============================================================================
