--------------------------- MODULE MonitorServer ---------------------------
(***************************************************************************)
(* The server side of the monitor stream (libs/monitoring_realtime,        *)
(* ws_monitor): one handler per WebSocket connection, which answers the    *)
(* commands it receives with the user's signals and unresolved alerts and  *)
(* remembers which signals it has sent. A handler waits between the two    *)
(* messages of an answer, so signals and alerts change in between.         *)
(* Counts, task summaries, ping/pong and acknowledgements, which change    *)
(* nothing on either side, are left out; so are unsubscribe and channels,  *)
(* which the page never varies.                                            *)
(***************************************************************************)
EXTENDS Naturals, Sequences, FiniteSets

CONSTANTS
  Sockets,   \* bound: connections that exist at the same time
  Signals,   \* signals of the user, created and deleted at any time
  Alerts,    \* alerts of the user, raised and resolved at any time
  MaxItems   \* max_items_per_message

ASSUME MaxItemsAssumption == MaxItems \in Nat

VARIABLES
  signals,   \* rows of the user, which signals_source returns while there
  alerts,    \* alerts of the user; "gone" once resolved
  session,   \* whether the session token is valid
  conn,      \* the handler of each connection
  up, down   \* what is in transit to the server and to the page

serverVars == <<signals, alerts, session, conn, up, down>>

\* A handler: what it is doing, sent_ids["signals"], and those of them that
\* truncation cut off the message (kept only to state properties).
Conn == [phase: {"none", "serving", "alerts", "rejected"},
         sent: SUBSET Signals, cut: SUBSET Signals]
NoConn == [phase |-> "none", sent |-> {}, cut |-> {}]

Commands == {"resync", "poll"}
Message  == [kind: {"heartbeat"}, snapshot: {FALSE}, items: {{}}]
              \cup [kind: {"signals"}, snapshot: BOOLEAN, items: SUBSET Signals]
              \cup [kind: {"alerts"}, snapshot: {TRUE}, items: SUBSET Alerts]

Heartbeat           == [kind |-> "heartbeat", snapshot |-> FALSE, items |-> {}]
SignalsUpdate(n, i) == [kind |-> "signals", snapshot |-> n, items |-> i]
RiskAlert(i)        == [kind |-> "alerts", snapshot |-> TRUE, items |-> i]

Presence == {"unborn", "there", "gone"}
Later(p) == IF p = "unborn" THEN "there" ELSE "gone"
Listed(rows) == {x \in DOMAIN rows : rows[x] = "there"}

\* Mutant: the limit itself is not let through.
TruncateShort(items) ==
  {kept \in SUBSET items :
     Cardinality(kept) = IF Cardinality(items) >= MaxItems THEN MaxItems - 1 ELSE Cardinality(items)}

\* The most max_items_per_message lets through, whichever the source lists first.
Truncations(items) ==
  {kept \in SUBSET items :
     Cardinality(kept) = IF Cardinality(items) > MaxItems THEN MaxItems ELSE Cardinality(items)}

Send(s, message) == down' = [down EXCEPT ![s] = Append(@, message)]

-----------------------------------------------------------------------------

\* _push_updates up to the signals message. A resync forgets what was sent; a
\* poll sends what was not sent before. An empty answer is not sent. Ids count
\* as sent before the message is truncated.
PushSignals(s) ==
  /\ conn[s].phase = "serving"
  /\ up[s] # <<>>
  /\ up' = [up EXCEPT ![s] = Tail(@)]
  /\ LET resync == Head(up[s]) = "resync"
         seen   == IF resync THEN {} ELSE conn[s].sent
         cut    == IF resync THEN {} ELSE conn[s].cut
         fresh  == Listed(signals) \ seen
     IN \E kept \in Truncations(fresh) :
          /\ conn' = [conn EXCEPT ![s] = [phase |-> "alerts", sent |-> seen \cup fresh,
                                          cut |-> cut \cup (fresh \ kept)]]
          /\ IF kept = {} THEN down' = down
             ELSE Send(s, SignalsUpdate(resync, kept))
  /\ UNCHANGED <<signals, alerts, session>>

\* The rest of _push_updates: all the unresolved alerts, if there are any.
PushAlerts(s) ==
  /\ conn[s].phase = "alerts"
  /\ conn' = [conn EXCEPT ![s].phase = "serving"]
  /\ \E kept \in Truncations(Listed(alerts)) :
       IF kept = {} THEN down' = down ELSE Send(s, RiskAlert(kept))
  /\ UNCHANGED <<signals, alerts, session, up>>

\* What the rest of the backend does meanwhile. Ids are uuid4 values: a deleted
\* signal does not come back, and no operation reopens a resolved alert.
ChangeSignals ==
  /\ \E x \in Signals : signals' = [signals EXCEPT ![x] = Later(@)]
  /\ signals' # signals
  /\ UNCHANGED <<alerts, session, conn, up, down>>

ChangeAlerts ==
  /\ \E a \in Alerts : alerts' = [alerts EXCEPT ![a] = Later(@)]
  /\ alerts' # alerts
  /\ UNCHANGED <<signals, session, conn, up, down>>

\* The session token expires or is revoked; handlers that run are not told.
ExpireSession ==
  /\ session
  /\ session' = FALSE
  /\ UNCHANGED <<signals, alerts, conn, up, down>>
=============================================================================
