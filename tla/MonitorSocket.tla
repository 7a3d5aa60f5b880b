--------------------------- MODULE MonitorSocket ---------------------------
(***************************************************************************)
(* The page of the monitor stream (frontend_web, useMonitorSocket and the  *)
(* monitor route) over MonitorServer. The hook keeps one current WebSocket,*)
(* a ping/poll interval, a reconnect timer and a count of attempts in      *)
(* refs. Its handlers run one at a time, but those of a socket it has let  *)
(* go still run when that socket's close event arrives: close() only       *)
(* starts the closing of a connection.                                     *)
(***************************************************************************)
EXTENDS MonitorServer

CONSTANTS
  MaxReconnectAttempts,
  MaxDrops,     \* bound: connections the network or the server ends
  MaxPresses,   \* bound: uses of the reconnect button
  MaxTransit,   \* bound: no poll is sent while more messages are in transit
  NoSocket

ASSUME NoSocketAssumption == NoSocket \notin Sockets
ASSUME AttemptAssumption  ==
  {MaxReconnectAttempts, MaxDrops, MaxPresses, MaxTransit} \subseteq Nat

VARIABLES
  sock,       \* each WebSocket: "failing" and "closing" have their close event to come
  ws,         \* wsRef
  attempts,   \* reconnectAttemptRef
  timers,     \* how many reconnect timeouts are pending
  timerRef,   \* whether reconnectTimerRef is one of them
  intervals,  \* sockets with a running ping/poll interval
  beatRef,    \* the one pingTimerRef and pollTimerRef are for
  connection, \* the state the page shows
  page,       \* the signals and alerts the page shows
  mounted, drops, presses

hookVars   == <<sock, ws, attempts, timers, timerRef, intervals, beatRef, connection, mounted>>
clientVars == <<hookVars, page, drops, presses>>
vars       == <<serverVars, clientVars>>

GaveUp == attempts > MaxReconnectAttempts

\* What the handlers change: one record, updated by the functions below in the
\* order of the code, and stored back by Store.
Hook == [sock |-> sock, ws |-> ws, attempts |-> attempts, timers |-> timers,
         timerRef |-> timerRef, intervals |-> intervals, beatRef |-> beatRef,
         connection |-> connection]

Store(h) ==
  /\ sock' = h.sock /\ ws' = h.ws /\ attempts' = h.attempts
  /\ timers' = h.timers /\ timerRef' = h.timerRef
  /\ intervals' = h.intervals /\ beatRef' = h.beatRef
  /\ connection' = h.connection

ClearTimers(h) ==
  [h EXCEPT !.intervals = @ \ {h.beatRef}, !.beatRef = NoSocket,
            !.timers = IF h.timerRef THEN @ - 1 ELSE @, !.timerRef = FALSE]

\* The end of a connection: one not yet open fails, an open one closes.
Ending(state) == CASE state = "connecting" -> "failing"
                   [] state = "open"       -> "closing"
                   [] OTHER                -> state

\* closeSocket: ws.close().
CloseSocket(h) ==
  [h EXCEPT !.ws = NoSocket,
            !.sock = IF h.ws = NoSocket THEN h.sock
                     ELSE [h.sock EXCEPT ![h.ws] = Ending(h.sock[h.ws])]]

\* Mutant: gives up one attempt early.
ScheduleFewer(h) ==
  IF h.attempts + 1 >= MaxReconnectAttempts
  THEN [h EXCEPT !.attempts = @ + 1, !.connection = "degraded"]
  ELSE [h EXCEPT !.attempts = @ + 1, !.timers = @ + 1, !.timerRef = TRUE]

\* A timeout that was not cleared is forgotten, not stopped.
ScheduleReconnect(h) ==
  IF h.attempts + 1 > MaxReconnectAttempts
  THEN [h EXCEPT !.attempts = @ + 1, !.connection = "degraded"]
  ELSE [h EXCEPT !.attempts = @ + 1, !.timers = @ + 1, !.timerRef = TRUE]

\* connect(), with new the socket it creates.
Connect(h, new) ==
  LET c == CloseSocket(ClearTimers(h))
  IN [c EXCEPT !.sock[new] = "connecting", !.ws = new,
               !.connection = IF @ = "degraded" THEN @ ELSE "connecting"]

Free(h, new) == h.sock[new] = "free"

\* Mutant: the timers are not cleared.
LostWithTimers(h) == ScheduleReconnect([h EXCEPT !.connection = "degraded"])

\* onerror and onclose are the same function.
Lost(h) ==
  ScheduleReconnect([ClearTimers(h) EXCEPT !.connection = "degraded"])

\* Connections the hook has let go of: nothing they send is delivered.
Forget(h) ==
  LET gone == {s \in Sockets : h.sock[s] \notin {"connecting", "open"}}
  IN /\ conn' = [s \in Sockets |-> IF s \in gone THEN NoConn ELSE conn[s]]
     /\ up'   = [s \in Sockets |-> IF s \in gone THEN <<>> ELSE up[s]]
     /\ down' = [s \in Sockets |-> IF s \in gone THEN <<>> ELSE down[s]]

-----------------------------------------------------------------------------

Init ==
  /\ signals \in [Signals -> {"unborn", "there"}]
  /\ alerts \in [Alerts -> {"unborn", "there"}]
  /\ session = TRUE
  /\ conn = [s \in Sockets |-> NoConn]
  /\ up = [s \in Sockets |-> <<>>] /\ down = [s \in Sockets |-> <<>>]
  /\ \E first \in Sockets :
       /\ ws = first
       /\ sock = [s \in Sockets |-> IF s = first THEN "connecting" ELSE "free"]
  /\ attempts = 0 /\ timers = 0 /\ timerRef = FALSE
  /\ intervals = {} /\ beatRef = NoSocket
  /\ connection = "connecting"
  /\ page = [signals |-> {}, alerts |-> {}]
  /\ mounted = TRUE /\ drops = 0 /\ presses = 0

\* The handshake succeeds and onopen runs. The server accepts before it looks
\* at the session; without one it closes the connection.
Open(s) ==
  /\ sock[s] = "connecting"
  /\ sock' = [sock EXCEPT ![s] = "open"]
  /\ attempts' = 0
  /\ intervals' = intervals \cup {s} /\ beatRef' = s
  /\ IF session
     THEN /\ conn' = [conn EXCEPT ![s] = [NoConn EXCEPT !.phase = "serving"]]
          /\ up' = [up EXCEPT ![s] = <<"resync">>]
          /\ Send(s, Heartbeat)
     ELSE /\ conn' = [conn EXCEPT ![s] = [NoConn EXCEPT !.phase = "rejected"]]
          /\ UNCHANGED <<up, down>>
  /\ UNCHANGED <<signals, alerts, session, ws, timers, timerRef, connection, page,
                 mounted, drops, presses>>

\* The close frame of a rejected connection arrives.
Rejected(s) ==
  /\ sock[s] = "open" /\ conn[s].phase = "rejected"
  /\ LET h == [Hook EXCEPT !.sock[s] = "closing"] IN Store(h) /\ Forget(h)
  /\ UNCHANGED <<signals, alerts, session, page, mounted, drops, presses>>

\* The network or the server ends a connection.
Drop(s) ==
  /\ drops < MaxDrops
  /\ sock[s] \in {"connecting", "open"}
  /\ LET h == [Hook EXCEPT !.sock[s] = Ending(sock[s])] IN Store(h) /\ Forget(h)
  /\ drops' = drops + 1
  /\ UNCHANGED <<signals, alerts, session, page, mounted, presses>>

\* Mutant: only the error handler reconnects.
ClosedQuietly(s) ==
  /\ sock[s] \in {"failing", "closing"}
  /\ \E error \in BOOLEAN :
       /\ sock[s] = "failing" => error
       /\ LET h == [Hook EXCEPT !.sock[s] = "free"]
          IN Store(IF ~mounted THEN h ELSE IF error THEN Lost(h)
                   ELSE [ClearTimers(h) EXCEPT !.connection = "degraded"])
  /\ UNCHANGED <<serverVars, page, mounted, drops, presses>>

\* The events of the end of a connection: close, before it error when the
\* connection failed. Each runs the handler, whichever socket is the current.
Closed(s) ==
  /\ sock[s] \in {"failing", "closing"}
  /\ \E error \in BOOLEAN :
       /\ sock[s] = "failing" => error
       /\ LET h == [Hook EXCEPT !.sock[s] = "free"]
          IN Store(IF ~mounted THEN h ELSE IF error THEN Lost(Lost(h)) ELSE Lost(h))
  /\ UNCHANGED <<serverVars, page, mounted, drops, presses>>

\* A reconnect timeout runs connect, which does nothing once unmounted.
Reconnect ==
  /\ timers > 0 /\ mounted
  /\ \E new \in Sockets :
       LET fired == [Hook EXCEPT !.timers = @ - 1, !.timerRef = IF timers = 1 THEN FALSE ELSE @]
           h     == Connect(fired, new)
       IN Free(CloseSocket(fired), new) /\ Store(h) /\ Forget(h)
  /\ UNCHANGED <<signals, alerts, session, page, mounted, drops, presses>>

\* reconnect(): the button, which is there while the page is degraded.
Press ==
  /\ mounted /\ connection = "degraded" /\ presses < MaxPresses
  /\ \E new \in Sockets :
       LET pressed == CloseSocket([Hook EXCEPT !.attempts = 0])
           h       == Connect(pressed, new)
       IN Free(pressed, new) /\ Store(h) /\ Forget(h)
  /\ presses' = presses + 1
  /\ UNCHANGED <<signals, alerts, session, page, mounted, drops>>

\* The poll interval of a socket.
Poll(s) ==
  /\ s \in intervals /\ sock[s] = "open" /\ conn[s].phase # "rejected"
  /\ Len(up[s]) + Len(down[s]) <= MaxTransit
  /\ up' = [up EXCEPT ![s] = Append(@, "poll")]
  /\ UNCHANGED <<signals, alerts, session, conn, down, clientVars>>

\* Mutant: signals replace those shown, as alerts do.
ReceiveReplacing(s) ==
  /\ sock[s] = "open" /\ down[s] # <<>>
  /\ down' = [down EXCEPT ![s] = Tail(@)]
  /\ LET message == Head(down[s])
     IN /\ connection' = IF message.kind = "heartbeat" THEN "connected" ELSE connection
        /\ page' = CASE message.kind = "signals" -> [page EXCEPT !.signals = message.items]
                     [] message.kind = "alerts" -> [page EXCEPT !.alerts = message.items]
                     [] OTHER -> page
  /\ UNCHANGED <<signals, alerts, session, conn, up, sock, ws, attempts, timers, timerRef,
                 intervals, beatRef, mounted, drops, presses>>

\* onmessage.
Receive(s) ==
  /\ sock[s] = "open" /\ down[s] # <<>>
  /\ down' = [down EXCEPT ![s] = Tail(@)]
  /\ LET message == Head(down[s])
     IN /\ connection' = IF message.kind = "heartbeat" THEN "connected" ELSE connection
        /\ page' = CASE message.kind = "signals" ->
                          [page EXCEPT !.signals = IF message.snapshot THEN message.items
                                                   ELSE @ \cup message.items]
                     [] message.kind = "alerts" -> [page EXCEPT !.alerts = message.items]
                     [] OTHER -> page
  /\ UNCHANGED <<signals, alerts, session, conn, up, sock, ws, attempts, timers, timerRef,
                 intervals, beatRef, mounted, drops, presses>>

\* The clean-up of the effect, when the user leaves the page.
Unmount ==
  /\ mounted
  /\ mounted' = FALSE
  /\ LET h == CloseSocket(ClearTimers(Hook)) IN Store(h) /\ Forget(h)
  /\ UNCHANGED <<signals, alerts, session, page, drops, presses>>

-----------------------------------------------------------------------------

Backend == ChangeSignals \/ ChangeAlerts \/ ExpireSession
Handler(s) == PushSignals(s) \/ PushAlerts(s)

Next ==
  \/ (Backend \/ \E s \in Sockets : Handler(s)) /\ UNCHANGED clientVars
  \/ \E s \in Sockets : Open(s) \/ Rejected(s) \/ Drop(s) \/ Closed(s) \/ Poll(s) \/ Receive(s)
  \/ Reconnect \/ Press \/ Unmount

Spec == Init /\ [][Next]_vars

\* Connections open or fail, events and messages arrive, timers fire and
\* handlers run; nobody has to press, leave, drop or change anything.
Fairness ==
  /\ \A s \in Sockets :
       /\ WF_vars(Open(s)) /\ WF_vars(Rejected(s)) /\ WF_vars(Closed(s))
       /\ WF_vars(Poll(s)) /\ WF_vars(Receive(s))
       /\ WF_vars(Handler(s) /\ UNCHANGED clientVars)
  /\ WF_vars(Reconnect)

FairSpec == Spec /\ Fairness

-----------------------------------------------------------------------------

TypeOK ==
  /\ signals \in [Signals -> Presence] /\ alerts \in [Alerts -> Presence]
  /\ session \in BOOLEAN /\ mounted \in BOOLEAN /\ timerRef \in BOOLEAN
  /\ conn \in [Sockets -> Conn]
  /\ up \in [Sockets -> Seq(Commands)] /\ down \in [Sockets -> Seq(Message)]
  /\ sock \in [Sockets -> {"free", "connecting", "open", "failing", "closing"}]
  /\ ws \in Sockets \cup {NoSocket} /\ beatRef \in Sockets \cup {NoSocket}
  /\ intervals \subseteq Sockets
  /\ attempts \in Nat /\ timers \in Nat
  /\ drops \in 0..MaxDrops /\ presses \in 0..MaxPresses
  /\ connection \in {"connecting", "connected", "degraded"}
  /\ page \in [signals: SUBSET Signals, alerts: SUBSET Alerts]

\* What the page will show once the messages in transit on a socket arrived.
Snapshots(s) == {i \in DOMAIN down[s] : down[s][i].kind = "signals" /\ down[s][i].snapshot}
Arriving(s) ==
  UNION {down[s][i].items : i \in {i \in DOMAIN down[s] :
           down[s][i].kind = "signals" /\ \A j \in Snapshots(s) : j <= i}}
WillShow(s) == (IF Snapshots(s) = {} THEN page.signals ELSE {}) \cup Arriving(s)

\* A signal the server will not send again is on the page, on its way, or was
\* cut off by truncation (_dedupe_and_truncate, setSignals).
DeliveredOrCut ==
  \A s \in Sockets : sock[s] = "open" => conn[s].sent \ conn[s].cut \subseteq WillShow(s)

\* There is one reconnect timer and one polling interval, for the current
\* socket, and none once the page is left (clearTimers, closeSocket).
NoLeaks ==
  /\ timers <= 1
  /\ intervals \subseteq {ws}
  /\ \A s \in Sockets : sock[s] \in {"connecting", "open"} => s = ws
  /\ ~mounted => timers = 0 /\ ws = NoSocket

\* While the page is there something goes on: a connection that is polled or
\* under way, the events of its end, a timer; or the attempts are used up.
NeverAbandoned ==
  mounted => \/ timers > 0
             \/ GaveUp
             \/ /\ ws # NoSocket
                /\ sock[ws] # "free"
                /\ sock[ws] = "open" => ws \in intervals

\* "Connected" is not shown for a connection that was let go.
ConnectedIsCurrent ==
  mounted /\ connection = "connected" =>
    ws # NoSocket /\ sock[ws] \in {"open", "closing"}
=============================================================================
