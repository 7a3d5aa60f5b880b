-------------------------- MODULE MCMonitorSocket --------------------------
(***************************************************************************)
(* The pages that keep themselves up to date, on small instances, and what *)
(* they must eventually do: the monitor page with its socket, and the      *)
(* trading page, which polls (PollingHook). A behaviour is in one of three *)
(* scopes: "stream", where rows change and connections end but the button  *)
(* is not pressed, "button", where the rows stay what they are and         *)
(* everything else happens, and "trading", where the user leaves it at once  *)
(* for the trading page.                                                   *)
(***************************************************************************)
EXTENDS MonitorSocket

CONSTANTS
  Scopes,
  Accounts, Slots, NoAccount, MaxContext, MaxChanges, MaxOrders, MaxFails

VARIABLES
  scope,
  version, selected, hook, hidden, request, changes, orders, fails,
  late  \* whether an order was answered after its account had been left

Trading == INSTANCE PollingHook

ASSUME TradingAssumption == Trading!Parameters

tradingVars == <<version, selected, hook, hidden, request, changes, orders, fails, late>>
mcvars      == <<vars, scope, tradingVars>>

MCInit ==
  /\ scope \in Scopes
  /\ Init
  /\ Listed(alerts) = {}
  /\ scope # "button" => Listed(signals) = {}
  /\ Trading!Init /\ late = FALSE

MonitorNext ==
  /\ Next
  /\ IF scope = "stream" THEN presses' = 0 /\ drops' <= 1
     ELSE signals' = signals /\ alerts' = alerts

AnsweredLate ==
  \E r \in Slots : Trading!At(r, "ordered") /\ request[r].of # selected /\ request'[r].at = "loading"

\* The user has left the monitor page, and the end of its socket is over.
Left == ~mounted /\ \A s \in Sockets : sock[s] = "free"

TradingNext ==
  \/ Unmount /\ UNCHANGED tradingVars
  \/ \E s \in Sockets : ~mounted /\ Closed(s) /\ UNCHANGED tradingVars
  \/ Left /\ Trading!Next /\ late' = (late \/ AnsweredLate) /\ UNCHANGED vars

MCNext ==
  /\ scope' = scope
  /\ IF scope = "trading" THEN TradingNext ELSE MonitorNext /\ UNCHANGED tradingVars

MCSpec == MCInit /\ [][MCNext]_mcvars /\ Fairness /\ Trading!Fairness

Stays   == [](session /\ mounted)
Online  == ws # NoSocket /\ ws \in intervals /\ sock[ws] = "open" /\ connection = "connected"
Settled == <>[]Online \/ <>[]GaveUp

\* While the session lasts and nobody presses the button, the page ends up
\* connected, or out of attempts (scheduleReconnect, onerror, onclose).
SettlesAlone == Stays /\ [](presses = 0) => Settled

\* The comment of the hook: it reconnects with backoff and is degraded past the
\* limit of attempts. So it settles, whoever presses the button (reconnect).
Settles == Stays => Settled

\* Until an order is answered late, the page shows the account selected: no
\* answer to an earlier selection gets through (fetchData, invalidateContext).
SerialView == ~late => Trading!ShowsSelected

\* The trading page waits for something, polls once and shows what is selected.
PageFits == Trading!Waiting /\ Trading!Refreshing /\ SerialView

\* The test of the hook: what an earlier loader answers late is not shown.
ShowsSelected == Trading!ShowsSelected

\* On a connection that lasts every signal reaches the page unless it is
\* deleted or cut off, and every alert unless it is resolved (_push_updates).
Reaches ==
  [](mounted) /\ <>[](connection = "connected") =>
    /\ \A x \in Signals :
         (signals[x] = "there") ~>
            (x \in page.signals \/ signals[x] = "gone" \/ x \in UNION {conn[s].cut : s \in Sockets})
    /\ \A a \in Alerts : (alerts[a] = "there") ~> (a \in page.alerts \/ alerts[a] = "gone")

\* Both pages end up showing what there is.
Arrives == Reaches /\ Trading!CatchesUp
=============================================================================
