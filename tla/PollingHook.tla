---------------------------- MODULE PollingHook ----------------------------
(***************************************************************************)
(* The trading page (frontend_web, routes/trading) over the hook that      *)
(* loads its data and polls it (usePolling). Selecting another account     *)
(* gives the hook another loader: its effect invalidates the context of    *)
(* the loads under way and starts again. A handler of an order awaits the  *)
(* answer of the server and then reloads, with the functions of the render *)
(* it was made in. One request stands for the three of a loader.           *)
(***************************************************************************)
EXTENDS Naturals, FiniteSets

CONSTANTS
  Accounts,
  Slots,       \* bound: requests of the page under way at a time
  NoAccount,
  MaxContext,  \* bound: selections of an account
  MaxChanges,  \* bound: changes of accounts by others than the page
  MaxOrders,   \* bound: orders placed or cancelled by the page
  MaxFails     \* bound: requests that fail

VARIABLES
  version,   \* what the server has of each account: rises with every change
  selected,  \* accountId
  hook,      \* the refs and the state of usePolling
  hidden,    \* document.hidden
  request,   \* the requests of the page
  changes, orders, fails

vars == <<version, selected, hook, hidden, request, changes, orders, fails>>

Parameters ==
  /\ NoAccount \notin Accounts
  /\ {MaxContext, MaxChanges, MaxOrders, MaxFails} \subseteq Nat

NoData == [of |-> NoAccount, version |-> 0]
Data   == [of: Accounts \cup {NoAccount}, version: Nat]

\* intervals are those that run in the browser, by the account they load;
\* interval is the account of the one intervalRef holds.
Hooks == [context: Nat, done: BOOLEAN, interval: Accounts \cup {NoAccount},
          intervals: [Accounts -> Nat], mounted: BOOLEAN,
          data: Data, error: BOOLEAN, loading: BOOLEAN]

\* A load is "loading" until the server has read what it answers (seen), an
\* order is "ordering" until the server has executed it.
Request == [at: {"none", "loading", "answered", "ordering", "ordered"},
            of: Accounts \cup {NoAccount}, context: Nat, silent: BOOLEAN,
            first: BOOLEAN, seen: Nat]

None == [at |-> "none", of |-> NoAccount, context |-> 0, silent |-> FALSE,
         first |-> FALSE, seen |-> 0]

At(r, step) == request[r].at = step
Loads(r)    == request[r].at \in {"loading", "answered"}
Current(r)  == Loads(r) /\ request[r].context = hook.context

-----------------------------------------------------------------------------
(* The functions of the hook, applied in the order of the code             *)

Stopped(h) == IF h.interval = NoAccount THEN h.intervals
              ELSE [h.intervals EXCEPT ![h.interval] = @ - 1]

StartInterval(h, a) == [h EXCEPT !.intervals = [Stopped(h) EXCEPT ![a] = @ + 1], !.interval = a]
StopInterval(h)     == [h EXCEPT !.intervals = Stopped(h), !.interval = NoAccount]

\* The start of fetchData.
Fetching(h, silent) == [h EXCEPT !.loading = @ \/ ~silent, !.error = FALSE]

\* Mutant: the interval goes on.
CleanUpPolling(h) == [h EXCEPT !.context = @ + 1]

\* The clean-up of the effect; that of the effect without an account is empty,
\* but the next effect invalidates the context itself.
CleanUp(h) == StopInterval([h EXCEPT !.context = @ + 1])

\* The effect of a new loader, and its first load.
Effect(h, a) ==
  StartInterval(Fetching([h EXCEPT !.data = NoData, !.error = FALSE, !.done = FALSE], FALSE), a)

\* fetchData of the render in which a was selected: the loader is that of a,
\* the context is that of the moment.
Load(r, a, silent, first, h) ==
  request' = [request EXCEPT ![r] =
    [at |-> "loading", of |-> a, context |-> h.context, silent |-> silent,
     first |-> first, seen |-> 0]]

-----------------------------------------------------------------------------

Init ==
  /\ version = [a \in Accounts |-> 0]
  /\ selected = NoAccount
  /\ hook = [context |-> 0, done |-> FALSE, interval |-> NoAccount,
             intervals |-> [a \in Accounts |-> 0], mounted |-> TRUE,
             data |-> NoData, error |-> FALSE, loading |-> FALSE]
  /\ hidden = FALSE
  /\ request = [r \in Slots |-> None]
  /\ changes = 0 /\ orders = 0 /\ fails = 0

\* The user selects another account.
Select(r, a) ==
  /\ hook.mounted /\ ~hidden /\ a # selected
  /\ hook.context < MaxContext
  /\ At(r, "none")
  /\ selected' = a
  /\ hook' = Effect(CleanUp(hook), a)
  /\ Load(r, a, FALSE, TRUE, hook')
  /\ UNCHANGED <<version, hidden, changes, orders, fails>>

\* The interval fires.
Tick(r) ==
  /\ At(r, "none")
  /\ \E a \in Accounts : hook.intervals[a] > 0 /\ Load(r, a, TRUE, FALSE, hook)
  /\ hook' = Fetching(hook, TRUE)
  /\ UNCHANGED <<version, selected, hidden, changes, orders, fails>>

\* visibilitychange, which is listened to while an account is selected.
Hide ==
  /\ hook.mounted /\ ~hidden
  /\ hidden' = TRUE
  /\ hook' = StopInterval(hook)
  /\ UNCHANGED <<version, selected, request, changes, orders, fails>>

\* Mutant: polling goes on only after the next selection.
ShowOnce(r) ==
  /\ hook.mounted /\ hidden /\ At(r, "none")
  /\ hidden' = FALSE
  /\ IF selected = NoAccount THEN UNCHANGED <<hook, request>>
     ELSE /\ hook' = Fetching(hook, TRUE)
          /\ Load(r, selected, TRUE, FALSE, hook)
  /\ UNCHANGED <<version, selected, changes, orders, fails>>

Show(r) ==
  /\ hook.mounted /\ hidden /\ At(r, "none")
  /\ hidden' = FALSE
  /\ IF selected = NoAccount THEN UNCHANGED <<hook, request>>
     ELSE /\ hook' = StartInterval(Fetching(hook, TRUE), selected)
          /\ Load(r, selected, TRUE, FALSE, hook)
  /\ UNCHANGED <<version, selected, changes, orders, fails>>

\* What the page renders: a skeleton, an error with a button to try again, or
\* the data with the orders and, unless it loads, a button to refresh.
Skeleton  == hook.loading /\ hook.data = NoData
ShowsData == ~Skeleton /\ ~hook.error /\ hook.data # NoData

\* reload() of the page as it is rendered, by one of the two buttons.
Reload(r) ==
  /\ hook.mounted /\ ~hidden /\ selected # NoAccount /\ At(r, "none")
  /\ (hook.error /\ ~Skeleton) \/ (ShowsData /\ ~hook.loading)
  /\ hook' = Fetching(hook, hook.done)
  /\ Load(r, selected, hook.done, FALSE, hook)
  /\ UNCHANGED <<version, selected, hidden, changes, orders, fails>>

\* The user cancels an order or trades, on the account selected.
Order(r) ==
  /\ hook.mounted /\ ~hidden /\ selected # NoAccount /\ ShowsData
  /\ At(r, "none") /\ orders < MaxOrders
  /\ request' = [request EXCEPT ![r] = [None EXCEPT !.at = "ordering", !.of = selected]]
  /\ orders' = orders + 1
  /\ UNCHANGED <<version, selected, hook, hidden, changes, fails>>

\* The clean-up of the effects, when the user leaves the page.
Unmount ==
  /\ hook.mounted
  /\ hook' = [CleanUp(hook) EXCEPT !.mounted = FALSE]
  /\ UNCHANGED <<version, selected, hidden, request, changes, orders, fails>>

-----------------------------------------------------------------------------
(* The server and its answers                                              *)

\* Another page, a batch or the market changes an account.
Change(a) ==
  /\ changes < MaxChanges
  /\ changes' = changes + 1
  /\ version' = [version EXCEPT ![a] = @ + 1]
  /\ UNCHANGED <<selected, hook, hidden, request, orders, fails>>

\* The server reads what it answers.
Serve(r) ==
  /\ At(r, "loading")
  /\ request' = [request EXCEPT ![r].at = "answered", ![r].seen = version[request[r].of]]
  /\ UNCHANGED <<version, selected, hook, hidden, changes, orders, fails>>

\* The server executes an order.
Execute(r) ==
  /\ At(r, "ordering")
  /\ version' = [version EXCEPT ![request[r].of] = @ + 1]
  /\ request' = [request EXCEPT ![r].at = "ordered"]
  /\ UNCHANGED <<selected, hook, hidden, changes, orders, fails>>

\* The end of fetchData: it counts while its context does. The load that an
\* effect began makes later ones silent, whatever its context.
Ended(r, h) ==
  [h EXCEPT !.loading = IF Current(r) /\ ~request[r].silent THEN FALSE ELSE @,
            !.done    = @ \/ request[r].first]

\* Mutant: without the check of the context.
AnswerAlways(r) ==
  /\ At(r, "answered")
  /\ hook' = IF ~hook.mounted THEN hook
             ELSE Ended(r, [hook EXCEPT !.data = [of |-> request[r].of, version |-> request[r].seen]])
  /\ request' = [request EXCEPT ![r] = None]
  /\ UNCHANGED <<version, selected, hidden, changes, orders, fails>>

Answer(r) ==
  /\ At(r, "answered")
  /\ hook' = CASE ~hook.mounted -> hook
               [] hook.mounted /\ Current(r) ->
                    Ended(r, [hook EXCEPT !.data = [of |-> request[r].of, version |-> request[r].seen]])
               [] OTHER -> Ended(r, hook)
  /\ request' = [request EXCEPT ![r] = None]
  /\ UNCHANGED <<version, selected, hidden, changes, orders, fails>>

\* Mutant: a load that fails leaves the loading state on.
FailLoading(r) ==
  /\ Loads(r) /\ fails < MaxFails
  /\ hook' = IF hook.mounted /\ Current(r)
             THEN [hook EXCEPT !.error = TRUE, !.done = @ \/ request[r].first] ELSE hook
  /\ fails' = fails + 1
  /\ request' = [request EXCEPT ![r] = None]
  /\ UNCHANGED <<version, selected, hidden, changes, orders>>

\* A load fails, on its way or at the server.
Fail(r) ==
  /\ Loads(r) /\ fails < MaxFails
  /\ hook' = CASE ~hook.mounted -> hook
               [] hook.mounted /\ Current(r) -> Ended(r, [hook EXCEPT !.error = TRUE])
               [] OTHER -> Ended(r, hook)
  /\ fails' = fails + 1
  /\ request' = [request EXCEPT ![r] = None]
  /\ UNCHANGED <<version, selected, hidden, changes, orders>>

\* The answer of an order: its handler reloads, by the functions of the render
\* it was made in, which are those of the account it was placed on.
Ordered(r) ==
  /\ At(r, "ordered")
  /\ hook' = IF hook.mounted THEN Fetching(hook, hook.done) ELSE hook
  /\ Load(r, request[r].of, hook.done, FALSE, hook)
  /\ UNCHANGED <<version, selected, hidden, changes, orders, fails>>

\* An order is refused, or its answer is lost: a message, no reload.
Refused(r) ==
  /\ request[r].at \in {"ordering", "ordered"} /\ fails < MaxFails
  /\ request' = [request EXCEPT ![r] = None]
  /\ fails' = fails + 1
  /\ UNCHANGED <<version, selected, hook, hidden, changes, orders>>

-----------------------------------------------------------------------------

Proceed(r) == Serve(r) \/ Answer(r) \/ Execute(r) \/ Ordered(r)

Next ==
  \/ \E r \in Slots, a \in Accounts : Select(r, a)
  \/ \E r \in Slots : Tick(r) \/ Show(r) \/ Reload(r) \/ Order(r)
  \/ \E r \in Slots : Proceed(r) \/ Fail(r) \/ Refused(r)
  \/ \E a \in Accounts : Change(a)
  \/ Hide \/ Unmount

Spec == Init /\ [][Next]_vars

\* Requests are answered and the interval fires; nobody has to select, order,
\* refresh, hide, leave or change anything.
Fairness ==
  /\ \A r \in Slots : WF_vars(Proceed(r))
  /\ WF_vars(\E r \in Slots : Tick(r))

-----------------------------------------------------------------------------

TypeOK ==
  /\ version \in [Accounts -> Nat] /\ selected \in Accounts \cup {NoAccount}
  /\ hook \in Hooks /\ hidden \in BOOLEAN
  /\ request \in [Slots -> Request]
  /\ changes \in 0..MaxChanges /\ orders \in 0..MaxOrders /\ fails \in 0..MaxFails

Watching == hook.mounted /\ selected # NoAccount

\* The page never waits for nothing: while it shows that it loads, or has
\* neither data nor an error to show, a load that will change that is under way,
\* although the loads of several renders come and go (setLoading, resetState).
Waiting ==
  Watching =>
    /\ hook.loading => \E r \in Slots : Current(r) /\ ~request[r].silent
    /\ hook.data = NoData /\ ~hook.error => \E r \in Slots : Current(r)

\* One interval polls, for the account selected, while the page is visible;
\* none is left behind by a selection, by hiding or by leaving the page
\* (startInterval, stopInterval).
Polls(a) == IF Watching /\ a = selected THEN 1 ELSE 0
Refreshing ==
  \A a \in Accounts : /\ hook.intervals[a] <= Polls(a)
                      /\ ~hidden => hook.intervals[a] = Polls(a)

\* The test of the hook: what an earlier loader answers late is not shown.
ShowsSelected == Watching /\ hook.data # NoData => hook.data.of = selected

\* An account that is watched long enough is shown as it is, whatever loads
\* overlapped, failed or came late (the interval, fetchData).
Shown(a) ==
  hook.data = [of |-> a, version |-> version[a]] /\ ~hook.error /\ ~hook.loading
CatchesUp ==
  \A a \in Accounts : <>[](Watching /\ ~hidden /\ selected = a) => <>[]Shown(a)
=============================================================================
