---------------------------- MODULE MCMarketData ----------------------------
(***************************************************************************)
(* Market data on small instances: quotes, the quote stream, tasks that    *)
(* synchronize, and what is computed of a history of prices, indicators    *)
(* and the simulations of a health report. They share no state, so a       *)
(* behaviour is about one of them (part). asked counts requests for        *)
(* quotes, at most MaxAsked; one may have been answered before. raced      *)
(* becomes true when two were counted at the same time, mixed collects the *)
(* tasks that a user moved by hand or that two requests were saving.       *)
(***************************************************************************)
EXTENDS MarketQuotes, TLC

CONSTANTS
  Sockets, SubIds, MaxConnections, MaxSubscriptions, NoSub, NoSocket,
  Jobs, Owner, Payload, NoResult, NoJob,
  Prices, Periods, MaxCandles, MaxAsked,
  Histories, ParameterSets, Templates, Fees

VARIABLES
  part, asked, raced,
  connections, subscriptions, socket, opener, together,
  job, synced, results, syncer, mixed, close,
  config, status, report, alive

\* The tasks belong to one user, who moves, cancels and retries one of them;
\* that one asks for all the symbols, the other for one.
MCOwner   == LET one == CHOOSE u \in Users : TRUE IN [j \in Jobs |-> one]
Managed     == {CHOOSE j \in Jobs : TRUE}
MCPayload == [j \in Jobs |-> IF j \in Managed THEN Symbols ELSE {CHOOSE s \in Symbols : TRUE}]

\* Quotes are asked by one user.
Asker == {CHOOSE u \in Users : TRUE}

\* The symbol of a quote that may be cached at first.
Asked == {CHOOSE s \in Symbols : TRUE}

Quotes == INSTANCE MarketQuotes WITH Users <- Asker
Stream == INSTANCE MarketStream
Sync   == INSTANCE MarketSync WITH thread <- syncer
Number == INSTANCE Fractions
Charts == INSTANCE MarketIndicators
Health == INSTANCE StrategyHealth

ASSUME MCParameters ==
  Stream!Parameters /\ Sync!Parameters /\ Charts!Parameters /\ Health!HealthParameters

quoteVars  == <<vars, asked, raced>>
streamVars == <<connections, subscriptions, socket, opener, together>>
syncVars   == <<job, synced, results, syncer, mixed>>
healthVars == <<config, status, report, alive>>
mcvars     == <<part, quoteVars, streamVars, syncVars, close, healthVars>>

\* One failure is as good as another.
FailureSet == {"UPSTREAM_TIMEOUT"}

MCPeriods == {0, 1, 2, 3}

HistorySet == UNION {[1..n -> {0, 2, 5}] : n \in 0..4} \cup
              {h \in [1..7 -> {1, 2}] : h[1] = 2}

Crossing(short, long) ==
  ("shortWindow" :> Number!Whole(short)) @@ ("longWindow" :> Number!Whole(long))

Reverting(window, entry, exit) ==
  ("window" :> Number!Whole(window)) @@ ("entryZ" :> entry) @@ ("exitZ" :> exit)

HealthSets ==
  {Crossing(1, 2), Crossing(2, 3), Crossing(2, 6),
   Reverting(2, Number!Whole(1), Number!Frac(1, 2)), Reverting(2, Number!Whole(1), Number!Whole(0)),
   Reverting(3, Number!Frac(5, 4), Number!Frac(1, 2))}

\* Denominators that stay within the integers of the model checker.
FeeSet == {Number!Whole(0), Number!Frac(1, 2)}

MCInit ==
  /\ part \in {"quotes", "stream", "sync", "charts", "health"}
  /\ clock = 0 /\ health = "ok"
  /\ thread = [t \in Threads |-> Idle]
  /\ \E answered \in {{}, Asked} :
       /\ cache = [s \in Symbols |-> IF s \in answered
                                      THEN [expires |-> Ttl, of |-> s, taken |-> 0] ELSE NoEntry]
       /\ events = [u \in Asker |-> IF answered = {} THEN <<>> ELSE <<0>>]
       /\ granted = events
  /\ Stream!Init /\ Sync!Init /\ Charts!Init
  /\ IF part = "health" THEN Health!Init
     ELSE config = <<>> /\ status = "pending" /\ report = Health!NoReport /\ alive = TRUE
  /\ asked = 0 /\ raced = FALSE /\ together = FALSE /\ mixed = {}

Counting(t) == thread'[t].at \in {"prune", "pop", "count", "append"}

\* Two sockets of one user that are served.
Together ==
  \E s \in Sockets : \E v \in Sockets \ {s} :
    /\ socket'[s].user = socket'[v].user
    /\ {socket'[s].at, socket'[v].at} \subseteq {"greeting", "receiving", "polling"}

QuotesNext ==
  /\ Quotes!Next
  /\ asked' = asked + Cardinality({t \in Threads : At(t, "idle") /\ thread'[t].at # "idle"})
  /\ asked' <= MaxAsked
  /\ raced' = (raced \/ \E t \in Threads : \E v \in Threads \ {t} : Counting(t) /\ Counting(v))

\* One user has all sockets but the last, which may be another's.
FirstUser == \A s \in Sockets : (\E v \in Sockets : s < v) => socket'[s].user \in Asker \cup {NoUser}

\* The user moves the job by hand to where only a run should bring it.
ByHand(t) ==
  syncer[t].at = "idle" /\ syncer'[t].at = "save" /\ syncer'[t].row.status \in {"running", "succeeded", "failed"}

\* Two requests are to save the row: the second saves a stale copy.
Overlap(t) == \E v \in Threads \ {t} :
  syncer'[t].at = "save" /\ syncer'[v].at = "save" /\ syncer'[t].job = syncer'[v].job

SyncNext ==
  /\ Sync!Next
  /\ (\A t \in Threads : syncer[t].at = "idle" /\ syncer'[t].at = "save" => syncer'[t].job \in Managed)
  /\ mixed' = mixed \cup {syncer'[t].job : t \in {u \in Threads : ByHand(u) \/ Overlap(u)}}

StreamNext ==
  /\ Stream!Next
  /\ FirstUser
  /\ together' = (together \/ Together)

MCNext ==
  /\ UNCHANGED part
  /\ \/ part = "quotes" /\ QuotesNext   /\ UNCHANGED <<streamVars, syncVars, close, healthVars>>
     \/ part = "stream" /\ StreamNext   /\ UNCHANGED <<quoteVars, syncVars, close, healthVars>>
     \/ part = "sync"   /\ SyncNext     /\ UNCHANGED <<quoteVars, streamVars, close, healthVars>>
     \/ part = "charts" /\ Charts!Next  /\ UNCHANGED <<quoteVars, streamVars, syncVars, healthVars>>
     \/ part = "health" /\ Health!Next  /\ UNCHANGED <<quoteVars, streamVars, syncVars, close>>

MCSpec ==
  /\ MCInit /\ [][MCNext]_mcvars
  /\ \A s \in Sockets : WF_mcvars(/\ part = "stream" /\ Stream!Notice(s)
                                  /\ together' = (together \/ Together)
                                  /\ UNCHANGED <<part, quoteVars, syncVars, close, healthVars>>)

TypesOK ==
  /\ Quotes!TypeOK /\ Stream!TypeOK /\ Sync!TypeOK /\ close \in Seq(Prices)
  /\ part = "health" => Health!TypeOK

\* Requests of a user that are counted one at a time are granted at most
\* MaxRequests times in any window (consume).
SerialWindow ==
  ~raced => \A u \in Asker : \A k \in (MaxRequests + 1)..Len(granted[u]) :
    granted[u][k] >= granted[u][k - MaxRequests] + Window

\* And refused only when the window is full.
SerialRefusal ==
  \A t \in Threads : ~raced /\ At(t, "refused") =>
    LET g == granted[thread[t].user] IN
    Len(g) >= MaxRequests /\ g[Len(g) - MaxRequests + 1] + Window > thread[t].now

\* Answers carry the quotes asked for, and the limiter is exact at its edge
\* while it counts one request of a user at a time.
QuotesFit == AnswersFit /\ SerialWindow /\ SerialRefusal

\* A user with one socket at a time finds every subscription where it was made:
\* none goes before the socket unsubscribes it or ends, and no poll fails on
\* one (subscribe, poll_events, clear_subscriptions).
SerialSubscriptions ==
  [][~together' => \A u \in Users : \A i \in subscriptions[u] \ subscriptions'[u] :
       \/ socket'[opener[i]].at = "ended" /\ (socket[opener[i]].lost \/ Stream!At(opener[i], "receiving"))
       \/ subscriptions[u] \ subscriptions'[u] = {i} /\ socket' = socket]_mcvars

\* Places and subscriptions belong to sockets that are there, and a socket
\* whose client is gone gives its place back.
StreamFits ==
  /\ [](Stream!PlacesCounted /\ Stream!NoneOutlives)
  /\ SerialSubscriptions
  /\ Stream!PlacesReturned

\* A finished task that nobody moved by hand, and of which no stale copy was
\* saved, shows its last attempt: it succeeded with every symbol, and none of
\* them is missing until the restart, or it failed and says which it could
\* not, or nothing when the process died under it (sync_task_status). By hand
\* a user makes a task succeed that shows nothing, or a failed attempt.
SerialResults ==
  \A j \in Jobs \ mixed :
    /\ job[j].status = "succeeded" => Sync!Shown(j) = [ok |-> Payload[j], failed |-> {}]
    /\ job[j].status = "failed" => Sync!Shown(j) = NoResult \/ Sync!Shown(j).failed # {}

\* What a task shows is what its attempts synchronized.
SyncFits == Sync!ResultsFit /\ Sync!SyncedKept /\ SerialResults

\* Every indicator agrees with its definition, at the first candle it is
\* offered and after.
IndicatorsFit == Charts!AveragesFit /\ Charts!StrengthFits /\ Charts!ConvergenceFits

\* The engine keeps its accounts and never looks ahead; a health report is given
\* where every variation can be run, and its score agrees with its warnings.
ReportsFit == part = "health" => Health!EngineFits /\ Health!RoomNeeded /\ Health!ScoreAgrees

\* What is computed of a history of prices is what it should be.
AnalysesFit == IndicatorsFit /\ ReportsFit
=============================================================================
