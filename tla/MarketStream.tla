---------------------------- MODULE MarketStream ----------------------------
(***************************************************************************)
(* The quote stream (libs/market_data: the socket of api.py, the gateway). *)
(* The handlers of all sockets run on one event loop, each undisturbed     *)
(* from one await to the next. Connections and subscriptions are kept per  *)
(* user in memory. Symbols, channels and the contents of events, degraded *)
(* or not, are left out.                                                   *)
(***************************************************************************)
EXTENDS Naturals, FiniteSets

CONSTANTS
  Users, Sockets,
  SubIds,           \* uuid4 values, never handed out twice
  MaxConnections, MaxSubscriptions,
  NoUser, NoSub, NoSocket

\* What the constants must be.
Parameters ==
  /\ MaxConnections \in Nat /\ MaxSubscriptions \in Nat
  /\ NoUser \notin Users /\ NoSub \notin SubIds /\ NoSocket \notin Sockets

VARIABLES
  connections,   \* user -> the sockets that hold one of the user's places
  subscriptions, \* user -> the user's subscriptions
  socket,        \* what each socket's handler is at
  opener         \* history: the socket each subscription was made on

vars == <<connections, subscriptions, socket, opener>>

\* A socket is greeted, then receives messages, one at a time. A lost one has
\* no client any more but its handler has yet to notice; a leaked one was
\* lost while it was greeted, before the handler looks after its end.
Socket == [at: {"unborn", "greeting", "receiving", "polling", "ended", "leaked"},
           lost: BOOLEAN, user: Users \cup {NoUser}, sub: SubIds \cup {NoSub}]

Unborn == [at |-> "unborn", lost |-> FALSE, user |-> NoUser, sub |-> NoSub]

At(s, p)  == socket[s].at = p
Mine(s)   == subscriptions[socket[s].user]
Used      == {i \in SubIds : opener[i] # NoSocket}

-----------------------------------------------------------------------------
\* open_connection. One too many is told so and closed.
Open(s, u) ==
  /\ At(s, "unborn")
  /\ IF Cardinality(connections[u]) >= MaxConnections
     THEN /\ socket' = [socket EXCEPT ![s] = [@ EXCEPT !.at = "ended", !.user = u]]
          /\ UNCHANGED connections
     ELSE /\ socket' = [socket EXCEPT ![s] = [@ EXCEPT !.at = "greeting", !.user = u]]
          /\ connections' = [connections EXCEPT ![u] = @ \cup {s}]
  /\ UNCHANGED <<subscriptions, opener>>

\* The client goes away: the next receive or send raises.
Lose(s) ==
  /\ socket[s].at \in {"greeting", "receiving", "polling"}
  /\ ~socket[s].lost
  /\ socket' = [socket EXCEPT ![s].lost = TRUE]
  /\ UNCHANGED <<connections, subscriptions, opener>>

\* accept and the first message. If they raise, nothing gives the place back.
Greet(s) ==
  /\ At(s, "greeting")
  /\ \/ socket' = [socket EXCEPT ![s] = [@ EXCEPT !.at = "receiving", !.sub = NoSub]]
     \/ socket[s].lost /\ socket' = [socket EXCEPT ![s].at = "leaked"]
  /\ UNCHANGED <<connections, subscriptions, opener>>

\* Mutant: the place is kept.
FinishKeeping(s) ==
  /\ socket' = [socket EXCEPT ![s] = [@ EXCEPT !.at = "ended", !.sub = NoSub]]
  /\ subscriptions' = [subscriptions EXCEPT ![socket[s].user] = {}]
  /\ UNCHANGED connections

\* Mutant: the subscriptions are kept.
FinishSubscribed(s) ==
  /\ socket' = [socket EXCEPT ![s] = [@ EXCEPT !.at = "ended", !.sub = NoSub]]
  /\ connections' = [connections EXCEPT ![socket[s].user] = @ \ {s}]
  /\ UNCHANGED subscriptions

\* The finally of the handler: clear_subscriptions, of all the user's sockets,
\* and close_connection.
Finish(s) ==
  /\ socket' = [socket EXCEPT ![s] = [@ EXCEPT !.at = "ended", !.sub = NoSub]]
  /\ subscriptions' = [subscriptions EXCEPT ![socket[s].user] = {}]
  /\ connections' = [connections EXCEPT ![socket[s].user] = @ \ {s}]

\* A message that is not JSON, or a lost client.
Break(s) ==
  /\ At(s, "receiving")
  /\ Finish(s)
  /\ UNCHANGED opener

\* subscribe, when the subscription is valid; the client is told, then polled.
Subscribe(s, i) ==
  /\ At(s, "receiving")
  /\ i \notin Used
  /\ Cardinality(Mine(s)) < MaxSubscriptions
  /\ subscriptions' = [subscriptions EXCEPT ![socket[s].user] = @ \cup {i}]
  /\ opener' = [opener EXCEPT ![i] = s]
  /\ socket' = [socket EXCEPT ![s] = [@ EXCEPT !.at = "polling", !.sub = i]]
  /\ UNCHANGED <<connections>>

\* Mutant: a poll that is degraded drops the subscription.
PollDropping(s) ==
  /\ At(s, "polling")
  /\ socket[s].sub \in Mine(s)
  /\ socket' = [socket EXCEPT ![s] = [@ EXCEPT !.at = "receiving", !.sub = NoSub]]
  /\ subscriptions' = [subscriptions EXCEPT ![socket[s].user] = @ \ {socket[s].sub}]
  /\ UNCHANGED <<connections, opener>>

\* poll_events reads the quotes and sends them, once. A subscription that is
\* gone raises, and nothing catches it; so does a lost client.
Poll(s) ==
  /\ At(s, "polling")
  /\ IF socket[s].sub \in Mine(s) /\ ~socket[s].lost
     THEN /\ socket' = [socket EXCEPT ![s] = [@ EXCEPT !.at = "receiving", !.sub = NoSub]]
          /\ UNCHANGED <<connections, subscriptions>>
     ELSE Finish(s)
  /\ UNCHANGED opener

\* unsubscribe, by any socket of the user.
Unsubscribe(s, i) ==
  /\ At(s, "receiving") /\ i \in Mine(s)
  /\ subscriptions' = [subscriptions EXCEPT ![socket[s].user] = @ \ {i}]
  /\ UNCHANGED <<connections, socket, opener>>

-----------------------------------------------------------------------------
Init ==
  /\ connections = [u \in Users |-> {}]
  /\ subscriptions = [u \in Users |-> {}]
  /\ socket = [s \in Sockets |-> Unborn]
  /\ opener = [i \in SubIds |-> NoSocket]

Handler(s) ==
  \/ Greet(s) \/ Break(s) \/ Poll(s)
  \/ \E i \in SubIds : Subscribe(s, i) \/ Unsubscribe(s, i)

Next ==
  \E s \in Sockets : \/ \E u \in Users : Open(s, u)
                     \/ Lose(s)
                     \/ Handler(s)

\* The event loop resumes a handler that has something to do: it greets and
\* polls, and notices that its client is gone.
Notice(s) == Greet(s) \/ Poll(s) \/ (socket[s].lost /\ Break(s))

Spec == Init /\ [][Next]_vars /\ \A s \in Sockets : WF_vars(Notice(s))

-----------------------------------------------------------------------------
(* Properties                                                              *)

TypeOK ==
  /\ connections \in [Users -> SUBSET Sockets]
  /\ subscriptions \in [Users -> SUBSET SubIds]
  /\ socket \in [Sockets -> Socket]
  /\ opener \in [SubIds -> Sockets \cup {NoSocket}]

Live(s) == socket[s].at \in {"greeting", "receiving", "polling"}

\* The places taken are those of the sockets that are served and of those lost
\* while they were greeted, and a user never has more than allowed
\* (open_connection, close_connection).
PlacesCounted ==
  \A u \in Users :
    /\ connections[u] = {s \in Sockets : socket[s].user = u /\ (Live(s) \/ At(s, "leaked"))}
    /\ Cardinality(connections[u]) <= MaxConnections

\* A user with subscriptions has a socket that is served: none outlives the
\* last one (clear_subscriptions).
NoneOutlives ==
  \A u \in Users : subscriptions[u] # {} =>
    \E s \in Sockets : socket[s].user = u /\ Live(s)

\* A socket whose client has gone ends, and gives its place back unless it was
\* lost while it was greeted.
PlacesReturned ==
  \A s \in Sockets : socket[s].lost ~> \/ At(s, "leaked")
                                       \/ At(s, "ended") /\ \A u \in Users : s \notin connections[u]
=============================================================================
