------------------------ MODULE MonitorSocketProofs ------------------------
(***************************************************************************)
(* Proofs about MonitorSocket. What the handlers do to the refs is a       *)
(* function of a record (Hook), so the invariant is stated of such records *)
(* (Sound, Alive, Honest), kept by each function in a lemma of its own,    *)
(* and lifted to the actions through Store. The trading page, at the end,  *)
(* is proved in the same way: its hook is a record too.                    *)
(***************************************************************************)
EXTENDS MCMonitorSocket, TLAPS

SockStates  == {"free", "connecting", "open", "failing", "closing"}
Connections == {"connecting", "connected", "degraded"}
HookType ==
  [sock: [Sockets -> SockStates], ws: Sockets \cup {NoSocket}, attempts: Nat,
   timers: Nat, timerRef: BOOLEAN, intervals: SUBSET Sockets,
   beatRef: Sockets \cup {NoSocket}, connection: Connections]

\* The refs name whatever runs: the timeout, the interval, the live socket.
TimersOwned(h) ==
  /\ h \in HookType
  /\ h.timers = IF h.timerRef THEN 1 ELSE 0
  /\ h.intervals = {h.beatRef} \ {NoSocket}
OneLive(h) == \A s \in Sockets : h.sock[s] \in {"connecting", "open"} => s = h.ws
Sound(h) ==
  /\ TimersOwned(h)
  /\ OneLive(h)
  /\ h.beatRef \in {h.ws, NoSocket}

Alive(h) ==
  \/ h.timers > 0
  \/ h.attempts > MaxReconnectAttempts
  \/ h.ws # NoSocket /\ h.sock[h.ws] # "free" /\ (h.sock[h.ws] = "open" => h.ws \in h.intervals)
Honest(h) ==
  h.connection = "connected" => h.ws # NoSocket /\ h.sock[h.ws] \in {"open", "closing"}
Quiet(h) == h.timers = 0 /\ h.ws = NoSocket

IInv ==
  /\ TypeOK
  /\ Sound(Hook)
  /\ mounted => Alive(Hook) /\ Honest(Hook)
  /\ ~mounted => Quiet(Hook)

-----------------------------------------------------------------------------
(* The functions of the hook.                                              *)

LEMMA ClearTimersSound ==
  ASSUME NEW h, TimersOwned(h)
  PROVE  LET c == ClearTimers(h)
         IN /\ TimersOwned(c) /\ c.timers = 0 /\ c.timerRef = FALSE /\ c.intervals = {}
            /\ c.beatRef = NoSocket
            /\ c.sock = h.sock /\ c.ws = h.ws /\ c.attempts = h.attempts
            /\ c.connection = h.connection
<1>1. PICK c : c = ClearTimers(h)
  OBVIOUS
<1>2. h \in HookType
  BY DEF TimersOwned
<1>3. /\ c.intervals = h.intervals \ {h.beatRef} /\ c.beatRef = NoSocket
      /\ c.timers = (IF h.timerRef THEN h.timers - 1 ELSE h.timers) /\ c.timerRef = FALSE
      /\ c.sock = h.sock /\ c.ws = h.ws /\ c.attempts = h.attempts
      /\ c.connection = h.connection
  BY <1>1, <1>2 DEF ClearTimers, HookType
<1>4. c.timers = 0 /\ c.intervals = {}
  BY <1>3 DEF TimersOwned
<1>5. c \in HookType
  <2>1. c = [h EXCEPT !.intervals = {}, !.beatRef = NoSocket, !.timers = 0, !.timerRef = FALSE]
    BY <1>1, <1>3, <1>4 DEF ClearTimers
  <2> QED BY <1>2, <2>1 DEF HookType
<1> QED
  BY <1>1, <1>3, <1>4, <1>5 DEF TimersOwned

LEMMA CloseSocketSound ==
  ASSUME NEW h, TimersOwned(h), OneLive(h)
  PROVE  LET c == CloseSocket(h)
         IN /\ TimersOwned(c) /\ OneLive(c) /\ c.ws = NoSocket
            /\ \A s \in Sockets : c.sock[s] \notin {"connecting", "open"}
            /\ c.timers = h.timers /\ c.timerRef = h.timerRef /\ c.intervals = h.intervals
            /\ c.beatRef = h.beatRef /\ c.attempts = h.attempts /\ c.connection = h.connection
<1>1. PICK c : c = CloseSocket(h)
  OBVIOUS
<1>2. h \in HookType
  BY DEF TimersOwned
<1>3. /\ c.ws = NoSocket /\ c.timers = h.timers /\ c.timerRef = h.timerRef
      /\ c.intervals = h.intervals /\ c.beatRef = h.beatRef /\ c.attempts = h.attempts
      /\ c.connection = h.connection
  BY <1>1, <1>2 DEF CloseSocket, HookType
<1>4. c.sock \in [Sockets -> SockStates]
      /\ \A s \in Sockets : c.sock[s] \notin {"connecting", "open"}
  <2>1. CASE h.ws = NoSocket
    BY <1>1, <1>2, <2>1, NoSocketAssumption DEF CloseSocket, HookType, OneLive
  <2>2. CASE h.ws # NoSocket
    <3>1. PICK after \in SockStates \ {"connecting", "open"} :
             c.sock = [h.sock EXCEPT ![h.ws] = after]
      <4>1. c.sock = [h.sock EXCEPT ![h.ws] = Ending(h.sock[h.ws])]
        BY <1>1, <1>2, <2>2 DEF CloseSocket, HookType
      <4>2. h.sock[h.ws] \in SockStates
        BY <1>2, <2>2 DEF HookType
      <4>3. Ending(h.sock[h.ws]) \in SockStates \ {"connecting", "open"}
        BY <4>2 DEF Ending, SockStates
      <4> QED BY <4>1, <4>3
    <3>2. \A s \in Sockets : c.sock[s] = IF s = h.ws THEN after ELSE h.sock[s]
      BY <1>2, <3>1 DEF HookType
    <3> QED
      BY <1>2, <3>1, <3>2 DEF HookType, OneLive
  <2> QED BY <2>1, <2>2
<1>5. c \in HookType
  <2>1. PICK new : c = [h EXCEPT !.ws = NoSocket, !.sock = new]
    BY <1>1 DEF CloseSocket
  <2>2. new = c.sock
    BY <1>2, <2>1 DEF HookType
  <2> QED BY <1>2, <1>4, <2>1, <2>2 DEF HookType
<1> QED
  BY <1>1, <1>3, <1>4, <1>5 DEF TimersOwned, OneLive

LEMMA ScheduleSound ==
  ASSUME NEW h, Sound(h), h.timers = 0, h.timerRef = FALSE, h.connection = "degraded"
  PROVE  LET r == ScheduleReconnect(h)
         IN Sound(r) /\ Alive(r) /\ Honest(r)
<1>1. PICK r : r = ScheduleReconnect(h)
  OBVIOUS
<1>2. h \in HookType /\ MaxReconnectAttempts \in Nat
  BY AttemptAssumption DEF Sound, TimersOwned
<1>3. CASE h.attempts + 1 > MaxReconnectAttempts
  <2>1. /\ r \in HookType /\ r.attempts = h.attempts + 1 /\ r.connection = "degraded"
        /\ r.sock = h.sock /\ r.ws = h.ws /\ r.timers = h.timers /\ r.timerRef = h.timerRef
        /\ r.intervals = h.intervals /\ r.beatRef = h.beatRef
    <3>1. r = [h EXCEPT !.attempts = h.attempts + 1, !.connection = "degraded"]
      BY <1>1, <1>3 DEF ScheduleReconnect
    <3>2. h.attempts + 1 \in Nat /\ "degraded" \in Connections
      BY <1>2 DEF HookType, Connections
    <3> QED BY <1>2, <3>1, <3>2 DEF HookType
  <2> QED
    BY <1>1, <1>3, <2>1 DEF Sound, TimersOwned, OneLive, Alive, Honest
<1>4. CASE ~(h.attempts + 1 > MaxReconnectAttempts)
  <2>1. /\ r \in HookType /\ r.connection = "degraded"
        /\ r.sock = h.sock /\ r.ws = h.ws /\ r.timers = 1 /\ r.timerRef = TRUE
        /\ r.intervals = h.intervals /\ r.beatRef = h.beatRef
    <3>1. r = [h EXCEPT !.attempts = h.attempts + 1, !.timers = 1, !.timerRef = TRUE]
      BY <1>1, <1>4 DEF ScheduleReconnect
    <3>2. h.attempts + 1 \in Nat
      BY <1>2 DEF HookType
    <3> QED BY <1>2, <3>1, <3>2 DEF HookType
  <2> QED
    BY <1>1, <2>1 DEF Sound, TimersOwned, OneLive, Alive, Honest
<1> QED
  BY <1>3, <1>4

LEMMA LostSound ==
  ASSUME NEW h, Sound(h)
  PROVE  Sound(Lost(h)) /\ Alive(Lost(h)) /\ Honest(Lost(h))
<1> DEFINE c == ClearTimers(h)
           d == [c EXCEPT !.connection = "degraded"]
<1>1. /\ TimersOwned(c) /\ c.timers = 0 /\ c.timerRef = FALSE /\ c.beatRef = NoSocket
      /\ c.sock = h.sock /\ c.ws = h.ws
  BY ClearTimersSound DEF Sound
<1>2. c \in HookType
  BY <1>1 DEF TimersOwned
<1>3. /\ d \in HookType /\ d.timers = 0 /\ d.timerRef = FALSE /\ d.connection = "degraded"
      /\ d.sock = h.sock /\ d.ws = h.ws /\ d.beatRef = NoSocket /\ d.intervals = c.intervals
  <2> HIDE DEF c
  <2> QED BY <1>1, <1>2 DEF HookType, Connections
<1> HIDE DEF d
<1>4. Sound(d)
  BY <1>1, <1>3 DEF Sound, TimersOwned, OneLive
<1>5. Lost(h) = ScheduleReconnect(d)
  BY DEF Lost, d
<1> QED
  BY <1>3, <1>4, <1>5, ScheduleSound

LEMMA ConnectSound ==
  ASSUME NEW h, TimersOwned(h), OneLive(h), NEW new \in Sockets
  PROVE  LET r == Connect(h, new)
         IN /\ Sound(r) /\ Alive(r) /\ Honest(r)
            /\ \A s \in Sockets : r.sock[s] # "open"
<1> DEFINE c == ClearTimers(h)
           d == CloseSocket(c)
<1>1. /\ TimersOwned(c) /\ OneLive(c) /\ c.intervals = {} /\ c.beatRef = NoSocket
      /\ c.timers = 0 /\ c.timerRef = FALSE
  BY ClearTimersSound DEF OneLive
<1>2. /\ TimersOwned(d) /\ \A s \in Sockets : d.sock[s] \notin {"connecting", "open"}
      /\ d.intervals = {} /\ d.beatRef = NoSocket /\ d.timers = 0 /\ d.timerRef = FALSE
  <2> HIDE DEF c
  <2> QED BY <1>1, CloseSocketSound
<1>3. Connect(h, new) =
        [d EXCEPT !.sock[new] = "connecting", !.ws = new,
                  !.connection = IF @ = "degraded" THEN @ ELSE "connecting"]
  BY DEF Connect
<1> HIDE DEF c, d
<1>4. PICK r : r = Connect(h, new)
  OBVIOUS
<1>5. /\ r \in HookType /\ r.sock = [d.sock EXCEPT ![new] = "connecting"] /\ r.ws = new
      /\ r.connection \in {"degraded", "connecting"}
      /\ r.timers = 0 /\ r.timerRef = FALSE /\ r.intervals = {} /\ r.beatRef = NoSocket
  <2>1. PICK state : /\ state \in {"degraded", "connecting"}
                     /\ r = [d EXCEPT !.sock[new] = "connecting", !.ws = new, !.connection = state]
    BY <1>3, <1>4
  <2>2. d \in HookType
    BY <1>2 DEF TimersOwned
  <2>3. [d.sock EXCEPT ![new] = "connecting"] \in [Sockets -> SockStates]
    BY <2>2 DEF HookType, SockStates
  <2> QED BY <1>2, <2>1, <2>2, <2>3 DEF HookType, Connections
<1>6. \A s \in Sockets : r.sock[s] \in {"connecting", "open"} => s = new
  BY <1>2, <1>5 DEF TimersOwned, HookType
<1>7. r.sock[new] = "connecting"
  BY <1>2, <1>5 DEF TimersOwned, HookType
<1>8. Sound(r)
  BY <1>5, <1>6 DEF Sound, TimersOwned, OneLive
<1>9. Alive(r) /\ Honest(r)
  BY <1>5, <1>7, NoSocketAssumption DEF Alive, Honest
<1>10. \A s \in Sockets : r.sock[s] # "open"
  BY <1>6, <1>7
<1> QED
  BY <1>4, <1>8, <1>9, <1>10

-----------------------------------------------------------------------------
(* Types, in three parts.                                                  *)

ServerTyped ==
  /\ signals \in [Signals -> Presence] /\ alerts \in [Alerts -> Presence]
  /\ session \in BOOLEAN
  /\ conn \in [Sockets -> Conn]
  /\ up \in [Sockets -> Seq(Commands)] /\ down \in [Sockets -> Seq(Message)]
PageTyped ==
  /\ mounted \in BOOLEAN
  /\ drops \in 0..MaxDrops /\ presses \in 0..MaxPresses
  /\ page \in [signals: SUBSET Signals, alerts: SUBSET Alerts]

LEMMA TypeParts ==
  /\ TypeOK => ServerTyped /\ PageTyped /\ Hook \in HookType
  /\ ServerTyped /\ PageTyped /\ Hook \in HookType => TypeOK
<1>1. Hook \in HookType <=>
        /\ sock \in [Sockets -> SockStates] /\ ws \in Sockets \cup {NoSocket}
        /\ attempts \in Nat /\ timers \in Nat /\ timerRef \in BOOLEAN
        /\ intervals \in SUBSET Sockets /\ beatRef \in Sockets \cup {NoSocket}
        /\ connection \in Connections
  BY DEF Hook, HookType
<1> QED
  BY <1>1 DEF TypeOK, ServerTyped, PageTyped, SockStates, Connections

LEMMA TypePartsNext ==
  ServerTyped' /\ PageTyped' /\ Hook' \in HookType => TypeOK'
<1>1. Hook' \in HookType <=>
        /\ sock' \in [Sockets -> SockStates] /\ ws' \in Sockets \cup {NoSocket}
        /\ attempts' \in Nat /\ timers' \in Nat /\ timerRef' \in BOOLEAN
        /\ intervals' \in SUBSET Sockets /\ beatRef' \in Sockets \cup {NoSocket}
        /\ connection' \in Connections
  BY DEF Hook, HookType
<1> QED
  BY <1>1 DEF TypeOK, ServerTyped, PageTyped, SockStates, Connections

\* A handler leaves the refs as the record it stores.
LEMMA StoreHook ==
  ASSUME NEW h \in HookType, Store(h)
  PROVE  Hook' = h
  BY DEF Store, Hook, HookType

LEMMA ForgetTyped ==
  ASSUME ServerTyped, NEW h, Forget(h), UNCHANGED <<signals, alerts, session>>
  PROVE  ServerTyped'
<1>1. NoConn \in Conn
  BY DEF NoConn, Conn
<1>2. conn' \in [Sockets -> Conn]
  BY <1>1 DEF ServerTyped, Forget
<1>3. up' \in [Sockets -> Seq(Commands)]
  BY DEF ServerTyped, Forget
<1>4. down' \in [Sockets -> Seq(Message)]
  BY DEF ServerTyped, Forget
<1> QED
  BY <1>2, <1>3, <1>4 DEF ServerTyped

LEMMA SendTyped ==
  ASSUME ServerTyped, NEW s \in Sockets, NEW message \in Message, Send(s, message)
  PROVE  down' \in [Sockets -> Seq(Message)]
  BY DEF ServerTyped, Send

LEMMA MessagesTyped ==
  /\ Heartbeat \in Message
  /\ \A n \in BOOLEAN, i \in SUBSET Signals : SignalsUpdate(n, i) \in Message
  /\ \A i \in SUBSET Alerts : RiskAlert(i) \in Message
  BY DEF Heartbeat, SignalsUpdate, RiskAlert, Message

LEMMA PushTyped ==
  ASSUME ServerTyped, NEW s \in Sockets, Handler(s)
  PROVE  ServerTyped'
<1>1. CASE PushSignals(s)
  <2> DEFINE resync == Head(up[s]) = "resync"
             seen   == IF resync THEN {} ELSE conn[s].sent
             cut    == IF resync THEN {} ELSE conn[s].cut
             fresh  == Listed(signals) \ seen
  <2>1. PICK kept \in Truncations(fresh) :
          /\ conn' = [conn EXCEPT ![s] = [phase |-> "alerts", sent |-> seen \cup fresh,
                                          cut |-> cut \cup (fresh \ kept)]]
          /\ IF kept = {} THEN down' = down ELSE Send(s, SignalsUpdate(resync, kept))
    BY <1>1 DEF PushSignals
  <2>2. /\ resync \in BOOLEAN /\ seen \in SUBSET Signals /\ cut \in SUBSET Signals
        /\ fresh \in SUBSET Signals /\ kept \in SUBSET fresh
    BY <2>1 DEF ServerTyped, Conn, Listed, Truncations
  <2> HIDE DEF resync, seen, cut, fresh
  <2>3. conn' \in [Sockets -> Conn]
    BY <2>1, <2>2 DEF ServerTyped, Conn
  <2>4. down' \in [Sockets -> Seq(Message)]
    <3>1. SignalsUpdate(resync, kept) \in Message
      BY <2>2, MessagesTyped
    <3> QED BY <2>1, <3>1, SendTyped DEF ServerTyped
  <2>5. up' \in [Sockets -> Seq(Commands)]
    BY <1>1 DEF PushSignals, ServerTyped
  <2> QED
    BY <1>1, <2>3, <2>4, <2>5 DEF PushSignals, ServerTyped
<1>2. CASE PushAlerts(s)
  <2>1. PICK kept \in Truncations(Listed(alerts)) :
          IF kept = {} THEN down' = down ELSE Send(s, RiskAlert(kept))
    BY <1>2 DEF PushAlerts
  <2>2. kept \in SUBSET Alerts
    BY <2>1 DEF ServerTyped, Listed, Truncations
  <2>3. down' \in [Sockets -> Seq(Message)]
    <3>1. RiskAlert(kept) \in Message
      BY <2>2, MessagesTyped
    <3> QED BY <2>1, <3>1, SendTyped DEF ServerTyped
  <2>4. conn' \in [Sockets -> Conn]
    BY <1>2 DEF PushAlerts, ServerTyped, Conn
  <2> QED
    BY <1>2, <2>3, <2>4 DEF PushAlerts, ServerTyped
<1> QED
  BY <1>1, <1>2 DEF Handler

-----------------------------------------------------------------------------
(* The invariant.                                                          *)

LEMMA HookFields ==
  /\ Hook.sock = sock /\ Hook.ws = ws /\ Hook.attempts = attempts /\ Hook.timers = timers
  /\ Hook.timerRef = timerRef /\ Hook.intervals = intervals /\ Hook.beatRef = beatRef
  /\ Hook.connection = connection
  BY DEF Hook

LEMMA InitInvariant == Init => IInv
<1> SUFFICES ASSUME Init PROVE IInv
  OBVIOUS
<1>1. PICK first \in Sockets :
        ws = first /\ sock = [s \in Sockets |-> IF s = first THEN "connecting" ELSE "free"]
  BY DEF Init
<1>2. Hook \in HookType
  BY <1>1 DEF Init, Hook, HookType, SockStates, Connections
<1>3. ServerTyped
  <2>1. NoConn \in Conn
    BY DEF NoConn, Conn
  <2> QED BY <2>1 DEF Init, ServerTyped, Presence
<1>4. PageTyped
  BY AttemptAssumption DEF Init, PageTyped
<1>5. Sound(Hook)
  BY <1>1, <1>2, HookFields, NoSocketAssumption DEF Init, Sound, TimersOwned, OneLive
<1>6. Alive(Hook) /\ Honest(Hook)
  BY <1>1, HookFields, NoSocketAssumption DEF Init, Alive, Honest
<1> QED
  BY <1>2, <1>3, <1>4, <1>5, <1>6, TypeParts DEF IInv, Init

\* What a handler must show to keep the invariant.
LEMMA StoreInvariant ==
  ASSUME ServerTyped', PageTyped', NEW h, Sound(h), Store(h),
         mounted' => Alive(h) /\ Honest(h), ~mounted' => Quiet(h)
  PROVE  IInv'
<1>1. h \in HookType
  BY DEF Sound, TimersOwned
<1>2. Hook' = h
  BY <1>1, StoreHook
<1>3. TypeOK'
  BY <1>1, <1>2, TypePartsNext
<1> QED
  BY <1>2, <1>3 DEF IInv

\* A step that leaves the hook alone.
LEMMA IdleInvariant ==
  ASSUME IInv, ServerTyped', PageTyped', UNCHANGED hookVars
  PROVE  IInv'
<1>1. Hook' = Hook /\ mounted' = mounted
  BY DEF hookVars, Hook
<1>2. TypeOK'
  BY <1>1, TypeParts, TypePartsNext DEF IInv
<1> QED
  BY <1>1, <1>2 DEF IInv

LEMMA ServerStep ==
  ASSUME IInv, (Backend \/ \E s \in Sockets : Handler(s)) /\ UNCHANGED clientVars
  PROVE  IInv'
<1>1. ServerTyped /\ PageTyped
  BY TypeParts DEF IInv
<1>2. PageTyped'
  BY <1>1 DEF PageTyped, clientVars, hookVars
<1>3. ServerTyped'
  <2>1. CASE ChangeSignals
    BY <1>1, <2>1 DEF ChangeSignals, ServerTyped, Presence, Later
  <2>2. CASE ChangeAlerts
    BY <1>1, <2>2 DEF ChangeAlerts, ServerTyped, Presence, Later
  <2>3. CASE ExpireSession
    BY <1>1, <2>3 DEF ExpireSession, ServerTyped
  <2>4. ASSUME NEW s \in Sockets, Handler(s) PROVE ServerTyped'
    BY <1>1, <2>4, PushTyped
  <2> QED
    BY <2>1, <2>2, <2>3, <2>4 DEF Backend
<1> QED
  BY <1>2, <1>3, IdleInvariant DEF clientVars

LEMMA OpenStep ==
  ASSUME IInv, NEW s \in Sockets, Open(s)
  PROVE  IInv'
<1> DEFINE h == [Hook EXCEPT !.sock = [sock EXCEPT ![s] = "open"], !.attempts = 0,
                             !.intervals = intervals \cup {s}, !.beatRef = s]
<1>1. ServerTyped /\ PageTyped /\ Hook \in HookType /\ Sound(Hook)
  BY TypeParts DEF IInv
<1>2. ws = s /\ ws # NoSocket
  BY <1>1, HookFields, NoSocketAssumption DEF Open, Sound, OneLive
<1>3. mounted
  BY <1>2, HookFields DEF IInv, Quiet
<1>4. intervals \cup {s} = {s}
  BY <1>1, <1>2, HookFields DEF Sound, TimersOwned
<1>5. /\ h.sock = [sock EXCEPT ![s] = "open"] /\ h.ws = ws /\ h.attempts = 0
      /\ h.timers = timers /\ h.timerRef = timerRef /\ h.intervals = {s} /\ h.beatRef = s
      /\ h.connection = connection
  BY <1>4, HookFields DEF Hook
<1>6. h \in HookType
  <2>1. [sock EXCEPT ![s] = "open"] \in [Sockets -> SockStates]
    BY <1>1, HookFields DEF HookType, SockStates
  <2> QED BY <1>1, <1>4, <2>1 DEF HookType
<1>7. Store(h)
  <2> HIDE DEF h
  <2> QED BY <1>4, <1>5 DEF Open, Store
<1> HIDE DEF h
<1>8. \A x \in Sockets : h.sock[x] = IF x = s THEN "open" ELSE sock[x]
  BY <1>1, <1>5, HookFields DEF HookType
<1>9. Sound(h)
  BY <1>1, <1>2, <1>5, <1>6, <1>8, HookFields, NoSocketAssumption DEF Sound, TimersOwned, OneLive
<1>10. Alive(h)
  BY <1>2, <1>5, <1>8 DEF Alive
<1>11. Honest(h)
  BY <1>2, <1>5, <1>8 DEF Honest
<1>12. PageTyped'
  BY <1>1 DEF PageTyped, Open
<1>13. ServerTyped'
  <2>1. CASE session
    <3>1. conn' \in [Sockets -> Conn]
      <4>1. [NoConn EXCEPT !.phase = "serving"] \in Conn
        BY DEF NoConn, Conn
      <4> QED BY <1>1, <2>1, <4>1 DEF Open, ServerTyped
    <3>2. down' \in [Sockets -> Seq(Message)]
      BY <1>1, <2>1, SendTyped, MessagesTyped DEF Open
    <3>3. up' \in [Sockets -> Seq(Commands)]
      <4>1. <<"resync">> \in Seq(Commands)
        BY DEF Commands
      <4> QED BY <1>1, <2>1, <4>1 DEF Open, ServerTyped
    <3> QED BY <1>1, <3>1, <3>2, <3>3 DEF Open, ServerTyped
  <2>2. CASE ~session
    <3>1. [NoConn EXCEPT !.phase = "rejected"] \in Conn
      BY DEF NoConn, Conn
    <3> QED BY <1>1, <2>2, <3>1 DEF Open, ServerTyped
  <2> QED BY <2>1, <2>2
<1> QED
  BY <1>3, <1>7, <1>9, <1>10, <1>11, <1>12, <1>13, StoreInvariant DEF Open

\* A live connection ends: its close event is to come.
LEMMA EndSound ==
  ASSUME IInv, NEW s \in Sockets, sock[s] \in {"connecting", "open"},
         NEW state \in {"failing", "closing"}, sock[s] = "open" => state = "closing"
  PROVE  LET h == [Hook EXCEPT !.sock[s] = state]
         IN Sound(h) /\ Alive(h) /\ Honest(h) /\ mounted
<1>1. Hook \in HookType /\ Sound(Hook)
  BY TypeParts DEF IInv
<1>2. ws = s /\ ws # NoSocket
  BY <1>1, HookFields, NoSocketAssumption DEF Sound, OneLive
<1>3. mounted
  BY <1>2, HookFields DEF IInv, Quiet
<1>4. PICK h : h = [Hook EXCEPT !.sock[s] = state]
  OBVIOUS
<1>5. /\ h.sock = [sock EXCEPT ![s] = state] /\ h.ws = ws /\ h.attempts = attempts
      /\ h.timers = timers /\ h.timerRef = timerRef /\ h.intervals = intervals
      /\ h.beatRef = beatRef /\ h.connection = connection
  BY <1>4, HookFields DEF Hook
<1>6. h \in HookType
  <2>1. [Hook.sock EXCEPT ![s] = state] \in [Sockets -> SockStates]
    BY <1>1 DEF HookType, SockStates
  <2> QED BY <1>1, <1>4, <2>1 DEF HookType
<1>7. \A x \in Sockets : h.sock[x] = IF x = s THEN state ELSE sock[x]
  BY <1>1, <1>5, HookFields DEF HookType
<1>8. Sound(h)
  BY <1>1, <1>5, <1>6, <1>7, HookFields DEF Sound, TimersOwned, OneLive
<1>9. Alive(h)
  BY <1>2, <1>5, <1>7 DEF Alive
<1>10. Honest(h)
  <2>1. connection = "connected" => sock[s] = "open"
    BY <1>2, <1>3, HookFields DEF IInv, Honest
  <2> QED BY <1>2, <1>5, <1>7, <2>1 DEF Honest
<1> QED
  BY <1>3, <1>4, <1>8, <1>9, <1>10

LEMMA EndStep ==
  ASSUME IInv, NEW s \in Sockets, Rejected(s) \/ Drop(s)
  PROVE  IInv'
<1>1. ServerTyped /\ PageTyped
  BY TypeParts DEF IInv
<1>2. CASE Rejected(s)
  <2>1. PICK h : h = [Hook EXCEPT !.sock[s] = "closing"] /\ Store(h) /\ Forget(h)
    BY <1>2 DEF Rejected
  <2>2. Sound(h) /\ Alive(h) /\ Honest(h) /\ mounted
    BY <1>2, <2>1, EndSound DEF Rejected
  <2>3. ServerTyped'
    BY <1>1, <1>2, <2>1, ForgetTyped DEF Rejected
  <2>4. PageTyped'
    BY <1>1, <1>2 DEF Rejected, PageTyped
  <2> QED
    BY <1>2, <2>1, <2>2, <2>3, <2>4, StoreInvariant DEF Rejected
<1>3. CASE Drop(s)
  <2>1. PICK h : h = [Hook EXCEPT !.sock[s] = Ending(sock[s])] /\ Store(h) /\ Forget(h)
    BY <1>3 DEF Drop
  <2>2. Ending(sock[s]) \in {"failing", "closing"} /\ (sock[s] = "open" => Ending(sock[s]) = "closing")
    BY <1>3 DEF Drop, Ending
  <2>3. Sound(h) /\ Alive(h) /\ Honest(h) /\ mounted
    BY <1>3, <2>1, <2>2, EndSound DEF Drop
  <2>4. ServerTyped'
    BY <1>1, <1>3, <2>1, ForgetTyped DEF Drop
  <2>5. PageTyped'
    BY <1>1, <1>3, AttemptAssumption DEF Drop, PageTyped
  <2> QED
    BY <1>3, <2>1, <2>3, <2>4, <2>5, StoreInvariant DEF Drop
<1> QED
  BY <1>2, <1>3

LEMMA ClosedStep ==
  ASSUME IInv, NEW s \in Sockets, Closed(s)
  PROVE  IInv'
<1>1. ServerTyped /\ PageTyped /\ Hook \in HookType /\ Sound(Hook)
  BY TypeParts DEF IInv
<1> DEFINE freed == [Hook EXCEPT !.sock[s] = "free"]
<1>2a. PICK error \in BOOLEAN :
         Store(IF ~mounted THEN freed ELSE IF error THEN Lost(Lost(freed)) ELSE Lost(freed))
  BY DEF Closed
<1>2. PICK h :
        /\ h = [Hook EXCEPT !.sock[s] = "free"]
        /\ Store(IF ~mounted THEN h ELSE IF error THEN Lost(Lost(h)) ELSE Lost(h))
  BY <1>2a
<1> HIDE DEF freed
<1>3. /\ h.sock = [sock EXCEPT ![s] = "free"] /\ h.ws = ws /\ h.attempts = attempts
      /\ h.timers = timers /\ h.timerRef = timerRef /\ h.intervals = intervals
      /\ h.beatRef = beatRef /\ h.connection = connection
  BY <1>2, HookFields DEF Hook
<1>4. h \in HookType
  <2>1. [Hook.sock EXCEPT ![s] = "free"] \in [Sockets -> SockStates]
    BY <1>1 DEF HookType, SockStates
  <2> QED BY <1>1, <1>2, <2>1 DEF HookType
<1>5. \A x \in Sockets : h.sock[x] = IF x = s THEN "free" ELSE sock[x]
  BY <1>1, <1>3, HookFields DEF HookType
<1>6. Sound(h)
  BY <1>1, <1>3, <1>4, <1>5, HookFields DEF Sound, TimersOwned, OneLive
<1>7. ServerTyped' /\ PageTyped'
  BY <1>1 DEF Closed, serverVars, ServerTyped, PageTyped
<1>8. CASE ~mounted
  <2>1. Quiet(h)
    BY <1>3, <1>8, HookFields DEF IInv, Quiet
  <2>2. mounted' = mounted
    BY DEF Closed
  <2> QED BY <1>2, <1>6, <1>7, <1>8, <2>1, <2>2, StoreInvariant
<1>9. CASE mounted
  <2>1. Sound(Lost(h)) /\ Alive(Lost(h)) /\ Honest(Lost(h))
    BY <1>6, LostSound
  <2>2. Sound(Lost(Lost(h))) /\ Alive(Lost(Lost(h))) /\ Honest(Lost(Lost(h)))
    BY <2>1, LostSound
  <2>3. PICK r \in {Lost(h), Lost(Lost(h))} : Store(r)
    BY <1>2, <1>9
  <2>4. Sound(r) /\ Alive(r) /\ Honest(r)
    BY <2>1, <2>2
  <2>5. mounted' = mounted
    BY DEF Closed
  <2> QED BY <1>7, <1>9, <2>3, <2>4, <2>5, StoreInvariant
<1> QED
  BY <1>8, <1>9

LEMMA ReconnectStep ==
  ASSUME IInv, Reconnect
  PROVE  IInv' /\ \A s \in Sockets : sock'[s] # "open"
<1>1. ServerTyped /\ PageTyped /\ Hook \in HookType /\ Sound(Hook)
  BY TypeParts DEF IInv
<1> DEFINE fired == [Hook EXCEPT !.timers = @ - 1, !.timerRef = IF timers = 1 THEN FALSE ELSE @]
<1>2. PICK new \in Sockets : Store(Connect(fired, new)) /\ Forget(Connect(fired, new))
  BY DEF Reconnect
<1>3. timers = 1 /\ timerRef
  BY <1>1, HookFields DEF Reconnect, Sound, TimersOwned
<1>4. fired = [Hook EXCEPT !.timers = 0, !.timerRef = FALSE]
  BY <1>3, HookFields DEF Hook
<1> HIDE DEF fired
<1>5. /\ fired \in HookType /\ fired.timers = 0 /\ fired.timerRef = FALSE
      /\ fired.sock = sock /\ fired.ws = ws /\ fired.intervals = intervals
      /\ fired.beatRef = beatRef
  BY <1>1, <1>4, HookFields DEF HookType
<1>6. TimersOwned(fired) /\ OneLive(fired)
  BY <1>1, <1>5, HookFields DEF Sound, TimersOwned, OneLive
<1>7. PICK h : h = Connect(fired, new)
  OBVIOUS
<1>8. Sound(h) /\ Alive(h) /\ Honest(h) /\ \A s \in Sockets : h.sock[s] # "open"
  BY <1>6, <1>7, ConnectSound
<1>9. ServerTyped'
  BY <1>1, <1>2, ForgetTyped DEF Reconnect
<1>10. PageTyped'
  BY <1>1 DEF Reconnect, PageTyped
<1>11. \A s \in Sockets : sock'[s] # "open"
  BY <1>2, <1>7, <1>8 DEF Store
<1> QED
  BY <1>2, <1>7, <1>8, <1>9, <1>10, <1>11, StoreInvariant DEF Reconnect

LEMMA PressStep ==
  ASSUME IInv, Press
  PROVE  IInv' /\ \A s \in Sockets : sock'[s] # "open"
<1>1. ServerTyped /\ PageTyped /\ Hook \in HookType /\ Sound(Hook)
  BY TypeParts DEF IInv
<1> DEFINE zero == [Hook EXCEPT !.attempts = 0]
<1> DEFINE pressed == CloseSocket(zero)
<1>2. PICK new \in Sockets : Store(Connect(pressed, new)) /\ Forget(Connect(pressed, new))
  BY DEF Press
<1>3. /\ zero \in HookType /\ zero.timers = timers /\ zero.timerRef = timerRef
      /\ zero.sock = sock /\ zero.ws = ws /\ zero.intervals = intervals
      /\ zero.beatRef = beatRef
  BY <1>1, HookFields DEF HookType
<1> HIDE DEF zero
<1>4. TimersOwned(zero) /\ OneLive(zero)
  BY <1>1, <1>3, HookFields DEF Sound, TimersOwned, OneLive
<1>5. TimersOwned(pressed) /\ OneLive(pressed)
  BY <1>4, CloseSocketSound
<1> HIDE DEF pressed
<1>6. PICK h : h = Connect(pressed, new)
  OBVIOUS
<1>7. Sound(h) /\ Alive(h) /\ Honest(h) /\ \A s \in Sockets : h.sock[s] # "open"
  BY <1>5, <1>6, ConnectSound
<1>8. ServerTyped'
  BY <1>1, <1>2, ForgetTyped DEF Press
<1>9. PageTyped'
  BY <1>1, AttemptAssumption DEF Press, PageTyped
<1>10. \A s \in Sockets : sock'[s] # "open"
  BY <1>2, <1>6, <1>7 DEF Store
<1> QED
  BY <1>2, <1>6, <1>7, <1>8, <1>9, <1>10, StoreInvariant DEF Press

LEMMA PollStep ==
  ASSUME IInv, NEW s \in Sockets, Poll(s)
  PROVE  IInv'
<1>1. ServerTyped /\ PageTyped
  BY TypeParts DEF IInv
<1>2. up' \in [Sockets -> Seq(Commands)]
  BY <1>1 DEF Poll, ServerTyped, Commands
<1>3. ServerTyped'
  BY <1>1, <1>2 DEF Poll, ServerTyped
<1>4. UNCHANGED clientVars
  BY DEF Poll
<1>5. UNCHANGED hookVars /\ PageTyped'
  BY <1>1, <1>4 DEF clientVars, hookVars, PageTyped
<1> QED
  BY <1>3, <1>5, IdleInvariant

LEMMA ReceiveStep ==
  ASSUME IInv, NEW s \in Sockets, Receive(s)
  PROVE  IInv'
<1>1. ServerTyped /\ PageTyped /\ Hook \in HookType /\ Sound(Hook)
  BY TypeParts DEF IInv
<1>2. ws = s /\ ws # NoSocket /\ sock[ws] = "open"
  BY <1>1, HookFields, NoSocketAssumption DEF Receive, Sound, OneLive
<1>3. mounted
  BY <1>2, HookFields DEF IInv, Quiet
<1>4. Head(down[s]) \in Message /\ Tail(down[s]) \in Seq(Message)
  BY <1>1 DEF Receive, ServerTyped
<1>5. ServerTyped'
  BY <1>1, <1>4 DEF Receive, ServerTyped
<1>6. PageTyped'
  <2>1. PICK message \in Message :
          page' = CASE message.kind = "signals" ->
                         [page EXCEPT !.signals = IF message.snapshot THEN message.items
                                                  ELSE @ \cup message.items]
                    [] message.kind = "alerts" -> [page EXCEPT !.alerts = message.items]
                    [] OTHER -> page
    BY <1>4 DEF Receive
  <2>2. message.kind = "signals" => message.items \in SUBSET Signals
    BY DEF Message
  <2>3. message.kind = "alerts" => message.items \in SUBSET Alerts
    BY DEF Message
  <2>4. page' \in [signals: SUBSET Signals, alerts: SUBSET Alerts]
    <3>1. CASE message.kind = "signals"
      <4>1. PICK items \in SUBSET Signals : page' = [page EXCEPT !.signals = items]
        BY <1>1, <2>1, <2>2, <3>1 DEF PageTyped
      <4> QED BY <1>1, <4>1 DEF PageTyped
    <3>2. CASE message.kind = "alerts"
      <4>1. page' = [page EXCEPT !.alerts = message.items]
        BY <2>1, <3>2
      <4> QED BY <1>1, <2>3, <3>2, <4>1 DEF PageTyped
    <3>3. CASE message.kind \notin {"signals", "alerts"}
      BY <1>1, <2>1, <3>3 DEF PageTyped
    <3> QED BY <3>1, <3>2, <3>3
  <2> QED BY <1>1, <2>4 DEF Receive, PageTyped
<1>7. PICK state \in Connections : connection' = state
  BY <1>1, HookFields DEF Receive, HookType, Connections
<1>8. PICK h : h = [Hook EXCEPT !.connection = state]
  OBVIOUS
<1>9. /\ h \in HookType /\ h.sock = sock /\ h.ws = ws /\ h.attempts = attempts
      /\ h.timers = timers /\ h.timerRef = timerRef /\ h.intervals = intervals
      /\ h.beatRef = beatRef /\ h.connection = state
  BY <1>1, <1>8, HookFields DEF HookType
<1>10. Store(h)
  BY <1>7, <1>9 DEF Receive, Store
<1>11. Sound(h)
  BY <1>1, <1>9, HookFields DEF Sound, TimersOwned, OneLive
<1>12. Alive(h) /\ Honest(h)
  BY <1>2, <1>3, <1>9, HookFields DEF IInv, Alive, Honest
<1> QED
  BY <1>3, <1>5, <1>6, <1>10, <1>11, <1>12, StoreInvariant DEF Receive

LEMMA UnmountStep ==
  ASSUME IInv, Unmount
  PROVE  IInv' /\ \A s \in Sockets : sock'[s] # "open"
<1>1. ServerTyped /\ PageTyped /\ Hook \in HookType /\ Sound(Hook)
  BY TypeParts DEF IInv
<1> DEFINE c == ClearTimers(Hook)
<1>2. /\ TimersOwned(c) /\ OneLive(c) /\ c.timers = 0 /\ c.beatRef = NoSocket
  BY <1>1, ClearTimersSound DEF Sound, OneLive
<1>3. PICK h : h = CloseSocket(c) /\ Store(h) /\ Forget(h)
  BY DEF Unmount
<1> HIDE DEF c
<1>4. /\ TimersOwned(h) /\ OneLive(h) /\ h.ws = NoSocket /\ h.timers = 0 /\ h.beatRef = NoSocket
      /\ \A s \in Sockets : h.sock[s] # "open"
  BY <1>2, <1>3, CloseSocketSound
<1>5. ServerTyped'
  BY <1>1, <1>3, ForgetTyped DEF Unmount
<1>6. PageTyped'
  BY <1>1 DEF Unmount, PageTyped
<1>7. \A s \in Sockets : sock'[s] # "open"
  BY <1>3, <1>4 DEF Store
<1> QED
  BY <1>3, <1>4, <1>5, <1>6, <1>7, StoreInvariant DEF Unmount, Sound, Quiet

LEMMA NextStep == IInv /\ [Next]_vars => IInv'
<1> SUFFICES ASSUME IInv, [Next]_vars PROVE IInv'
  OBVIOUS
<1>1. CASE (Backend \/ \E s \in Sockets : Handler(s)) /\ UNCHANGED clientVars
  BY <1>1, ServerStep
<1>2. CASE \E s \in Sockets : Open(s) \/ Rejected(s) \/ Drop(s) \/ Closed(s) \/ Poll(s) \/ Receive(s)
  BY <1>2, OpenStep, EndStep, ClosedStep, PollStep, ReceiveStep
<1>3. CASE Reconnect
  BY <1>3, ReconnectStep
<1>4. CASE Press
  BY <1>4, PressStep
<1>5. CASE Unmount
  BY <1>5, UnmountStep
<1>6. CASE UNCHANGED vars
  <2>1. ServerTyped /\ PageTyped
    BY TypeParts DEF IInv
  <2>2. UNCHANGED serverVars /\ UNCHANGED clientVars
    BY <1>6 DEF vars
  <2>3. ServerTyped'
    BY <2>1, <2>2 DEF serverVars, ServerTyped
  <2>4. UNCHANGED hookVars /\ PageTyped'
    BY <2>1, <2>2 DEF clientVars, hookVars, PageTyped
  <2> QED BY <2>3, <2>4, IdleInvariant
<1> QED
  BY <1>1, <1>2, <1>3, <1>4, <1>5, <1>6 DEF Next

-----------------------------------------------------------------------------
(* What the page will show of the messages q in transit when it shows p.   *)

SnapshotsIn(q) == {i \in DOMAIN q : q[i].kind = "signals" /\ q[i].snapshot}
\* Message i of q reaches the page after the last snapshot, or is it.
Lasting(q, i) == i \in DOMAIN q /\ q[i].kind = "signals" /\ \A j \in SnapshotsIn(q) : j <= i
Shows(q, p, x) == \/ SnapshotsIn(q) = {} /\ x \in p
                  \/ \E i \in DOMAIN q : Lasting(q, i) /\ x \in q[i].items

LEMMA WillShowIs ==
  ASSUME NEW s \in Sockets, NEW x
  PROVE  x \in WillShow(s) <=> Shows(down[s], page.signals, x)
<1>1. Snapshots(s) = SnapshotsIn(down[s])
  BY DEF Snapshots, SnapshotsIn
<1>2. x \in Arriving(s) <=> \E i \in DOMAIN down[s] : Lasting(down[s], i) /\ x \in down[s][i].items
  BY <1>1 DEF Arriving, Lasting
<1> QED
  BY <1>1, <1>2 DEF WillShow, Shows

\* A message added behind the others hides nothing, unless it is a snapshot,
\* and its own signals will be shown.
LEMMA AppendShows ==
  ASSUME NEW q \in Seq(Message), NEW m \in Message, NEW p, NEW x
  PROVE  /\ ~(m.kind = "signals" /\ m.snapshot) /\ Shows(q, p, x) => Shows(Append(q, m), p, x)
         /\ m.kind = "signals" /\ x \in m.items => Shows(Append(q, m), p, x)
<1> DEFINE r == Append(q, m)
<1>1. /\ Len(q) \in Nat /\ DOMAIN q = 1..Len(q) /\ DOMAIN r = 1..Len(q) + 1
      /\ \A i \in 1..Len(q) : r[i] = q[i]
      /\ r[Len(q) + 1] = m
  OBVIOUS
<1> HIDE DEF r
<1>2. ASSUME ~(m.kind = "signals" /\ m.snapshot), Shows(q, p, x) PROVE Shows(r, p, x)
  <2>1. SnapshotsIn(r) = SnapshotsIn(q)
    BY <1>1, <1>2 DEF SnapshotsIn
  <2>2. \A i \in DOMAIN q : i \in DOMAIN r /\ r[i] = q[i]
    BY <1>1
  <2>3. \A i \in DOMAIN q : Lasting(q, i) => Lasting(r, i)
    BY <2>1, <2>2 DEF Lasting
  <2> QED
    BY <1>2, <2>1, <2>2, <2>3 DEF Shows
<1>3. ASSUME m.kind = "signals", x \in m.items PROVE Shows(r, p, x)
  <2>1. Lasting(r, Len(q) + 1)
    BY <1>1, <1>3 DEF Lasting, SnapshotsIn
  <2> QED
    BY <1>1, <1>3, <2>1 DEF Shows
<1> QED
  BY <1>2, <1>3 DEF r

\* What the page shows of signals after a message (setSignals).
Received(m, p) ==
  IF m.kind = "signals" THEN IF m.snapshot THEN m.items ELSE p \cup m.items ELSE p

\* Receiving a message only moves what will be shown onto the page.
LEMMA ReceiveShows ==
  ASSUME NEW q \in Seq(Message), q # <<>>, NEW p, NEW x, Shows(q, p, x)
  PROVE  Shows(Tail(q), Received(Head(q), p), x)
<1> DEFINE r == Tail(q)
<1>1. /\ Len(q) \in Nat \ {0} /\ DOMAIN q = 1..Len(q) /\ DOMAIN r = 1..Len(q) - 1
      /\ \A i \in 1..Len(q) - 1 : r[i] = q[i + 1]
      /\ Head(q) = q[1]
  OBVIOUS
<1> HIDE DEF r
<1>2. \A i \in 1..Len(q) - 1 : i \in SnapshotsIn(r) <=> i + 1 \in SnapshotsIn(q)
  BY <1>1 DEF SnapshotsIn
<1>3. \A i \in 1..Len(q) - 1 : Lasting(q, i + 1) => Lasting(r, i)
  <2> SUFFICES ASSUME NEW i \in 1..Len(q) - 1, Lasting(q, i + 1) PROVE Lasting(r, i)
    OBVIOUS
  <2>1. i \in DOMAIN r /\ r[i].kind = "signals"
    BY <1>1 DEF Lasting
  <2>2. ASSUME NEW j \in SnapshotsIn(r) PROVE j <= i
    <3>1. j \in 1..Len(q) - 1 /\ j + 1 \in SnapshotsIn(q)
      BY <1>1, <1>2 DEF SnapshotsIn
    <3>2. j + 1 <= i + 1
      BY <3>1 DEF Lasting
    <3> QED BY <1>1, <3>1, <3>2
  <2> QED BY <2>1, <2>2 DEF Lasting
<1>4. CASE SnapshotsIn(q) = {} /\ x \in p
  <2>1. SnapshotsIn(r) = {}
    BY <1>1, <1>2, <1>4 DEF SnapshotsIn
  <2>2. x \in Received(Head(q), p)
    BY <1>1, <1>4 DEF Received, SnapshotsIn
  <2> QED BY <2>1, <2>2 DEF Shows, r
<1>5. ASSUME NEW i \in DOMAIN q, Lasting(q, i), x \in q[i].items
      PROVE  Shows(r, Received(Head(q), p), x)
  <2>1. CASE i = 1
    <3>1. \A j \in 1..Len(q) - 1 : j \notin SnapshotsIn(r)
      <4> SUFFICES ASSUME NEW j \in 1..Len(q) - 1, j \in SnapshotsIn(r) PROVE FALSE
        OBVIOUS
      <4>1. j + 1 <= 1
        BY <1>2, <1>5, <2>1 DEF Lasting
      <4> QED BY <1>1, <4>1
    <3>2. SnapshotsIn(r) = {}
      BY <1>1, <3>1 DEF SnapshotsIn
    <3>3. x \in Received(Head(q), p)
      BY <1>1, <1>5, <2>1 DEF Received, Lasting
    <3> QED BY <3>2, <3>3 DEF Shows
  <2>2. CASE i # 1
    <3>1. PICK k \in 1..Len(q) - 1 : i = k + 1
      <4>1. i - 1 \in 1..Len(q) - 1 /\ i = (i - 1) + 1
        BY <1>1, <1>5, <2>2
      <4> QED BY <4>1
    <3>2. Lasting(r, k) /\ x \in r[k].items
      BY <1>1, <1>3, <1>5, <3>1
    <3> QED BY <1>1, <3>1, <3>2 DEF Shows
  <2> QED BY <2>1, <2>2
<1> QED
  BY <1>4, <1>5 DEF Shows, r

-----------------------------------------------------------------------------
(* What was sent on an open connection is shown, will be, or was cut off.  *)

LEMMA WillShowIsNext ==
  ASSUME NEW s \in Sockets, NEW x
  PROVE  x \in WillShow(s)' <=> Shows(down'[s], page'.signals, x)
<1>1. Snapshots(s)' = SnapshotsIn(down'[s])
  BY DEF Snapshots, SnapshotsIn
<1>2. x \in Arriving(s)' <=> \E i \in DOMAIN down'[s] : Lasting(down'[s], i) /\ x \in down'[s][i].items
  BY <1>1 DEF Arriving, Lasting
<1> QED
  BY <1>1, <1>2 DEF WillShow, Shows

LEMMA LostKeepsSockets ==
  ASSUME NEW h, Sound(h)
  PROVE  Lost(h).sock = h.sock
<1>1. ClearTimers(h) \in HookType /\ ClearTimers(h).sock = h.sock
  BY ClearTimersSound DEF Sound, TimersOwned
<1>2. PICK d : d = [ClearTimers(h) EXCEPT !.connection = "degraded"]
  OBVIOUS
<1>3. d.sock = h.sock /\ d \in HookType
  <2>1. PICK c \in HookType : c = ClearTimers(h) /\ c.sock = h.sock
    BY <1>1
  <2> QED BY <1>2, <2>1 DEF HookType, Connections
<1> QED
  BY <1>2, <1>3 DEF Lost, ScheduleReconnect, HookType

\* A step that only takes sockets out of "open" and touches nothing else on a
\* connection that stays open.
LEMMA SteadyDelivered ==
  ASSUME DeliveredOrCut, page' = page,
         \A s \in Sockets : sock'[s] = "open" =>
           sock[s] = "open" /\ conn'[s] = conn[s] /\ down'[s] = down[s]
  PROVE  DeliveredOrCut'
<1> SUFFICES ASSUME NEW s \in Sockets, sock'[s] = "open",
                    NEW x \in conn'[s].sent \ conn'[s].cut
             PROVE  x \in WillShow(s)'
  BY DEF DeliveredOrCut
<1>1. x \in WillShow(s)
  BY DEF DeliveredOrCut
<1> QED
  BY <1>1, WillShowIs, WillShowIsNext

LEMMA PushDelivered ==
  ASSUME IInv, DeliveredOrCut, NEW h \in Sockets, Handler(h), UNCHANGED clientVars
  PROVE  DeliveredOrCut'
<1>1. ServerTyped /\ page' = page /\ sock' = sock
  BY TypeParts DEF IInv, clientVars, hookVars
<1> SUFFICES ASSUME NEW s \in Sockets, sock[s] = "open",
                    NEW x \in conn'[s].sent \ conn'[s].cut
             PROVE  x \in WillShow(s)'
  BY <1>1 DEF DeliveredOrCut
<1>2. ASSUME x \in conn[s].sent \ conn[s].cut, down'[s] = down[s]
      PROVE  x \in WillShow(s)'
  BY <1>1, <1>2, WillShowIs, WillShowIsNext DEF DeliveredOrCut
<1>3. CASE PushSignals(h)
  <2> DEFINE resync == Head(up[h]) = "resync"
             seen   == IF resync THEN {} ELSE conn[h].sent
             cut    == IF resync THEN {} ELSE conn[h].cut
             fresh  == Listed(signals) \ seen
  <2>1. PICK kept \in Truncations(fresh) :
          /\ conn' = [conn EXCEPT ![h] = [phase |-> "alerts", sent |-> seen \cup fresh,
                                          cut |-> cut \cup (fresh \ kept)]]
          /\ IF kept = {} THEN down' = down ELSE Send(h, SignalsUpdate(resync, kept))
    BY <1>3 DEF PushSignals
  <2>2. kept \subseteq fresh /\ fresh \subseteq Signals /\ resync \in BOOLEAN
    BY <1>1, <2>1 DEF Truncations, Listed, ServerTyped
  <2>3. resync => seen = {} /\ cut = {}
    OBVIOUS
  <2>4. ~resync => seen = conn[h].sent /\ cut = conn[h].cut
    OBVIOUS
  <2> HIDE DEF resync, seen, cut, fresh
  <2>5. CASE s # h
    <3>1. conn'[s] = conn[s] /\ down'[s] = down[s]
      BY <1>1, <2>1, <2>5 DEF ServerTyped, Send
    <3> QED BY <1>2, <3>1
  <2>6. CASE s = h
    <3>1. x \in (seen \ cut) \cup kept
      BY <1>1, <2>1, <2>6 DEF ServerTyped
    <3>2. CASE kept = {}
      <4>1. ~resync
        BY <2>3, <3>1, <3>2
      <4>2. x \in conn[s].sent \ conn[s].cut
        BY <2>4, <2>6, <3>1, <3>2, <4>1
      <4> QED BY <1>2, <2>1, <3>2, <4>2
    <3>3. CASE kept # {}
      <4>1. PICK m : m = SignalsUpdate(resync, kept)
        OBVIOUS
      <4>2. m \in Message /\ m.kind = "signals" /\ m.items = kept /\ m.snapshot = resync
        BY <2>2, <4>1, MessagesTyped DEF SignalsUpdate
      <4>3. down'[s] = Append(down[s], m) /\ down[s] \in Seq(Message)
        BY <1>1, <2>1, <2>6, <3>3, <4>1 DEF Send, ServerTyped
      <4>4. CASE x \in kept
        BY <4>2, <4>3, <4>4, AppendShows, WillShowIsNext
      <4>5. CASE x \in seen \ cut
        <5>1. ~resync
          BY <2>3, <4>5
        <5>2. x \in WillShow(s)
          BY <2>4, <2>6, <4>5, <5>1 DEF DeliveredOrCut
        <5>3. Shows(down'[s], page.signals, x)
          BY <4>2, <4>3, <5>1, <5>2, AppendShows, WillShowIs
        <5> QED BY <1>1, <5>3, WillShowIsNext
      <4> QED BY <3>1, <4>4, <4>5
    <3> QED BY <3>2, <3>3
  <2> QED BY <2>5, <2>6
<1>4. CASE PushAlerts(h)
  <2>1. PICK kept \in Truncations(Listed(alerts)) :
          IF kept = {} THEN down' = down ELSE Send(h, RiskAlert(kept))
    BY <1>4 DEF PushAlerts
  <2>2. kept \subseteq Alerts
    BY <1>1, <2>1 DEF Truncations, Listed, ServerTyped
  <2>3. x \in conn[s].sent \ conn[s].cut
    BY <1>1, <1>4 DEF PushAlerts, ServerTyped, Conn
  <2>4. PICK m : m = RiskAlert(kept)
    OBVIOUS
  <2>5. m \in Message /\ m.kind = "alerts"
    BY <2>2, <2>4, MessagesTyped DEF RiskAlert
  <2>6. CASE down'[s] = down[s]
    BY <1>2, <2>3, <2>6
  <2>7. CASE down'[s] = Append(down[s], m)
    <3>1. x \in WillShow(s)
      BY <2>3 DEF DeliveredOrCut
    <3>2. down[s] \in Seq(Message)
      BY <1>1 DEF ServerTyped
    <3>3. Shows(down'[s], page.signals, x)
      BY <2>5, <2>7, <3>1, <3>2, AppendShows, WillShowIs
    <3> QED BY <1>1, <3>3, WillShowIsNext
  <2>8. down'[s] = down[s] \/ down'[s] = Append(down[s], m)
    BY <1>1, <2>1, <2>4 DEF Send, ServerTyped
  <2> QED BY <2>6, <2>7, <2>8
<1> QED
  BY <1>3, <1>4 DEF Handler

LEMMA ReceiveDelivered ==
  ASSUME IInv, DeliveredOrCut, NEW r \in Sockets, Receive(r)
  PROVE  DeliveredOrCut'
<1>1. ServerTyped /\ PageTyped /\ sock' = sock /\ conn' = conn
  BY TypeParts DEF IInv, Receive
<1>2. \A s \in Sockets : sock[s] = "open" => s = r
  BY HookFields DEF IInv, Sound, OneLive, Receive
<1> SUFFICES ASSUME NEW x \in conn[r].sent \ conn[r].cut
             PROVE  x \in WillShow(r)'
  BY <1>1, <1>2 DEF DeliveredOrCut
<1>3. Shows(down[r], page.signals, x)
  BY WillShowIs DEF DeliveredOrCut, Receive
<1>4. down[r] \in Seq(Message) /\ down[r] # <<>> /\ down'[r] = Tail(down[r])
  BY <1>1 DEF Receive, ServerTyped
<1>5. page'.signals = Received(Head(down[r]), page.signals)
  BY <1>1 DEF Receive, Received, PageTyped
<1> QED
  BY <1>3, <1>4, <1>5, ReceiveShows, WillShowIsNext

\* Once the current socket is let go or ends, no connection is open.
LEMMA NoneOpenDelivered ==
  ASSUME \A s \in Sockets : sock'[s] # "open"
  PROVE  DeliveredOrCut'
  BY DEF DeliveredOrCut

LEMMA EndDelivered ==
  ASSUME IInv, NEW s \in Sockets, Rejected(s) \/ Drop(s)
  PROVE  DeliveredOrCut'
<1>1. Hook \in HookType /\ sock \in [Sockets -> SockStates]
  BY TypeParts, HookFields DEF IInv, HookType
<1>2. \A t \in Sockets : sock[t] = "open" => t = s
  BY HookFields DEF IInv, Sound, OneLive, Rejected, Drop
<1>3. PICK after \in SockStates \ {"open"} : sock' = [sock EXCEPT ![s] = after]
  <2>1. CASE Rejected(s)
    BY <1>1, <2>1, HookFields DEF Rejected, Store, HookType, SockStates
  <2>2. CASE Drop(s)
    <3>1. Ending(sock[s]) \in SockStates \ {"open"}
      BY <2>2 DEF Drop, Ending, SockStates
    <3>2. sock' = [sock EXCEPT ![s] = Ending(sock[s])]
      BY <1>1, <2>2, HookFields DEF Drop, Store, HookType
    <3> QED BY <3>1, <3>2
  <2> QED BY <2>1, <2>2
<1> QED
  BY <1>1, <1>2, <1>3, NoneOpenDelivered

LEMMA ClosedDelivered ==
  ASSUME IInv, DeliveredOrCut, NEW s \in Sockets, Closed(s)
  PROVE  DeliveredOrCut'
<1>1. Hook \in HookType /\ Sound(Hook) /\ sock[s] \in {"failing", "closing"}
  BY TypeParts DEF IInv, Closed
<1>2. PICK h : h = [Hook EXCEPT !.sock[s] = "free"]
  OBVIOUS
<1>3. /\ h \in HookType /\ h.sock = [sock EXCEPT ![s] = "free"]
      /\ h.ws = ws /\ h.timers = timers /\ h.timerRef = timerRef
      /\ h.intervals = intervals /\ h.beatRef = beatRef
  <2>1. [sock EXCEPT ![s] = "free"] \in [Sockets -> SockStates]
    BY <1>1, HookFields DEF HookType, SockStates
  <2> QED BY <1>1, <1>2, <2>1, HookFields DEF HookType
<1>4. Sound(h)
  BY <1>1, <1>3, HookFields DEF Sound, TimersOwned, OneLive, HookType
<1>5. Sound(Lost(h)) /\ Lost(h).sock = h.sock /\ Lost(Lost(h)).sock = h.sock
  BY <1>4, LostSound, LostKeepsSockets
<1>6. Store(h) \/ Store(Lost(h)) \/ Store(Lost(Lost(h)))
  BY <1>2 DEF Closed
<1>7. sock' = h.sock /\ conn' = conn /\ down' = down /\ page' = page
  BY <1>5, <1>6 DEF Store, Closed, serverVars
<1>8. sock \in [Sockets -> SockStates]
  BY <1>1, HookFields DEF HookType
<1> QED
  BY <1>3, <1>7, <1>8, SteadyDelivered

LEMMA OpenDelivered ==
  ASSUME IInv, NEW s \in Sockets, Open(s)
  PROVE  DeliveredOrCut'
<1>1. ServerTyped /\ sock \in [Sockets -> SockStates]
  BY TypeParts, HookFields DEF IInv, HookType
<1>2. \A t \in Sockets : sock'[t] = "open" => t = s
  BY <1>1, HookFields DEF IInv, Sound, OneLive, Open
<1>3. conn'[s].sent = {}
  BY <1>1 DEF Open, NoConn, ServerTyped
<1> QED
  BY <1>2, <1>3 DEF DeliveredOrCut

LEMMA DeliveredStep == IInv /\ DeliveredOrCut /\ [Next]_vars => DeliveredOrCut'
<1> SUFFICES ASSUME IInv, DeliveredOrCut, [Next]_vars PROVE DeliveredOrCut'
  OBVIOUS
<1>1. CASE (Backend \/ \E s \in Sockets : Handler(s)) /\ UNCHANGED clientVars
  <2>1. CASE Backend
    BY <1>1, <2>1, SteadyDelivered
    DEF Backend, ChangeSignals, ChangeAlerts, ExpireSession, clientVars, hookVars
  <2> QED BY <1>1, <2>1, PushDelivered
<1>2. ASSUME NEW s \in Sockets, Open(s) \/ Rejected(s) \/ Drop(s) \/ Closed(s) \/ Poll(s) \/ Receive(s)
      PROVE  DeliveredOrCut'
  <2>1. CASE Poll(s)
    BY <2>1, SteadyDelivered DEF Poll, clientVars, hookVars
  <2> QED BY <1>2, <2>1, OpenDelivered, EndDelivered, ClosedDelivered, ReceiveDelivered
<1>3. CASE Reconnect \/ Press \/ Unmount
  BY <1>3, ReconnectStep, PressStep, UnmountStep, NoneOpenDelivered
<1>4. CASE UNCHANGED vars
  BY <1>4, SteadyDelivered DEF vars, serverVars, clientVars, hookVars
<1> QED
  BY <1>1, <1>2, <1>3, <1>4 DEF Next

-----------------------------------------------------------------------------
(* The theorems.                                                           *)

\* Whatever runs in the page, a timeout, an interval, a live socket, is named
\* by the ref that clean-up goes by (clearTimers, closeSocket), and the page
\* always has a way on, for any number of sockets, attempts and drops.
THEOREM InductiveInvariant == Spec => []IInv
  BY InitInvariant, NextStep, PTL DEF Spec

\* TypeOK: among others, that clearing timers never counts below zero.
THEOREM TypeCorrect == Spec => []TypeOK
<1>1. IInv => TypeOK
  BY DEF IInv
<1> QED
  BY <1>1, InductiveInvariant, PTL

\* NoLeaks: stale events, the button and the timer in any order leave one
\* timer, one interval and one live socket, and none after the clean-up.
THEOREM NoLeaksCorrect == Spec => []NoLeaks
<1>1. IInv => NoLeaks
  <2> SUFFICES ASSUME IInv PROVE NoLeaks
    OBVIOUS
  <2>1. timers <= 1
    BY HookFields DEF IInv, Sound, TimersOwned
  <2>2. intervals \subseteq {ws}
    BY HookFields DEF IInv, Sound, TimersOwned
  <2>3. \A s \in Sockets : sock[s] \in {"connecting", "open"} => s = ws
    BY HookFields DEF IInv, Sound, OneLive
  <2>4. ~mounted => timers = 0 /\ ws = NoSocket
    BY HookFields DEF IInv, Quiet
  <2> QED BY <2>1, <2>2, <2>3, <2>4 DEF NoLeaks
<1> QED
  BY <1>1, InductiveInvariant, PTL

\* NeverAbandoned: no order of the events leaves a page that is there without
\* a connection, an event to come or a timer before the attempts are used up.
THEOREM AbandonedCorrect == Spec => []NeverAbandoned
<1>1. IInv => NeverAbandoned
  BY HookFields DEF IInv, Alive, NeverAbandoned, GaveUp
<1> QED
  BY <1>1, InductiveInvariant, PTL

\* ConnectedIsCurrent: every way to let a connection go also changes what the
\* page says of it (connect, onerror, onclose).
THEOREM ConnectedCorrect == Spec => []ConnectedIsCurrent
<1>1. IInv => ConnectedIsCurrent
  BY HookFields DEF IInv, Honest, ConnectedIsCurrent
<1> QED
  BY <1>1, InductiveInvariant, PTL

\* DeliveredOrCut: whatever rows change and connections end, a signal that
\* counts as sent is on the page, on its way or was cut off (_push_updates,
\* onmessage), for any number of signals, connections and messages in transit.
THEOREM DeliveredCorrect == Spec => []DeliveredOrCut
<1>1. Init => DeliveredOrCut
  BY DEF Init, DeliveredOrCut, NoConn
<1> QED
  BY <1>1, DeliveredStep, InductiveInvariant, PTL DEF Spec

-----------------------------------------------------------------------------
(* The trading page                                                        *)

\* The interval that runs, if any, is the one the ref holds.
Counted(h) == \A a \in Accounts : h.intervals[a] = IF a = h.interval THEN 1 ELSE 0

\* One interval runs while the page is watched and seen, that of the account
\* selected.
Polling ==
  /\ hook.interval = IF Trading!Watching /\ ~hidden THEN selected ELSE NoAccount
  /\ Counted(hook)

\* Requests are of an account; no load is of a context still to come.
Addressed ==
  \A r \in Slots : /\ request[r].at # "none" => request[r].of \in Accounts
                   /\ Trading!Loads(r) => request[r].context <= hook.context

\* Until an order is answered late, a load that still counts, like the data
\* shown, is of the account selected.
Selected ==
  ~late => /\ \A r \in Slots : Trading!Current(r) => request[r].of = selected
           /\ Trading!ShowsSelected

TradingInv ==
  /\ Trading!TypeOK
  /\ Polling
  /\ Addressed
  /\ Trading!Waiting
  /\ Selected

\* What g leaves of h when it only starts or stops an interval.
Rest(g, h) ==
  /\ g.context = h.context /\ g.done = h.done /\ g.mounted = h.mounted
  /\ g.data = h.data /\ g.error = h.error /\ g.loading = h.loading

LEMMA StopFits ==
  ASSUME NEW h, h \in Trading!Hooks, Counted(h)
  PROVE  LET g == Trading!StopInterval(h)
         IN /\ g \in Trading!Hooks /\ Counted(g) /\ g.interval = NoAccount /\ Rest(g, h)
            /\ \A a \in Accounts : g.intervals[a] = 0
<1> USE DEF Trading!Hooks
<1>1. PICK v : v = Trading!Stopped(h) OBVIOUS
<1>2. v \in [Accounts -> Nat] /\ \A a \in Accounts : v[a] = 0
  <2>1. CASE h.interval = NoAccount
    BY <1>1, <2>1, TradingAssumption DEF Trading!Stopped, Trading!Parameters, Counted
  <2>2. CASE h.interval # NoAccount
    <3>1. v = [h.intervals EXCEPT ![h.interval] = @ - 1] BY <1>1, <2>2 DEF Trading!Stopped
    <3>2. h.interval \in Accounts /\ h.intervals \in [Accounts -> Nat] BY <2>2
    <3>3. \A a \in Accounts : v[a] = 0 BY <3>1, <3>2 DEF Counted
    <3>4. v \in [Accounts -> Nat] BY <3>1, <3>2, <3>3
    <3>5. QED BY <3>3, <3>4
  <2>3. QED BY <2>1, <2>2
<1>3. PICK g : g = Trading!StopInterval(h) OBVIOUS
<1>4. g = [h EXCEPT !.intervals = v, !.interval = NoAccount]
  BY <1>1, <1>3 DEF Trading!StopInterval
<1>5. g \in Trading!Hooks /\ g.intervals = v /\ g.interval = NoAccount /\ Rest(g, h)
  BY <1>2, <1>4 DEF Rest
<1>6. Counted(g) BY <1>2, <1>5, TradingAssumption DEF Counted, Trading!Parameters
<1>7. QED BY <1>2, <1>3, <1>5, <1>6

LEMMA StartFits ==
  ASSUME NEW h, h \in Trading!Hooks, Counted(h), NEW a \in Accounts
  PROVE  LET g == Trading!StartInterval(h, a)
         IN g \in Trading!Hooks /\ Counted(g) /\ g.interval = a /\ Rest(g, h)
<1> USE DEF Trading!Hooks
<1>1. PICK v : v = Trading!Stopped(h) OBVIOUS
<1>2. v \in [Accounts -> Nat] /\ \A b \in Accounts : v[b] = 0
  <2>1. PICK g : g = Trading!StopInterval(h) OBVIOUS
  <2>2. g \in Trading!Hooks /\ \A b \in Accounts : g.intervals[b] = 0 BY <2>1, StopFits
  <2>3. g.intervals = v BY <1>1, <2>1 DEF Trading!StopInterval
  <2>4. QED BY <2>2, <2>3
<1>3. PICK g : g = Trading!StartInterval(h, a) OBVIOUS
<1>4. PICK w : w = [v EXCEPT ![a] = @ + 1] OBVIOUS
<1>5. w \in [Accounts -> Nat] /\ \A b \in Accounts : w[b] = IF b = a THEN 1 ELSE 0
  BY <1>2, <1>4
<1>6. g = [h EXCEPT !.intervals = w, !.interval = a]
  BY <1>1, <1>3, <1>4 DEF Trading!StartInterval
<1>7. g \in Trading!Hooks /\ g.intervals = w /\ g.interval = a /\ Rest(g, h)
  BY <1>5, <1>6 DEF Rest
<1>8. QED BY <1>3, <1>5, <1>7 DEF Counted

\* The start of a load.
LEMMA FetchingFits ==
  ASSUME NEW h, h \in Trading!Hooks, NEW silent \in BOOLEAN
  PROVE  LET g == Trading!Fetching(h, silent)
         IN /\ g \in Trading!Hooks /\ (Counted(h) => Counted(g))
            /\ g.context = h.context /\ g.done = h.done /\ g.mounted = h.mounted
            /\ g.data = h.data /\ g.interval = h.interval /\ g.intervals = h.intervals
            /\ g.error = FALSE /\ g.loading = (h.loading \/ ~silent)
BY DEF Trading!Hooks, Trading!Fetching, Counted

LEMMA CleanUpFits ==
  ASSUME NEW h, h \in Trading!Hooks, Counted(h)
  PROVE  LET g == Trading!CleanUp(h)
         IN /\ g \in Trading!Hooks /\ Counted(g) /\ g.interval = NoAccount
            /\ g.context = h.context + 1 /\ g.mounted = h.mounted
<1>1. PICK k : k = [h EXCEPT !.context = @ + 1] OBVIOUS
<1>2. k \in Trading!Hooks /\ Counted(k) /\ k.context = h.context + 1 /\ k.mounted = h.mounted
  BY <1>1 DEF Trading!Hooks, Counted
<1>3. PICK g : g = Trading!StopInterval(k) OBVIOUS
<1>4. g \in Trading!Hooks /\ Counted(g) /\ g.interval = NoAccount /\ Rest(g, k)
  BY <1>2, <1>3, StopFits
<1>5. g = Trading!CleanUp(h) BY <1>1, <1>3 DEF Trading!CleanUp
<1>6. QED BY <1>2, <1>4, <1>5 DEF Rest

LEMMA EffectFits ==
  ASSUME NEW h, h \in Trading!Hooks, Counted(h), NEW a \in Accounts
  PROVE  LET g == Trading!Effect(h, a)
         IN /\ g \in Trading!Hooks /\ Counted(g) /\ g.interval = a
            /\ g.context = h.context /\ g.mounted = h.mounted
            /\ g.data = Trading!NoData /\ g.error = FALSE /\ g.loading = TRUE
<1>1. PICK k : k = [h EXCEPT !.data = Trading!NoData, !.error = FALSE, !.done = FALSE] OBVIOUS
<1>2. /\ k \in Trading!Hooks /\ Counted(k) /\ k.context = h.context /\ k.mounted = h.mounted
      /\ k.data = Trading!NoData
  BY <1>1 DEF Trading!Hooks, Counted, Trading!NoData, Trading!Data
<1>3. PICK f : f = Trading!Fetching(k, FALSE) OBVIOUS
<1>4. /\ f \in Trading!Hooks /\ Counted(f) /\ f.context = k.context /\ f.mounted = k.mounted
      /\ f.data = k.data /\ f.error = FALSE /\ f.loading = TRUE
  BY <1>2, <1>3, FetchingFits
<1>5. PICK g : g = Trading!StartInterval(f, a) OBVIOUS
<1>6. g \in Trading!Hooks /\ Counted(g) /\ g.interval = a /\ Rest(g, f)
  BY <1>4, <1>5, StartFits
<1>7. g = Trading!Effect(h, a) BY <1>1, <1>3, <1>5 DEF Trading!Effect
<1>8. QED BY <1>2, <1>4, <1>6, <1>7 DEF Rest

\* A load begins, in the context of the hook.
LEMMA LoadFits ==
  ASSUME TradingInv, NEW r \in Slots, NEW a \in Accounts, NEW silent \in BOOLEAN,
         NEW first \in BOOLEAN, ~Trading!Loads(r), hook' \in Trading!Hooks,
         hook'.context >= hook.context, Trading!Load(r, a, silent, first, hook')
  PROVE  /\ request' \in [Slots -> Trading!Request]
         /\ Addressed'
         /\ Trading!Current(r)' /\ request'[r].of = a /\ request'[r].silent = silent
         /\ \A q \in Slots \ {r} : request'[q] = request[q]
<1>1. PICK x : x = [at |-> "loading", of |-> a, context |-> hook'.context, silent |-> silent,
                    first |-> first, seen |-> 0]
  OBVIOUS
<1>2. hook.context \in Nat /\ hook'.context \in Nat
  BY DEF TradingInv, Trading!TypeOK, Trading!Hooks
<1>3. /\ x \in Trading!Request /\ x.at = "loading" /\ x.of = a /\ x.context = hook'.context
      /\ x.silent = silent
  BY <1>1, <1>2 DEF Trading!Request
<1>4. request' = [request EXCEPT ![r] = x] /\ request \in [Slots -> Trading!Request]
  BY <1>1 DEF Trading!Load, TradingInv, Trading!TypeOK
<1>5. /\ request' \in [Slots -> Trading!Request] /\ request'[r] = x
      /\ \A q \in Slots \ {r} : request'[q] = request[q]
  BY <1>3, <1>4
<1>6. \A q \in Slots : request[q].context \in Nat
  BY <1>4 DEF Trading!Request
<1>7. Addressed'
  BY <1>2, <1>3, <1>5, <1>6 DEF TradingInv, Addressed, Trading!Loads
<1>8. Trading!Current(r)' BY <1>3, <1>5 DEF Trading!Current, Trading!Loads
<1>9. QED BY <1>3, <1>5, <1>7, <1>8

\* A load that only sets the loading state begins.
LEMMA FetchStep ==
  ASSUME TradingInv, NEW r \in Slots, NEW a \in Accounts, NEW silent \in BOOLEAN,
         NEW first \in BOOLEAN, ~Trading!Loads(r), hook' \in Trading!Hooks,
         Trading!Load(r, a, silent, first, hook'),
         hook'.context = hook.context, hook'.mounted = hook.mounted, hook'.data = hook.data,
         hook.mounted => hook'.loading = (hook.loading \/ ~silent),
         Polling', selected' = selected,
         UNCHANGED <<version, changes, orders, fails>>, hidden' \in BOOLEAN,
         late' \in BOOLEAN, ~late' => ~late /\ a = selected
  PROVE  TradingInv'
<1>1. hook.context \in Nat /\ hook'.context >= hook.context
  BY DEF TradingInv, Trading!TypeOK, Trading!Hooks
<1>2. /\ request' \in [Slots -> Trading!Request]
      /\ Addressed'
      /\ Trading!Current(r)' /\ request'[r].of = a /\ request'[r].silent = silent
      /\ \A q \in Slots \ {r} : request'[q] = request[q]
  BY <1>1, LoadFits
<1>3. Trading!TypeOK' BY <1>2 DEF TradingInv, Trading!TypeOK
<1>4. \A q \in Slots \ {r} : Trading!Current(q)' <=> Trading!Current(q)
  BY <1>2 DEF Trading!Current, Trading!Loads
<1>5. ~Trading!Current(r) BY DEF Trading!Current
<1>6. Trading!Waiting'
  <2>1. ASSUME Trading!Watching', hook'.loading
        PROVE  \E q \in Slots : Trading!Current(q)' /\ ~request'[q].silent
    <3>1. CASE ~silent BY <1>2, <3>1
    <3>2. CASE silent
      <4>1. Trading!Watching /\ hook.loading BY <2>1, <3>2 DEF Trading!Watching
      <4>2. PICK q \in Slots : Trading!Current(q) /\ ~request[q].silent
        BY <4>1 DEF TradingInv, Trading!Waiting
      <4>3. QED BY <1>2, <1>4, <1>5, <4>2
    <3>3. QED BY <3>1, <3>2
  <2>2. QED BY <1>2, <2>1 DEF Trading!Waiting
<1>7. Selected'
  BY <1>2, <1>4 DEF TradingInv, Selected, Trading!ShowsSelected, Trading!Watching
<1>8. QED BY <1>2, <1>3, <1>6, <1>7 DEF TradingInv

\* late is what it was, unless an order is answered.
LEMMA LateKept ==
  ASSUME late \in BOOLEAN, late' = (late \/ AnsweredLate)
  PROVE  late' \in BOOLEAN /\ (~late' => ~late /\ ~AnsweredLate)
OBVIOUS

LEMMA SelectStep ==
  ASSUME TradingInv, late \in BOOLEAN, late' = (late \/ AnsweredLate),
         NEW r \in Slots, NEW a \in Accounts, Trading!Select(r, a)
  PROVE  TradingInv'
<1>1. hook \in Trading!Hooks /\ Counted(hook) /\ hook.context \in Nat
  BY DEF TradingInv, Trading!TypeOK, Trading!Hooks, Polling
<1>2. PICK k : k = Trading!CleanUp(hook) OBVIOUS
<1>3. k \in Trading!Hooks /\ Counted(k) /\ k.context = hook.context + 1 /\ k.mounted = hook.mounted
  BY <1>1, <1>2, CleanUpFits
<1>4. hook' = Trading!Effect(k, a) BY <1>2 DEF Trading!Select
<1>5. /\ hook' \in Trading!Hooks /\ Counted(hook') /\ hook'.interval = a
      /\ hook'.context = hook.context + 1 /\ hook'.mounted = hook.mounted
      /\ hook'.data = Trading!NoData /\ hook'.error = FALSE /\ hook'.loading = TRUE
  BY <1>3, <1>4, EffectFits
<1>6. ~Trading!Loads(r) /\ Trading!Load(r, a, FALSE, TRUE, hook') /\ hook'.context >= hook.context
  <2>1. Trading!Load(r, a, FALSE, TRUE, hook') BY DEF Trading!Select
  <2>2. ~Trading!Loads(r) BY DEF Trading!Select, Trading!At, Trading!Loads
  <2>3. hook'.context >= hook.context BY <1>1, <1>5
  <2>4. QED BY <2>1, <2>2, <2>3
<1>7. /\ request' \in [Slots -> Trading!Request]
      /\ Addressed'
      /\ Trading!Current(r)' /\ request'[r].of = a /\ request'[r].silent = FALSE
      /\ \A q \in Slots \ {r} : request'[q] = request[q]
  BY <1>5, <1>6, LoadFits
<1>8. Trading!TypeOK' BY <1>5, <1>7 DEF Trading!Select, TradingInv, Trading!TypeOK
<1>9. Polling'
  BY <1>5, TradingAssumption DEF Trading!Select, Polling, Counted, Trading!Watching, Trading!Parameters
<1>10. Trading!Waiting' BY <1>5, <1>7 DEF Trading!Waiting
<1>11. \A q \in Slots \ {r} : ~Trading!Current(q)'
  <2>1. ASSUME NEW q \in Slots \ {r}, Trading!Current(q)' PROVE FALSE
    <3>1. Trading!Loads(q) /\ request[q].context = hook.context + 1
      BY <1>5, <1>7, <2>1 DEF Trading!Current, Trading!Loads
    <3>2. request[q].context <= hook.context BY <3>1 DEF TradingInv, Addressed
    <3>3. QED BY <1>1, <3>1, <3>2
  <2>2. QED BY <2>1
<1>12. Selected'
  BY <1>5, <1>7, <1>11 DEF Selected, Trading!ShowsSelected, Trading!Select
<1>13. QED BY <1>7, <1>8, <1>9, <1>10, <1>12 DEF TradingInv

\* The interval fires, the page is seen again, or is told to reload.
LEMMA PollingStep ==
  ASSUME TradingInv, late \in BOOLEAN, late' = (late \/ AnsweredLate),
         NEW r \in Slots, Trading!Tick(r) \/ Trading!Show(r) \/ Trading!Reload(r)
  PROVE  TradingInv'
<1>1. /\ hook \in Trading!Hooks /\ Counted(hook) /\ hook.done \in BOOLEAN /\ hook.mounted \in BOOLEAN
      /\ selected \in Accounts \cup {NoAccount} /\ hidden \in BOOLEAN
  BY DEF TradingInv, Trading!TypeOK, Trading!Hooks, Polling
<1>2. late' \in BOOLEAN /\ (~late' => ~late) BY LateKept
<1>3. ~Trading!Loads(r) BY DEF Trading!Tick, Trading!Show, Trading!Reload, Trading!At, Trading!Loads
<1>4. CASE Trading!Tick(r)
  <2>1. PICK a \in Accounts : hook.intervals[a] > 0 /\ Trading!Load(r, a, TRUE, FALSE, hook)
    BY <1>4 DEF Trading!Tick
  <2>2. a = selected
    BY <2>1, TradingAssumption DEF TradingInv, Polling, Counted, Trading!Parameters
  <2>3. hook' = Trading!Fetching(hook, TRUE) BY <1>4 DEF Trading!Tick
  <2>4. /\ hook' \in Trading!Hooks /\ Counted(hook')
        /\ hook'.context = hook.context /\ hook'.done = hook.done /\ hook'.mounted = hook.mounted
        /\ hook'.data = hook.data /\ hook'.interval = hook.interval
        /\ hook'.loading = (hook.loading \/ ~TRUE)
    BY <1>1, <2>3, FetchingFits
  <2>5. Trading!Load(r, a, TRUE, FALSE, hook') BY <2>1, <2>4 DEF Trading!Load
  <2>6. UNCHANGED <<version, selected, hidden, changes, orders, fails>> BY <1>4 DEF Trading!Tick
  <2>7. Polling' BY <2>4, <2>6 DEF TradingInv, Polling, Trading!Watching
  <2>8. QED BY <1>1, <1>2, <1>3, <2>2, <2>4, <2>5, <2>6, <2>7, FetchStep
<1>5. CASE Trading!Reload(r)
  <2>1. PICK silent \in BOOLEAN : silent = hook.done BY <1>1
  <2>2. hook' = Trading!Fetching(hook, silent) BY <1>5, <2>1 DEF Trading!Reload
  <2>3. /\ hook' \in Trading!Hooks /\ Counted(hook')
        /\ hook'.context = hook.context /\ hook'.mounted = hook.mounted
        /\ hook'.data = hook.data /\ hook'.interval = hook.interval
        /\ hook'.loading = (hook.loading \/ ~silent)
    <3>1. PICK k : k = Trading!Fetching(hook, silent) OBVIOUS
    <3>2. /\ k \in Trading!Hooks /\ Counted(k)
          /\ k.context = hook.context /\ k.mounted = hook.mounted
          /\ k.data = hook.data /\ k.interval = hook.interval
          /\ k.loading = (hook.loading \/ ~silent)
      <4>1. CASE silent = TRUE
        <5>1. k = Trading!Fetching(hook, TRUE) BY <3>1, <4>1
        <5>2. QED BY <1>1, <4>1, <5>1, FetchingFits
      <4>2. CASE silent = FALSE
        <5>1. k = Trading!Fetching(hook, FALSE) BY <3>1, <4>2
        <5>2. QED BY <1>1, <4>2, <5>1, FetchingFits
      <4>3. QED BY <2>1, <4>1, <4>2
    <3>3. QED BY <2>2, <3>1, <3>2
  <2>4. Trading!Load(r, selected, silent, FALSE, hook')
    BY <1>5, <2>1, <2>3 DEF Trading!Load, Trading!Reload
  <2>5. selected \in Accounts /\ UNCHANGED <<version, selected, hidden, changes, orders, fails>>
    BY <1>1, <1>5 DEF Trading!Reload
  <2>6. Polling' BY <2>3, <2>5 DEF TradingInv, Polling, Trading!Watching
  <2>7. QED BY <1>1, <1>2, <1>3, <2>3, <2>4, <2>5, <2>6, FetchStep
<1>6. CASE Trading!Show(r) /\ selected # NoAccount
  <2>1. PICK k : k = Trading!Fetching(hook, TRUE) OBVIOUS
  <2>2. /\ k \in Trading!Hooks /\ Counted(k)
        /\ k.context = hook.context /\ k.mounted = hook.mounted
        /\ k.data = hook.data /\ k.loading = (hook.loading \/ ~TRUE)
    BY <1>1, <2>1, FetchingFits
  <2>3. selected \in Accounts /\ hook' = Trading!StartInterval(k, selected)
    BY <1>1, <1>6, <2>1 DEF Trading!Show
  <2>4. hook' \in Trading!Hooks /\ Counted(hook') /\ hook'.interval = selected /\ Rest(hook', k)
    BY <2>2, <2>3, StartFits
  <2>5. Trading!Load(r, selected, TRUE, FALSE, hook')
    BY <1>6, <2>2, <2>4 DEF Trading!Load, Trading!Show, Rest
  <2>6. UNCHANGED <<version, selected, changes, orders, fails>> /\ hidden' = FALSE /\ hook.mounted
    BY <1>6 DEF Trading!Show
  <2>7. Polling' BY <1>6, <2>2, <2>4, <2>6 DEF Polling, Trading!Watching, Rest
  <2>8. QED BY <1>1, <1>2, <1>3, <2>2, <2>3, <2>4, <2>5, <2>6, <2>7, FetchStep DEF Rest
<1>7. CASE Trading!Show(r) /\ selected = NoAccount
  <2>1. UNCHANGED <<version, selected, hook, request, changes, orders, fails>> /\ hidden' = FALSE
    BY <1>7 DEF Trading!Show
  <2>2. ~Trading!Watching /\ ~Trading!Watching' BY <1>7, <2>1 DEF Trading!Watching
  <2>3. Trading!TypeOK' BY <2>1 DEF TradingInv, Trading!TypeOK
  <2>4. Polling' BY <2>1, <2>2 DEF TradingInv, Polling, Counted
  <2>5. Addressed' BY <2>1 DEF TradingInv, Addressed, Trading!Loads
  <2>6. Trading!Waiting' BY <2>2 DEF Trading!Waiting
  <2>7. Selected'
    BY <1>2, <2>1, <2>2 DEF TradingInv, Selected, Trading!ShowsSelected, Trading!Current, Trading!Loads
  <2>8. QED BY <2>3, <2>4, <2>5, <2>6, <2>7 DEF TradingInv
<1>8. QED BY <1>4, <1>5, <1>6, <1>7

\* The hook may change what it polls and no load, or nothing.
LEMMA HideStep ==
  ASSUME TradingInv, late \in BOOLEAN, late' = (late \/ AnsweredLate),
         Trading!Hide \/ Trading!Unmount
  PROVE  TradingInv'
<1>1. hook \in Trading!Hooks /\ Counted(hook) /\ hook.context \in Nat /\ hook.mounted
  BY DEF TradingInv, Trading!TypeOK, Trading!Hooks, Polling, Trading!Hide, Trading!Unmount
<1>2. late' \in BOOLEAN /\ (~late' => ~late) BY LateKept
<1>3. UNCHANGED <<version, selected, request, changes, orders, fails>>
  BY DEF Trading!Hide, Trading!Unmount
<1>4. CASE Trading!Hide
  <2>1. PICK k : k = Trading!StopInterval(hook) OBVIOUS
  <2>2. k \in Trading!Hooks /\ Counted(k) /\ k.interval = NoAccount /\ Rest(k, hook)
    BY <1>1, <2>1, StopFits
  <2>3. hook' = k /\ hidden' = TRUE BY <1>4, <2>1 DEF Trading!Hide
  <2>4. Trading!TypeOK' BY <1>3, <2>2, <2>3 DEF TradingInv, Trading!TypeOK
  <2>5. Polling' BY <2>2, <2>3 DEF Polling
  <2>6. Trading!Watching' = Trading!Watching BY <1>3, <2>2, <2>3 DEF Trading!Watching, Rest
  <2>7. \A r \in Slots : (Trading!Current(r)' <=> Trading!Current(r))
                         /\ (Trading!Loads(r)' <=> Trading!Loads(r))
    BY <1>3, <2>2, <2>3 DEF Trading!Current, Trading!Loads, Rest
  <2>8. Addressed' BY <1>3, <2>2, <2>3, <2>7 DEF TradingInv, Addressed, Rest
  <2>9. Trading!Waiting' BY <1>3, <2>2, <2>3, <2>6, <2>7 DEF TradingInv, Trading!Waiting, Rest
  <2>10. Selected'
    BY <1>2, <1>3, <2>2, <2>3, <2>6, <2>7 DEF TradingInv, Selected, Trading!ShowsSelected, Rest
  <2>11. QED BY <2>4, <2>5, <2>8, <2>9, <2>10 DEF TradingInv
<1>5. CASE Trading!Unmount
  <2>1. PICK k : k = Trading!CleanUp(hook) OBVIOUS
  <2>2. k \in Trading!Hooks /\ Counted(k) /\ k.interval = NoAccount /\ k.context = hook.context + 1
    BY <1>1, <2>1, CleanUpFits
  <2>3. hook' = [k EXCEPT !.mounted = FALSE] /\ hidden' = hidden
    BY <1>5, <2>1 DEF Trading!Unmount
  <2>4. /\ hook' \in Trading!Hooks /\ Counted(hook') /\ hook'.interval = NoAccount
        /\ hook'.context = hook.context + 1 /\ hook'.mounted = FALSE
    BY <2>2, <2>3 DEF Trading!Hooks, Counted
  <2>5. Trading!TypeOK' BY <1>3, <2>3, <2>4 DEF TradingInv, Trading!TypeOK
  <2>6. ~Trading!Watching' BY <2>4 DEF Trading!Watching
  <2>7. Polling' BY <2>4, <2>6 DEF Polling
  <2>8. \A r \in Slots : request[r].context \in Nat BY DEF TradingInv, Trading!TypeOK, Trading!Request
  <2>9. Addressed' BY <1>1, <1>3, <2>4, <2>8 DEF TradingInv, Addressed, Trading!Loads
  <2>10. Trading!Waiting' BY <2>6 DEF Trading!Waiting
  <2>11. \A r \in Slots : ~Trading!Current(r)'
    BY <1>1, <1>3, <2>4, <2>8 DEF TradingInv, Addressed, Trading!Current, Trading!Loads
  <2>12. Selected' BY <2>6, <2>11 DEF Selected, Trading!ShowsSelected
  <2>13. QED BY <2>5, <2>7, <2>9, <2>10, <2>12 DEF TradingInv
<1>6. QED BY <1>4, <1>5

\* One request goes on, without the hook: it loads as before, or does not load.
LEMMA RequestStep ==
  ASSUME TradingInv, late \in BOOLEAN, late' \in BOOLEAN, ~late' => ~late,
         UNCHANGED <<selected, hook, hidden>>, Trading!TypeOK',
         NEW r \in Slots, NEW x, request' = [request EXCEPT ![r] = x],
         x.at = "none" \/ x.of \in Accounts,
         \/ ~Trading!Loads(r) /\ x.at \notin {"loading", "answered"}
         \/ /\ Trading!Loads(r) /\ x.at \in {"loading", "answered"}
            /\ x.of = request[r].of /\ x.context = request[r].context /\ x.silent = request[r].silent
  PROVE  TradingInv'
<1>1. request'[r] = x /\ \A q \in Slots \ {r} : request'[q] = request[q]
  BY DEF TradingInv, Trading!TypeOK
<1>2. \A q \in Slots : /\ (Trading!Loads(q)' <=> Trading!Loads(q))
                       /\ (Trading!Current(q)' <=> Trading!Current(q))
                       /\ Trading!Loads(q) => request'[q].of = request[q].of
                                              /\ request'[q].context = request[q].context
                                              /\ request'[q].silent = request[q].silent
  BY <1>1 DEF Trading!Loads, Trading!Current
<1>3. Polling' BY DEF TradingInv, Polling, Counted, Trading!Watching
<1>4. Addressed' BY <1>1, <1>2 DEF TradingInv, Addressed
<1>5. Trading!Waiting'
  BY <1>2 DEF TradingInv, Trading!Waiting, Trading!Watching, Trading!Current
<1>6. Selected'
  BY <1>2 DEF TradingInv, Selected, Trading!ShowsSelected, Trading!Watching, Trading!Current
<1>7. QED BY <1>3, <1>4, <1>5, <1>6 DEF TradingInv

LEMMA NoneFits == Trading!None \in Trading!Request /\ Trading!None.at = "none"
BY DEF Trading!None, Trading!Request

\* The server, and what the page sends it.
LEMMA ServerPart ==
  ASSUME TradingInv, late \in BOOLEAN, late' = (late \/ AnsweredLate), NEW r \in Slots,
         Trading!Order(r) \/ Trading!Serve(r) \/ Trading!Execute(r) \/ Trading!Refused(r)
  PROVE  TradingInv'
<1>1. late' \in BOOLEAN /\ (~late' => ~late) BY LateKept
<1>2. request \in [Slots -> Trading!Request] /\ request[r] \in Trading!Request
      /\ version \in [Accounts -> Nat]
  BY DEF TradingInv, Trading!TypeOK
<1>3. /\ MaxOrders \in Nat /\ MaxFails \in Nat
      /\ orders \in 0..MaxOrders /\ fails \in 0..MaxFails
  BY TradingAssumption DEF TradingInv, Trading!TypeOK, Trading!Parameters
<1>4. request[r].at # "none" => request[r].of \in Accounts BY DEF TradingInv, Addressed
<1>5. CASE Trading!Order(r)
  <2>1. selected \in Accounts BY <1>5 DEF Trading!Order, TradingInv, Trading!TypeOK
  <2>2. PICK x : x = [Trading!None EXCEPT !.at = "ordering", !.of = selected] OBVIOUS
  <2>3. x \in Trading!Request /\ x.at = "ordering" /\ x.of = selected
    BY <2>1, <2>2, NoneFits DEF Trading!Request
  <2>4. request' = [request EXCEPT ![r] = x] BY <1>5, <2>2 DEF Trading!Order
  <2>5. Trading!TypeOK' BY <1>2, <1>3, <1>5, <2>3, <2>4 DEF Trading!Order, TradingInv, Trading!TypeOK
  <2>6. UNCHANGED <<selected, hook, hidden>> /\ ~Trading!Loads(r)
    BY <1>5 DEF Trading!Order, Trading!At, Trading!Loads
  <2>7. QED BY <1>1, <2>1, <2>3, <2>4, <2>5, <2>6, RequestStep
<1>6. CASE Trading!Serve(r)
  <2>1. request[r].at = "loading" BY <1>6 DEF Trading!Serve, Trading!At
  <2>2. request[r].of \in Accounts BY <1>4, <2>1
  <2>3. PICK n \in Nat : n = version[request[r].of] BY <1>2, <2>2
  <2>4. PICK x : x = [request[r] EXCEPT !.at = "answered", !.seen = n] OBVIOUS
  <2>5. /\ x \in Trading!Request /\ x.at = "answered" /\ x.of = request[r].of
        /\ x.context = request[r].context /\ x.silent = request[r].silent
    BY <1>2, <2>4 DEF Trading!Request
  <2>6. request' = [request EXCEPT ![r] = x] BY <1>2, <1>6, <2>3, <2>4 DEF Trading!Serve
  <2>7. Trading!TypeOK' BY <1>2, <1>6, <2>5, <2>6 DEF Trading!Serve, TradingInv, Trading!TypeOK
  <2>8. UNCHANGED <<selected, hook, hidden>> /\ Trading!Loads(r)
    BY <1>6, <2>1 DEF Trading!Serve, Trading!Loads
  <2>9. QED BY <1>1, <2>2, <2>5, <2>6, <2>7, <2>8, RequestStep
<1>7. CASE Trading!Execute(r)
  <2>1. request[r].at = "ordering" BY <1>7 DEF Trading!Execute, Trading!At
  <2>2. PICK x : x = [request[r] EXCEPT !.at = "ordered"] OBVIOUS
  <2>3. x \in Trading!Request /\ x.at = "ordered" /\ x.of = request[r].of
    BY <1>2, <2>2 DEF Trading!Request
  <2>4. request' = [request EXCEPT ![r] = x] BY <1>2, <1>7, <2>2 DEF Trading!Execute
  <2>5. version' \in [Accounts -> Nat] BY <1>2, <1>4, <1>7, <2>1 DEF Trading!Execute
  <2>6. Trading!TypeOK' BY <1>2, <1>7, <2>3, <2>4, <2>5 DEF Trading!Execute, TradingInv, Trading!TypeOK
  <2>7. UNCHANGED <<selected, hook, hidden>> /\ ~Trading!Loads(r)
    BY <1>7, <2>1 DEF Trading!Execute, Trading!Loads
  <2>8. QED BY <1>1, <1>4, <2>1, <2>3, <2>4, <2>6, <2>7, RequestStep
<1>8. CASE Trading!Refused(r)
  <2>1. request[r].at \in {"ordering", "ordered"} BY <1>8 DEF Trading!Refused
  <2>2. request' = [request EXCEPT ![r] = Trading!None] BY <1>8 DEF Trading!Refused
  <2>3. Trading!TypeOK'
    BY <1>2, <1>3, <1>8, <2>2, NoneFits DEF Trading!Refused, TradingInv, Trading!TypeOK
  <2>4. UNCHANGED <<selected, hook, hidden>> /\ ~Trading!Loads(r)
    BY <1>8, <2>1 DEF Trading!Refused, Trading!Loads
  <2>5. QED BY <1>1, <2>2, <2>3, <2>4, NoneFits, RequestStep
<1>9. QED BY <1>5, <1>6, <1>7, <1>8

\* An account changes elsewhere, or nothing happens.
LEMMA ChangePart ==
  ASSUME TradingInv, late \in BOOLEAN, late' \in BOOLEAN, ~late' => ~late,
         UNCHANGED <<selected, hook, hidden, request>>, Trading!TypeOK'
  PROVE  TradingInv'
<1>1. \A q \in Slots : (Trading!Current(q)' <=> Trading!Current(q)) /\ (Trading!Loads(q)' <=> Trading!Loads(q))
  BY DEF Trading!Current, Trading!Loads
<1>2. Trading!Watching' <=> Trading!Watching BY DEF Trading!Watching
<1>3. Polling' BY <1>2 DEF TradingInv, Polling, Counted
<1>4. Addressed' BY <1>1 DEF TradingInv, Addressed
<1>5. Trading!Waiting' BY <1>1, <1>2 DEF TradingInv, Trading!Waiting
<1>6. Selected' BY <1>1, <1>2 DEF TradingInv, Selected, Trading!ShowsSelected
<1>7. QED BY <1>3, <1>4, <1>5, <1>6 DEF TradingInv

\* The end of a load.
LEMMA EndedFits ==
  ASSUME TradingInv, NEW r \in Slots, NEW h, h \in Trading!Hooks
  PROVE  LET g == Trading!Ended(r, h)
         IN /\ g \in Trading!Hooks
            /\ g.context = h.context /\ g.mounted = h.mounted /\ g.data = h.data
            /\ g.error = h.error /\ g.interval = h.interval /\ g.intervals = h.intervals
            /\ g.loading = IF Trading!Current(r) /\ ~request[r].silent THEN FALSE ELSE h.loading
<1>1. request[r].first \in BOOLEAN /\ h.done \in BOOLEAN /\ h.loading \in BOOLEAN
  BY DEF TradingInv, Trading!TypeOK, Trading!Request, Trading!Hooks
<1>2. PICK d \in BOOLEAN : d = (h.done \/ request[r].first) BY <1>1
<1>3. PICK l \in BOOLEAN : l = IF Trading!Current(r) /\ ~request[r].silent THEN FALSE ELSE h.loading
  BY <1>1
<1>4. PICK g : g = Trading!Ended(r, h) OBVIOUS
<1>5. g = [h EXCEPT !.loading = l, !.done = d] BY <1>2, <1>3, <1>4 DEF Trading!Ended
<1>6. /\ g \in Trading!Hooks
      /\ g.context = h.context /\ g.mounted = h.mounted /\ g.data = h.data
      /\ g.error = h.error /\ g.interval = h.interval /\ g.intervals = h.intervals
      /\ g.loading = l
  BY <1>5 DEF Trading!Hooks
<1>7. QED BY <1>3, <1>4, <1>6

\* A load ends: it counts when it is current, and leaves data or an error.
LEMMA EndsStep ==
  ASSUME TradingInv, late \in BOOLEAN, late' \in BOOLEAN, ~late' => ~late,
         NEW r \in Slots, Trading!Loads(r), request' = [request EXCEPT ![r] = Trading!None],
         UNCHANGED <<selected, hidden>>, Trading!TypeOK',
         hook'.context = hook.context, hook'.mounted = hook.mounted,
         hook'.interval = hook.interval, hook'.intervals = hook.intervals,
         hook.mounted /\ ~Trading!Current(r) =>
           hook'.data = hook.data /\ hook'.error = hook.error /\ hook'.loading = hook.loading,
         hook.mounted /\ Trading!Current(r) =>
           /\ hook'.loading = IF ~request[r].silent THEN FALSE ELSE hook.loading
           /\ \/ hook'.data # Trading!NoData /\ hook'.data.of = request[r].of
              \/ hook'.data = hook.data /\ hook'.error
  PROVE  TradingInv'
<1>1. request'[r].at = "none" /\ \A q \in Slots \ {r} : request'[q] = request[q]
  BY NoneFits DEF TradingInv, Trading!TypeOK
<1>2. /\ \A q \in Slots \ {r} : /\ (Trading!Current(q)' <=> Trading!Current(q))
                                /\ (Trading!Loads(q)' <=> Trading!Loads(q))
      /\ ~Trading!Current(r)' /\ ~Trading!Loads(r)'
  BY <1>1 DEF Trading!Current, Trading!Loads
<1>3. Trading!Watching' <=> Trading!Watching BY DEF Trading!Watching
<1>4. Polling' BY <1>3 DEF TradingInv, Polling, Counted
<1>5. Addressed' BY <1>1, <1>2 DEF TradingInv, Addressed
<1>6. Trading!Waiting'
  <2>1. ASSUME Trading!Watching
        PROVE  /\ hook'.loading => \E q \in Slots : Trading!Current(q)' /\ ~request'[q].silent
               /\ hook'.data = Trading!NoData /\ ~hook'.error => \E q \in Slots : Trading!Current(q)'
    <3>1. /\ hook.mounted
          /\ hook.loading => \E q \in Slots : Trading!Current(q) /\ ~request[q].silent
          /\ hook.data = Trading!NoData /\ ~hook.error => \E q \in Slots : Trading!Current(q)
      BY <2>1 DEF TradingInv, Trading!Waiting, Trading!Watching
    <3>2. CASE ~Trading!Current(r) BY <1>1, <1>2, <3>1, <3>2
    <3>3. CASE Trading!Current(r)
      <4>1. ~(hook'.data = Trading!NoData /\ ~hook'.error)
        BY <3>1, <3>3
      <4>2. CASE request[r].silent BY <1>1, <1>2, <3>1, <3>3, <4>1, <4>2
      <4>3. CASE ~request[r].silent BY <3>1, <3>3, <4>1, <4>3
      <4>4. QED BY <4>2, <4>3
    <3>4. QED BY <3>2, <3>3
  <2>2. QED BY <1>3, <2>1 DEF Trading!Waiting
<1>7. Selected'
  BY <1>1, <1>2, <1>3 DEF TradingInv, Selected, Trading!ShowsSelected, Trading!Watching
<1>8. QED BY <1>4, <1>5, <1>6, <1>7 DEF TradingInv

LEMMA AnswerStep ==
  ASSUME TradingInv, late \in BOOLEAN, late' = (late \/ AnsweredLate), NEW r \in Slots,
         Trading!Answer(r) \/ Trading!Fail(r)
  PROVE  TradingInv'
<1>1. late' \in BOOLEAN /\ (~late' => ~late) BY LateKept
<1>2. Trading!Loads(r) /\ request' = [request EXCEPT ![r] = Trading!None] /\ UNCHANGED <<selected, hidden>>
  BY DEF Trading!Answer, Trading!Fail, Trading!At, Trading!Loads
<1>3. /\ request \in [Slots -> Trading!Request] /\ request[r] \in Trading!Request
      /\ hook \in Trading!Hooks /\ request[r].of \in Accounts /\ request[r].seen \in Nat
  BY <1>2 DEF TradingInv, Trading!TypeOK, Addressed, Trading!Loads, Trading!Request
<1>4. request' \in [Slots -> Trading!Request] BY <1>2, <1>3, NoneFits
<1>5. fails' \in 0..MaxFails
  BY TradingAssumption DEF Trading!Answer, Trading!Fail, TradingInv, Trading!TypeOK, Trading!Parameters
<1>6. UNCHANGED <<version, changes, orders>> BY DEF Trading!Answer, Trading!Fail
<1>7. ASSUME hook' \in Trading!Hooks PROVE Trading!TypeOK'
  BY <1>2, <1>4, <1>5, <1>6, <1>7 DEF TradingInv, Trading!TypeOK
<1>8. CASE ~hook.mounted
  <2>1. hook' = hook BY <1>8 DEF Trading!Answer, Trading!Fail
  <2>2. QED BY <1>1, <1>2, <1>3, <1>7, <1>8, <2>1, EndsStep
<1>9. CASE hook.mounted /\ ~Trading!Current(r)
  <2>1. hook' = Trading!Ended(r, hook) BY <1>9 DEF Trading!Answer, Trading!Fail
  <2>2. /\ hook' \in Trading!Hooks
        /\ hook'.context = hook.context /\ hook'.mounted = hook.mounted /\ hook'.data = hook.data
        /\ hook'.error = hook.error /\ hook'.interval = hook.interval
        /\ hook'.intervals = hook.intervals /\ hook'.loading = hook.loading
    BY <1>3, <1>9, <2>1, EndedFits
  <2>3. QED BY <1>1, <1>2, <1>7, <1>9, <2>2, EndsStep
<1>10. CASE hook.mounted /\ Trading!Current(r)
  <2>1. PICK d : d = [of |-> request[r].of, version |-> request[r].seen] OBVIOUS
  <2>2. d \in Trading!Data /\ d.of = request[r].of /\ d # Trading!NoData
    BY <1>3, <2>1, TradingAssumption DEF Trading!Data, Trading!NoData, Trading!Parameters
  <2>3. PICK h : /\ hook' = Trading!Ended(r, h)
                 /\ h = [hook EXCEPT !.data = d] \/ h = [hook EXCEPT !.error = TRUE]
    BY <1>10, <2>1 DEF Trading!Answer, Trading!Fail
  <2>4. /\ h \in Trading!Hooks
        /\ h.context = hook.context /\ h.mounted = hook.mounted /\ h.loading = hook.loading
        /\ h.interval = hook.interval /\ h.intervals = hook.intervals
        /\ h.data = d \/ (h.data = hook.data /\ h.error)
    BY <1>3, <2>2, <2>3 DEF Trading!Hooks
  <2>5. /\ hook' \in Trading!Hooks
        /\ hook'.context = h.context /\ hook'.mounted = h.mounted /\ hook'.data = h.data
        /\ hook'.error = h.error /\ hook'.interval = h.interval /\ hook'.intervals = h.intervals
        /\ hook'.loading = IF Trading!Current(r) /\ ~request[r].silent THEN FALSE ELSE h.loading
    BY <2>3, <2>4, EndedFits
  <2>6. QED BY <1>1, <1>2, <1>7, <1>10, <2>2, <2>4, <2>5, EndsStep
<1>11. QED BY <1>8, <1>9, <1>10

\* An order is answered: on another account than the one selected, late.
LEMMA OrderedStep ==
  ASSUME TradingInv, late \in BOOLEAN, late' = (late \/ AnsweredLate), NEW r \in Slots,
         Trading!Ordered(r)
  PROVE  TradingInv'
<1>1. /\ request[r].at = "ordered" /\ request[r].of \in Accounts /\ ~Trading!Loads(r)
      /\ request \in [Slots -> Trading!Request]
      /\ hook \in Trading!Hooks /\ hook.done \in BOOLEAN /\ hook.mounted \in BOOLEAN /\ hook.context \in Nat
      /\ Counted(hook)
  BY DEF Trading!Ordered, Trading!At, Trading!Loads, TradingInv, Trading!TypeOK, Trading!Hooks,
         Addressed, Polling
<1>2. PICK a \in Accounts, silent \in BOOLEAN : a = request[r].of /\ silent = hook.done
  BY <1>1
<1>3. Trading!Load(r, a, silent, FALSE, hook) /\ UNCHANGED <<version, selected, hidden, changes, orders, fails>>
  BY <1>2 DEF Trading!Ordered
<1>4. request'[r].at = "loading" BY <1>1, <1>3 DEF Trading!Load
<1>5. late' \in BOOLEAN /\ (~late' => ~late /\ a = selected)
  BY <1>1, <1>2, <1>4 DEF AnsweredLate, Trading!At
<1>6. /\ hook' \in Trading!Hooks /\ Counted(hook')
      /\ hook'.context = hook.context /\ hook'.mounted = hook.mounted
      /\ hook'.data = hook.data /\ hook'.interval = hook.interval
      /\ hook.mounted => hook'.loading = (hook.loading \/ ~silent)
  <2>1. CASE ~hook.mounted
    <3>1. hook' = hook BY <2>1 DEF Trading!Ordered
    <3>2. QED BY <1>1, <2>1, <3>1
  <2>2. CASE hook.mounted /\ silent = TRUE
    <3>1. hook' = Trading!Fetching(hook, TRUE) BY <1>2, <2>2 DEF Trading!Ordered
    <3>2. QED BY <1>1, <2>2, <3>1, FetchingFits
  <2>3. CASE hook.mounted /\ silent = FALSE
    <3>1. hook' = Trading!Fetching(hook, FALSE) BY <1>2, <2>3 DEF Trading!Ordered
    <3>2. QED BY <1>1, <2>3, <3>1, FetchingFits
  <2>4. QED BY <1>1, <1>2, <2>1, <2>2, <2>3
<1>7. Trading!Load(r, a, silent, FALSE, hook') BY <1>3, <1>6 DEF Trading!Load
<1>8. Polling' BY <1>3, <1>6 DEF TradingInv, Polling, Trading!Watching
<1>9. hidden' \in BOOLEAN BY <1>3 DEF TradingInv, Trading!TypeOK
<1>10. QED BY <1>1, <1>3, <1>5, <1>6, <1>7, <1>8, <1>9, FetchStep

LEMMA TradingStep ==
  ASSUME TradingInv, late \in BOOLEAN, [MCNext]_mcvars
  PROVE  (TradingInv /\ late \in BOOLEAN)'
<1>1. CASE UNCHANGED tradingVars
  <2>1. UNCHANGED <<version, selected, hook, hidden, request, changes, orders, fails, late>>
    BY <1>1 DEF tradingVars
  <2>2. Trading!TypeOK' BY <2>1 DEF TradingInv, Trading!TypeOK
  <2>3. QED BY <2>1, <2>2, ChangePart
<1>2. CASE Trading!Next /\ late' = (late \/ AnsweredLate)
  <2>1. late' \in BOOLEAN /\ (~late' => ~late) BY <1>2, LateKept
  <2>2. ASSUME NEW a \in Accounts, Trading!Change(a) PROVE TradingInv'
    <3>1. Trading!TypeOK'
      BY <2>2, TradingAssumption DEF TradingInv, Trading!TypeOK, Trading!Change, Trading!Parameters
    <3>2. QED BY <2>1, <2>2, <3>1, ChangePart DEF Trading!Change
  <2>3. QED
    BY <1>2, <2>1, <2>2, SelectStep, PollingStep, ServerPart, AnswerStep, OrderedStep, HideStep
    DEF Trading!Next, Trading!Proceed
<1>3. QED BY <1>1, <1>2 DEF MCNext, TradingNext, mcvars

LEMMA TradingInit == MCInit => TradingInv /\ late \in BOOLEAN
<1> SUFFICES ASSUME MCInit PROVE TradingInv /\ late \in BOOLEAN OBVIOUS
<1>1. Trading!Init /\ late = FALSE BY DEF MCInit
<1>2. Trading!TypeOK
  <2>1. PICK v : v = [a \in Accounts |-> 0] OBVIOUS
  <2>2. v \in [Accounts -> Nat] BY <2>1
  <2>3. Trading!NoData \in Trading!Data BY DEF Trading!NoData, Trading!Data
  <2>4. hook = [context |-> 0, done |-> FALSE, interval |-> NoAccount, intervals |-> v, mounted |-> TRUE,
                data |-> Trading!NoData, error |-> FALSE, loading |-> FALSE]
    BY <1>1, <2>1 DEF Trading!Init
  <2>5. hook \in Trading!Hooks BY <2>2, <2>3, <2>4 DEF Trading!Hooks
  <2>6. request \in [Slots -> Trading!Request] BY <1>1, NoneFits DEF Trading!Init
  <2>7. MaxChanges \in Nat /\ MaxOrders \in Nat /\ MaxFails \in Nat
    BY TradingAssumption DEF Trading!Parameters
  <2>8. version = v /\ selected = NoAccount /\ hidden = FALSE /\ changes = 0 /\ orders = 0 /\ fails = 0
    BY <1>1, <2>1 DEF Trading!Init
  <2>9. changes \in 0..MaxChanges /\ orders \in 0..MaxOrders /\ fails \in 0..MaxFails
    BY <2>7, <2>8
  <2>10. QED BY <2>2, <2>5, <2>6, <2>8, <2>9 DEF Trading!TypeOK
<1>3. Polling
  BY <1>1, TradingAssumption DEF Trading!Init, Polling, Counted, Trading!Watching, Trading!Parameters
<1>4. \A r \in Slots : request[r].at = "none" BY <1>1, NoneFits DEF Trading!Init
<1>5. Addressed BY <1>4 DEF Addressed, Trading!Loads
<1>6. ~Trading!Watching BY <1>1 DEF Trading!Init, Trading!Watching
<1>7. Trading!Waiting BY <1>6 DEF Trading!Waiting
<1>8. Selected BY <1>4, <1>6 DEF Selected, Trading!Current, Trading!Loads, Trading!ShowsSelected
<1>9. QED BY <1>1, <1>2, <1>3, <1>5, <1>7, <1>8 DEF TradingInv

\* The scopes are behaviours of the monitor page.
LEMMA ScopesRefine ==
  ASSUME [MCNext]_mcvars
  PROVE  [Next]_vars
BY DEF MCNext, MonitorNext, TradingNext, Next, mcvars

\* In every scope the monitor page keeps its invariant and, whatever loads,
\* answers, failures and selections overlap, the trading page keeps its own.
THEOREM PagesInvariant == MCSpec => [](IInv /\ DeliveredOrCut /\ TradingInv)
<1>1. MCInit => IInv /\ DeliveredOrCut /\ TradingInv /\ late \in BOOLEAN
  <2>1. MCInit => Init BY DEF MCInit
  <2>2. Init => DeliveredOrCut BY DEF Init, DeliveredOrCut, NoConn
  <2>3. QED BY <2>1, <2>2, InitInvariant, TradingInit
<1>2. IInv /\ DeliveredOrCut /\ TradingInv /\ late \in BOOLEAN /\ [MCNext]_mcvars =>
        (IInv /\ DeliveredOrCut /\ TradingInv /\ late \in BOOLEAN)'
  BY NextStep, DeliveredStep, ScopesRefine, TradingStep
<1>3. QED BY <1>1, <1>2, PTL DEF MCSpec

\* The trading page waits only for a load under way that will end its waiting,
\* polls the account selected with one interval and none when it is not seen,
\* and, until an order is answered after its account was left, shows the
\* account selected (usePolling: fetchData, startInterval, stopInterval).
THEOREM PageCorrect == MCSpec => []PageFits
<1>1. TradingInv => PageFits
  <2> SUFFICES ASSUME TradingInv PROVE PageFits OBVIOUS
  <2>1. Trading!Waiting BY DEF TradingInv
  <2>2. SerialView BY DEF TradingInv, Selected, SerialView
  <2>3. Trading!Refreshing
    BY TradingAssumption DEF TradingInv, Polling, Counted, Trading!Refreshing, Trading!Polls, Trading!Parameters
  <2>4. QED BY <2>1, <2>2, <2>3 DEF PageFits
<1>2. QED BY <1>1, PagesInvariant, PTL
=============================================================================
