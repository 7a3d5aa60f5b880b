-------------------------- MODULE RiskControlProofs -------------------------
(***************************************************************************)
(* Theorems about RiskAlerts and MCRiskControl. A request saves copies it  *)
(* made earlier, over whatever the rows have become, so the invariant says *)
(* of every copy still to be saved what RowsFit says of the rows, and of   *)
(* every check still to be saved what OwnSnapshots says of the snapshots.  *)
(***************************************************************************)
EXTENDS MCRiskControl, SequenceTheorems, TLAPS

CopiesFit == \A t \in Threads, a \in AlertIds : RowFits(a, thread[t].copy[a])

IInv == TypeOK /\ RowsFit /\ CopiesFit

\* A row of alert a that may be stored.
Sound(a, row) == row \in Row /\ RowFits(a, row)

-----------------------------------------------------------------------------
(* Lemmas about rows                                                       *)

LEMMA BlankSound ==
  /\ \A a \in AlertIds : Sound(a, Blank) /\ Sound(a, [Blank EXCEPT !.is = "deleted"])
  /\ \A a \in AlertIds : Sound(a, Opened)
<1>1. Opened \in Row /\ Blank \in Row /\ [Blank EXCEPT !.is = "deleted"] \in Row
  BY DEF Opened, Blank, Row, Statuses, Someone
<1>2. \A a \in AlertIds : /\ RowFits(a, Opened) /\ RowFits(a, Blank)
                          /\ RowFits(a, [Blank EXCEPT !.is = "deleted"])
  BY DEF Opened, Blank, RowFits
<1>3. QED BY <1>1, <1>2 DEF Sound

\* What its owner does to a sound row leaves it sound.
LEMMA AcknowledgedSound ==
  ASSUME NEW a \in AlertIds, NEW row, Sound(a, row), NEW u \in Users, Owner[a] = u
  PROVE  Sound(a, Acknowledged(row, u))
BY OwnerAssumption DEF Sound, Acknowledged, Row, RowFits, Statuses, Someone

LEMMA ResolvedSound ==
  ASSUME NEW a \in AlertIds, NEW row, Sound(a, row), NEW u \in Users, Owner[a] = u
  PROVE  Sound(a, Resolved(row, u))
BY OwnerAssumption DEF Sound, Resolved, Row, RowFits, Statuses, Someone

LEMMA NotifiedSound ==
  ASSUME NEW a \in AlertIds, NEW row, Sound(a, row), NEW u \in Users, Owner[a] = u
  PROVE  Sound(a, Notified(row, u))
<1> DEFINE seen == IF row.status = "open" THEN Acknowledged(row, u) ELSE row
<1>1. Sound(a, seen)
  BY AcknowledgedSound
<1>2. seen.status # "open"
  BY DEF Acknowledged, Sound, Row
<1>3. Notified(row, u) = [seen EXCEPT !.notifiedBy = u]
  BY DEF Notified
<1> HIDE DEF seen
<1>4. QED
  BY <1>1, <1>2, <1>3 DEF Sound, Row, RowFits, Someone

\* The rows of the table are sound, and so is every copy.
LEMMA RowsSound ==
  ASSUME IInv, NEW a \in AlertIds
  PROVE  Sound(a, alerts[a]) /\ \A t \in Threads : Sound(a, thread[t].copy[a])
BY DEF IInv, TypeOK, RowsFit, CopiesFit, Sound, Request

\* A request takes sound copies.
LEMMA Takes ==
  ASSUME IInv, NEW t \in Threads, NEW new, NEW S \in SUBSET AlertIds, Take(t, new, S),
         \A a \in S : Sound(a, new[a])
  PROVE  thread' \in [Threads -> Request] /\ CopiesFit'
<1> DEFINE copy == [a \in AlertIds |-> IF a \in S THEN new[a] ELSE Blank]
<1>1. \A a \in AlertIds : Sound(a, copy[a])
  BY BlankSound
<1>2. [todo |-> S, copy |-> copy] \in Request
  BY <1>1 DEF Sound, Request
<1>3. thread' = [thread EXCEPT ![t] = [todo |-> S, copy |-> copy]]
  BY DEF Take
<1> HIDE DEF copy
<1>4. thread' \in [Threads -> Request]
  BY <1>2, <1>3 DEF IInv, TypeOK
<1>5. \A v \in Threads : thread'[v] = IF v = t THEN [todo |-> S, copy |-> copy] ELSE thread[v]
  BY <1>3 DEF IInv, TypeOK
<1>6. CopiesFit'
  BY <1>1, <1>5 DEF IInv, CopiesFit, Sound
<1>7. QED BY <1>4, <1>6

-----------------------------------------------------------------------------
(* The steps                                                               *)

\* A request that only takes copies leaves the rows alone.
LEMMA TakeStep ==
  ASSUME IInv, NEW t \in Threads, NEW u \in Users, NEW new, NEW S \in SUBSET OwnedBy(u),
         Take(t, new, S), UNCHANGED alerts, submitted' \subseteq Users \X Keys,
         \A a \in S : Sound(a, new[a])
  PROVE  IInv'
<1>1. S \in SUBSET AlertIds
  BY DEF OwnedBy
<1>2. thread' \in [Threads -> Request] /\ CopiesFit'
  BY <1>1, Takes
<1>3. QED
  BY <1>2 DEF IInv, TypeOK, RowsFit

LEMMA RouteStep ==
  ASSUME IInv, NEW t \in Threads, AlertRoutes(t)
  PROVE  IInv'
<1>1. ASSUME NEW u \in Users, NEW a \in AlertIds, AcknowledgeAlert(t, u, a)
      PROVE  IInv'
  <2> DEFINE new == [b \in AlertIds |-> Acknowledged(alerts[b], u)]
  <2>1. {a} \in SUBSET OwnedBy(u) /\ Owner[a] = u
    BY <1>1 DEF AcknowledgeAlert, OwnedBy
  <2>2. \A b \in {a} : Sound(b, new[b])
    BY <2>1, RowsSound, AcknowledgedSound
  <2>3. Take(t, new, {a}) /\ UNCHANGED <<alerts, submitted>>
    BY <1>1 DEF AcknowledgeAlert
  <2>4. submitted' \subseteq Users \X Keys
    BY <2>3 DEF IInv, TypeOK
  <2> HIDE DEF new
  <2>5. QED BY <2>1, <2>2, <2>3, <2>4, TakeStep
<1>2. ASSUME NEW u \in Users, NEW a \in AlertIds, ResolveAlert(t, u, a)
      PROVE  IInv'
  <2> DEFINE new == [b \in AlertIds |-> Resolved(alerts[b], u)]
  <2>1. {a} \in SUBSET OwnedBy(u) /\ Owner[a] = u
    BY <1>2 DEF ResolveAlert, OwnedBy
  <2>2. \A b \in {a} : Sound(b, new[b])
    BY <2>1, RowsSound, ResolvedSound
  <2>3. Take(t, new, {a}) /\ UNCHANGED <<alerts, submitted>>
    BY <1>2 DEF ResolveAlert
  <2>4. submitted' \subseteq Users \X Keys
    BY <2>3 DEF IInv, TypeOK
  <2> HIDE DEF new
  <2>5. QED BY <2>1, <2>2, <2>3, <2>4, TakeStep
<1>3. ASSUME NEW u \in Users, NEW S \in SUBSET AlertIds, BatchAcknowledge(t, u, S)
      PROVE  IInv'
  <2> DEFINE new == [b \in AlertIds |-> Acknowledged(alerts[b], u)]
  <2>1. S \in SUBSET OwnedBy(u) /\ \A b \in S : Owner[b] = u
    BY <1>3 DEF BatchAcknowledge, OwnedBy
  <2>2. \A b \in S : Sound(b, new[b])
    BY <2>1, RowsSound, AcknowledgedSound
  <2>3. Take(t, new, S) /\ UNCHANGED <<alerts, submitted>>
    BY <1>3 DEF BatchAcknowledge
  <2>4. submitted' \subseteq Users \X Keys
    BY <2>3 DEF IInv, TypeOK
  <2> HIDE DEF new
  <2>5. QED BY <2>1, <2>2, <2>3, <2>4, TakeStep
<1>4. ASSUME NEW u \in Users, NEW k \in Keys, NotifyPending(t, u, k)
      PROVE  IInv'
  <2> DEFINE new == [b \in AlertIds |-> Notified(alerts[b], u)]
  <2>1. /\ Pending(u) \in SUBSET OwnedBy(u) /\ Pending(u) \subseteq AlertIds
        /\ \A b \in Pending(u) : Owner[b] = u
    BY DEF Pending, OwnedBy
  <2>2. \A b \in Pending(u) : Sound(b, new[b])
    BY <2>1, RowsSound, NotifiedSound
  <2>3. Take(t, new, Pending(u)) /\ UNCHANGED alerts
    BY <1>4 DEF NotifyPending
  <2>4. submitted' \subseteq Users \X Keys
    BY <1>4 DEF NotifyPending, IInv, TypeOK
  <2> HIDE DEF new
  <2>5. QED BY <2>1, <2>2, <2>3, <2>4, TakeStep
<1>5. ASSUME NEW a \in AlertIds, SaveAlert(t, a)
      PROVE  IInv'
  <2> DEFINE left == thread[t].todo \ {a}
  <2>1. left \in SUBSET AlertIds /\ \A b \in left : Sound(b, thread[t].copy[b])
    BY RowsSound DEF IInv, TypeOK, Request
  <2>2. Take(t, thread[t].copy, left)
    BY <1>5 DEF SaveAlert
  <2>3. thread' \in [Threads -> Request] /\ CopiesFit'
    BY <2>1, <2>2, Takes
  <2>4. Sound(a, thread[t].copy[a])
    BY RowsSound
  <2>5. alerts' \in [AlertIds -> Row] /\ RowsFit'
    BY <1>5, <2>4 DEF SaveAlert, IInv, TypeOK, RowsFit, Sound
  <2>6. QED
    BY <1>5, <2>3, <2>5 DEF SaveAlert, IInv, TypeOK
<1>6. QED BY <1>1, <1>2, <1>3, <1>4, <1>5 DEF AlertRoutes

LEMMA CreateStep ==
  ASSUME IInv, NEW a \in AlertIds, CreateAlert(a)
  PROVE  IInv'
<1>1. Sound(a, Opened)
  BY BlankSound
<1>2. alerts' \in [AlertIds -> Row] /\ RowsFit'
  BY <1>1 DEF CreateAlert, IInv, TypeOK, RowsFit, Sound
<1>3. QED
  BY <1>2 DEF CreateAlert, IInv, TypeOK, CopiesFit

LEMMA CleanupStep ==
  ASSUME IInv, NEW u \in Users, NEW S \in SUBSET AlertIds, CleanupResolved(u, S)
  PROVE  IInv'
<1>1. \A a \in AlertIds : Sound(a, alerts[a]) /\ Sound(a, [Blank EXCEPT !.is = "deleted"])
  BY RowsSound, BlankSound
<1>2. alerts' \in [AlertIds -> Row] /\ RowsFit'
  BY <1>1 DEF CleanupResolved, RowsFit, Sound
<1>3. QED
  BY <1>2 DEF CleanupResolved, IInv, TypeOK, CopiesFit

LEMMA IdleSound == Idle \in Request /\ \A a \in AlertIds : RowFits(a, Idle.copy[a])
BY BlankSound DEF Idle, Request, Sound

-----------------------------------------------------------------------------
(* The invariant and what follows from it                                  *)

LEMMA InitInv == Init => IInv
BY BlankSound, IdleSound DEF Init, IInv, TypeOK, RowsFit, CopiesFit, Sound

LEMMA StepInv == IInv /\ [Next]_vars => IInv'
<1> SUFFICES ASSUME IInv, [Next]_vars PROVE IInv'
  OBVIOUS
<1>1. CASE \E a \in AlertIds : CreateAlert(a)
  BY <1>1, CreateStep
<1>2. CASE \E u \in Users, S \in SUBSET AlertIds : CleanupResolved(u, S)
  BY <1>2, CleanupStep
<1>3. CASE \E t \in Threads : AlertRoutes(t)
  BY <1>3, RouteStep
<1>4. CASE Crash
  BY <1>4, IdleSound DEF Crash, IInv, TypeOK, RowsFit, CopiesFit
<1>5. CASE UNCHANGED vars
  BY <1>5 DEF vars, IInv, TypeOK, RowsFit, CopiesFit
<1>6. QED BY <1>1, <1>2, <1>3, <1>4, <1>5 DEF Next

\* Rows, and the copies that will replace them, fit together in every
\* reachable state.
THEOREM InductiveInvariant == Spec => []IInv
BY InitInv, StepInv, PTL DEF Spec

\* Alerts, job keys and requests are well formed (rows of repository.py).
THEOREM TypeCorrect == Spec => []TypeOK
<1>1. IInv => TypeOK
  BY DEF IInv
<1>2. QED BY <1>1, InductiveInvariant, PTL

\* Whichever of two requests saves last, what a row says fits together, and
\* only the owner of an alert is named in it (acknowledge, resolve,
\* mark_notified, save_alert).
THEOREM RowsCorrect == Spec => []RowsFit
<1>1. IInv => RowsFit
  BY DEF IInv
<1>2. QED BY <1>1, InductiveInvariant, PTL
-----------------------------------------------------------------------------
(* Alerts that are in the hands of one request                             *)

\* While no two requests had one alert in hand, what a request is about to
\* save is a row that is there, and resolved if the row in the table is.
InHand ==
  ~shared =>
    /\ \A t, v \in Threads : t # v => thread[t].todo \cap thread[v].todo = {}
    /\ \A t \in Threads : \A a \in thread[t].todo :
         /\ Stored(a) /\ thread[t].copy[a].is = "stored"
         /\ alerts[a].status = "resolved" => thread[t].copy[a].status = "resolved"

Stays == \A a \in AlertIds :
  /\ alerts[a].status = "resolved" /\ Stored(a)
       => alerts'[a].is = "deleted" \/ alerts'[a].status = "resolved"
  /\ alerts[a].is = "deleted" => alerts'[a].is = "deleted"

\* A request takes rows as they are, or resolves them.
LEMMA TakeInHand ==
  ASSUME IInv, InHand, NEW t \in Threads, NEW new, NEW S \in SUBSET AlertIds, Take(t, new, S),
         UNCHANGED alerts, shared' = (shared \/ Contend),
         \A a \in S : /\ Stored(a) /\ new[a].is = "stored"
                      /\ alerts[a].status = "resolved" => new[a].status = "resolved"
  PROVE  InHand' /\ Stays
<1>1. Stays
  BY DEF Stays, Stored
<1>2. \A v \in Threads : v # t => thread'[v] = thread[v]
  BY DEF Take, IInv, TypeOK
<1>3. thread'[t].todo = S /\ \A a \in S : thread'[t].copy[a] = new[a]
  BY DEF Take, IInv, TypeOK
<1>4. ASSUME ~shared'
      PROVE  /\ \A v, w \in Threads : v # w => thread'[v].todo \cap thread'[w].todo = {}
             /\ \A v \in Threads : \A a \in thread'[v].todo :
                  /\ Stored(a)' /\ thread'[v].copy[a].is = "stored"
                  /\ alerts'[a].status = "resolved" => thread'[v].copy[a].status = "resolved"
  <2>1. ~shared /\ ~Contend
    BY <1>4
  <2>2. \A v, w \in Threads : v # w => thread'[v].todo \cap thread'[w].todo = {}
    BY <2>1 DEF Contend
  <2>3. ASSUME NEW v \in Threads, NEW a \in thread'[v].todo
        PROVE  /\ Stored(a)' /\ thread'[v].copy[a].is = "stored"
               /\ alerts'[a].status = "resolved" => thread'[v].copy[a].status = "resolved"
    <3>1. CASE v = t
      BY <1>3, <2>3, <3>1 DEF Stored
    <3>2. CASE v # t
      BY <1>2, <2>1, <2>3, <3>2 DEF InHand, Stored
    <3>3. QED BY <3>1, <3>2
  <2>4. QED BY <2>2, <2>3
<1>5. QED BY <1>1, <1>4 DEF InHand

\* Only rows that no request has in hand afterwards change.
LEMMA RowsInHand ==
  ASSUME IInv, InHand, shared' = (shared \/ Contend), ~shared => Stays,
         \A v \in Threads : \A b \in thread'[v].todo :
           ~shared => /\ b \in thread[v].todo /\ thread'[v].copy[b] = thread[v].copy[b]
                      /\ alerts'[b] = alerts[b]
  PROVE  InHand' /\ (~shared' => Stays)
<1>1. ASSUME ~shared'
      PROVE  /\ \A v, w \in Threads : v # w => thread'[v].todo \cap thread'[w].todo = {}
             /\ \A v \in Threads : \A b \in thread'[v].todo :
                  /\ Stored(b)' /\ thread'[v].copy[b].is = "stored"
                  /\ alerts'[b].status = "resolved" => thread'[v].copy[b].status = "resolved"
  <2>1. ~shared /\ ~Contend
    BY <1>1
  <2>2. \A v, w \in Threads : v # w => thread'[v].todo \cap thread'[w].todo = {}
    BY <2>1 DEF Contend
  <2>3. QED BY <2>1, <2>2 DEF InHand, Stored
<1>2. QED BY <1>1 DEF InHand

\* The steps of a request.
LEMMA RouteInHand ==
  ASSUME IInv, InHand, shared' = (shared \/ Contend), NEW t \in Threads, AlertRoutes(t)
  PROVE  InHand' /\ (~shared' => Stays)
<1>1. ASSUME NEW u \in Users, NEW a \in AlertIds, AcknowledgeAlert(t, u, a)
      PROVE  InHand' /\ Stays
  <2> DEFINE new == [b \in AlertIds |-> Acknowledged(alerts[b], u)]
  <2>1. /\ {a} \in SUBSET AlertIds /\ Take(t, new, {a}) /\ UNCHANGED alerts
        /\ \A b \in {a} : Stored(b)
    BY <1>1 DEF AcknowledgeAlert, OwnedBy
  <2>2. \A b \in {a} : /\ new[b].is = "stored"
                       /\ alerts[b].status = "resolved" => new[b].status = "resolved"
    BY <2>1 DEF Acknowledged, Stored, IInv, TypeOK, Row
  <2> HIDE DEF new
  <2>3. QED BY <2>1, <2>2, TakeInHand
<1>2. ASSUME NEW u \in Users, NEW a \in AlertIds, ResolveAlert(t, u, a)
      PROVE  InHand' /\ Stays
  <2> DEFINE new == [b \in AlertIds |-> Resolved(alerts[b], u)]
  <2>1. /\ {a} \in SUBSET AlertIds /\ Take(t, new, {a}) /\ UNCHANGED alerts
        /\ \A b \in {a} : Stored(b)
    BY <1>2 DEF ResolveAlert, OwnedBy
  <2>2. \A b \in {a} : /\ new[b].is = "stored"
                       /\ alerts[b].status = "resolved" => new[b].status = "resolved"
    BY <2>1 DEF Resolved, Stored, IInv, TypeOK, Row
  <2> HIDE DEF new
  <2>3. QED BY <2>1, <2>2, TakeInHand
<1>3. ASSUME NEW u \in Users, NEW S \in SUBSET AlertIds, BatchAcknowledge(t, u, S)
      PROVE  InHand' /\ Stays
  <2> DEFINE new == [b \in AlertIds |-> Acknowledged(alerts[b], u)]
  <2>1. /\ Take(t, new, S) /\ UNCHANGED alerts
        /\ \A b \in S : Stored(b)
    BY <1>3 DEF BatchAcknowledge, OwnedBy
  <2>2. \A b \in S : /\ new[b].is = "stored"
                     /\ alerts[b].status = "resolved" => new[b].status = "resolved"
    BY <2>1 DEF Acknowledged, Stored, IInv, TypeOK, Row
  <2> HIDE DEF new
  <2>3. QED BY <2>1, <2>2, TakeInHand
<1>4. ASSUME NEW u \in Users, NEW k \in Keys, NotifyPending(t, u, k)
      PROVE  InHand' /\ Stays
  <2> DEFINE new == [b \in AlertIds |-> Notified(alerts[b], u)]
  <2>1. /\ Pending(u) \in SUBSET AlertIds /\ Take(t, new, Pending(u)) /\ UNCHANGED alerts
        /\ \A b \in Pending(u) : Stored(b) /\ alerts[b].status # "resolved"
    BY <1>4 DEF NotifyPending, Pending, OwnedBy
  <2>2. \A b \in Pending(u) : new[b].is = "stored"
    BY <2>1 DEF Notified, Acknowledged, Stored, IInv, TypeOK, Row
  <2> HIDE DEF new
  <2>3. QED BY <2>1, <2>2, TakeInHand
<1>5. ASSUME NEW a \in AlertIds, SaveAlert(t, a)
      PROVE  InHand' /\ (~shared' => Stays)
  <2>1. /\ a \in thread[t].todo
        /\ \A b \in AlertIds : alerts'[b] = IF b = a THEN thread[t].copy[a] ELSE alerts[b]
    BY <1>5 DEF SaveAlert, IInv, TypeOK
  <2>2. /\ \A v \in Threads \ {t} : thread'[v] = thread[v]
        /\ thread'[t].todo = thread[t].todo \ {a}
        /\ \A b \in thread'[t].todo : thread'[t].copy[b] = thread[t].copy[b]
    BY <1>5 DEF SaveAlert, Take, IInv, TypeOK, Request
  <2>3. ~shared => Stays
    BY <2>1 DEF InHand, Stays, Stored
  <2>4. ASSUME NEW v \in Threads, NEW b \in thread'[v].todo, ~shared
        PROVE  /\ b \in thread[v].todo /\ thread'[v].copy[b] = thread[v].copy[b]
               /\ alerts'[b] = alerts[b]
    <3>1. b \in thread[v].todo /\ thread'[v].copy[b] = thread[v].copy[b] /\ b \in AlertIds
      BY <2>2, <2>4 DEF IInv, TypeOK, Request
    <3>2. b # a
      BY <2>1, <2>2, <2>4 DEF InHand
    <3>3. QED BY <2>1, <3>1, <3>2
  <2>5. QED BY <2>3, <2>4, RowsInHand
<1>6. QED BY <1>1, <1>2, <1>3, <1>4, <1>5 DEF AlertRoutes

LEMMA AlertsInHand ==
  ASSUME IInv, InHand, shared' = (shared \/ Contend), Next
  PROVE  InHand' /\ (~shared' => Stays)
<1>1. ASSUME NEW a \in AlertIds, CreateAlert(a)
      PROVE  InHand' /\ (~shared' => Stays)
  <2>1. /\ alerts[a].is = "unborn" /\ thread' = thread
        /\ \A b \in AlertIds \ {a} : alerts'[b] = alerts[b]
    BY <1>1 DEF CreateAlert, IInv, TypeOK
  <2>2. Stays
    BY <2>1 DEF Stays, Stored
  <2>3. \A v \in Threads : \A b \in thread[v].todo : ~shared => alerts'[b] = alerts[b]
    BY <2>1 DEF InHand, Stored, IInv, TypeOK, Request
  <2>4. QED BY <2>1, <2>2, <2>3, RowsInHand
<1>2. ASSUME NEW u \in Users, NEW S \in SUBSET AlertIds, CleanupResolved(u, S)
      PROVE  InHand' /\ (~shared' => Stays)
  <2>1. /\ thread' = thread
        /\ \A b \in AlertIds : alerts'[b] = IF b \in S THEN [Blank EXCEPT !.is = "deleted"] ELSE alerts[b]
    BY <1>2 DEF CleanupResolved
  <2>2. [Blank EXCEPT !.is = "deleted"].is = "deleted"
    BY DEF Blank, Opened
  <2>3. Stays
    BY <2>1, <2>2 DEF Stays
  <2>4. CASE shared'
    BY <2>4 DEF InHand
  <2>5. CASE ~shared'
    <3>1. \A v \in Threads : \A b \in thread[v].todo : alerts'[b] = alerts[b]
      BY <2>1, <2>2, <2>5 DEF Contend, IInv, TypeOK, Request
    <3>2. QED BY <2>1, <2>3, <3>1, RowsInHand
  <2>6. QED BY <2>4, <2>5
<1>3. ASSUME NEW t \in Threads, AlertRoutes(t)
      PROVE  InHand' /\ (~shared' => Stays)
  BY <1>3, RouteInHand
<1>4. CASE Crash
  <2>1. alerts' = alerts /\ \A v \in Threads : thread'[v].todo = {}
    BY <1>4 DEF Crash, Idle
  <2>2. Stays
    BY <2>1 DEF Stays, Stored
  <2>3. QED BY <2>1, <2>2, RowsInHand
<1>5. QED BY <1>1, <1>2, <1>3, <1>4 DEF Next
-----------------------------------------------------------------------------
(* Rules and assessments                                                   *)

\* Rules there were, of this account.
OfAccount(S, account) == \A r \in S : rules[r].is # "unborn" /\ rules[r].account = account

\* What a request is about to save is about its own account: the copy of a
\* rule, or the finding for the account it is at.
RequestFits(t) ==
  LET q == checker[t] IN
  /\ q \in R!Request
  /\ q.at = "rule" => /\ q.rule \in RuleIds /\ q.row.is = "stored"
                      /\ rules[q.rule].is # "unborn" /\ q.row.account = rules[q.rule].account
  /\ q.at \in {"next", "stamp", "snapshot"} => q.user \in Users /\ q.todo # <<>>
  /\ Between(t) => /\ AccountOwner[Head(q.todo)] = q.user
                   /\ OfAccount(q.found.triggered, Head(q.todo))

SnapshotFits(k) ==
  latest[k] # NoSnapshot =>
    AccountOwner[k[2]] = k[1] /\ OfAccount(latest[k].triggered, k[2])

RulesInv ==
  /\ R!Idle \in R!Request
  /\ rules \in [RuleIds -> R!Rule]
  /\ latest \in [R!Subjects -> R!Snapshot \cup {NoSnapshot}]
  /\ clock \in 0..MaxStamp
  /\ checker \in [Threads -> R!Request]
  /\ \A t \in Threads : RequestFits(t)
  /\ \A k \in R!Subjects : SnapshotFits(k)

\* The rules stay, with the account they are for.
RulesStay == \A r \in RuleIds : rules[r].is # "unborn" =>
  rules'[r].is # "unborn" /\ rules'[r].account = rules[r].account

LEMMA AssessFits ==
  ASSUME NEW S \in SUBSET RuleIds
  PROVE  R!Assess(S) \in R!Snapshot /\ R!Assess(S).triggered \in SUBSET S
<1>1. MaxStamp \in Nat
  BY AssessmentsAssumption DEF R!Parameters
<1>2. R!Assess(S).level \in R!Levels
  BY DEF R!Assess, R!Levels
<1>3. R!Assess(S) = [level |-> R!Assess(S).level, triggered |-> R!Assess(S).triggered, stamp |-> 0]
  BY DEF R!Assess
<1>4. R!Assess(S).triggered \in SUBSET S
  BY DEF R!Assess
<1>5. QED BY <1>1, <1>2, <1>3, <1>4 DEF R!Snapshot

\* A request that does nothing, or whose copies and rules stay, fits.
LEMMA RequestStays ==
  ASSUME RulesInv, RulesStay, NEW v \in Threads, checker'[v] = checker[v]
  PROVE  RequestFits(v)'
<1>1. RequestFits(v) /\ checker[v].found.triggered \in SUBSET RuleIds
  BY DEF RulesInv, R!Request, R!Snapshot
<1>2. QED BY <1>1 DEF RequestFits, RulesStay, Between, OfAccount

LEMMA IdleRequest ==
  ASSUME RulesInv, NEW v \in Threads, checker'[v] = R!Idle
  PROVE  RequestFits(v)'
<1>1. R!Idle \in R!Request /\ R!Idle.at = "idle"
  BY DEF RulesInv, R!Idle
<1>2. QED BY <1>1 DEF RequestFits, Between

LEMMA SnapshotStays ==
  ASSUME RulesInv, RulesStay, NEW k \in R!Subjects, latest'[k] = latest[k]
  PROVE  SnapshotFits(k)'
<1>1. SnapshotFits(k) /\ (latest[k] # NoSnapshot => latest[k].triggered \in SUBSET RuleIds)
  BY DEF RulesInv, R!Snapshot
<1>2. QED BY <1>1 DEF SnapshotFits, RulesStay, OfAccount

\* A request goes on to q and saves nothing.
LEMMA CheckerMove ==
  ASSUME RulesInv, NEW t \in Threads, NEW q, R!Goto(t, q),
         RulesStay, rules' \in [RuleIds -> R!Rule], latest' = latest, clock' \in 0..MaxStamp,
         checker'[t] = q => RequestFits(t)'
  PROVE  RulesInv'
<1>1. checker' = [checker EXCEPT ![t] = q]
  BY DEF R!Goto
<1>2. checker'[t] = q /\ \A v \in Threads \ {t} : checker'[v] = checker[v]
  BY <1>1 DEF RulesInv
<1>3. \A v \in Threads : RequestFits(v)'
  BY <1>2, RequestStays
<1>4. checker' \in [Threads -> R!Request]
  BY <1>1, <1>2, <1>3 DEF RulesInv, RequestFits
<1>5. \A k \in R!Subjects : SnapshotFits(k)'
  BY SnapshotStays
<1>6. QED BY <1>3, <1>4, <1>5 DEF RulesInv
\* A request becomes idle and the rules stay.
LEMMA CheckerLeaves ==
  ASSUME RulesInv, NEW t \in Threads, R!Leave(t),
         RulesStay, rules' \in [RuleIds -> R!Rule], UNCHANGED <<latest, clock>>
  PROVE  RulesInv'
<1>1. checker'[t] = R!Idle => RequestFits(t)'
  BY IdleRequest
<1>2. clock' \in 0..MaxStamp
  BY DEF RulesInv
<1>3. R!Goto(t, R!Idle)
  BY DEF R!Leave
<1>4. QED BY <1>1, <1>2, <1>3, CheckerMove

LEMMA SameRules ==
  ASSUME RulesInv, rules' = rules
  PROVE  RulesStay /\ rules' \in [RuleIds -> R!Rule]
BY DEF RulesInv, RulesStay

LEMMA StartCheckStep ==
  ASSUME RulesInv, NEW t \in Threads, NEW u \in Users, NEW todo \in Seq(Accounts),
         NEW s \in R!Scopes, R!StartCheck(t, u, todo, s)
  PROVE  RulesInv'
<1> DEFINE q == [R!Idle EXCEPT !.at = "next", !.user = u, !.todo = todo, !.strategy = s]
<1>1. /\ q \in R!Request /\ q.at = "next" /\ q.user = u /\ q.todo = todo
  BY DEF RulesInv, R!Request
<1>2. R!Goto(t, q) /\ todo # <<>> /\ UNCHANGED <<rules, latest, clock>>
  BY DEF R!StartCheck
<1> HIDE DEF q
<1>3. checker'[t] = q => RequestFits(t)'
  BY <1>1, <1>2 DEF RequestFits, Between
<1>4. QED BY <1>2, <1>3, SameRules, CheckerMove DEF RulesInv

\* A request loads a rule of its user and changes its threshold, strategy or
\* status.
LEMMA ChangingStep ==
  ASSUME RulesInv, NEW t \in Threads, NEW u \in Users, NEW r \in R!OwnRules(u), NEW row \in R!Rule,
         R!Changing(t, r, row), UNCHANGED <<rules, latest, clock>>,
         row.is = rules[r].is, row.account = rules[r].account
  PROVE  RulesInv'
<1> DEFINE q == [R!Idle EXCEPT !.at = "rule", !.rule = r, !.row = row]
<1>1. r \in RuleIds /\ rules[r].is = "stored"
  BY DEF R!OwnRules, R!Stored
<1>2. q \in R!Request /\ q.at = "rule" /\ q.rule = r /\ q.row = row
  BY <1>1 DEF RulesInv, R!Request
<1>3. R!Goto(t, q)
  BY DEF R!Changing
<1> HIDE DEF q
<1>4. checker'[t] = q => RequestFits(t)'
  BY <1>1, <1>2 DEF RequestFits, Between
<1>5. QED BY <1>3, <1>4, SameRules, CheckerMove DEF RulesInv

LEMMA RuleRouteStep ==
  ASSUME RulesInv, NEW t \in Threads, R!RuleRoutes(t)
  PROVE  RulesInv'
<1>1. ASSUME NEW u \in Users, NEW r \in RuleIds, NEW x \in Thresholds, NEW s \in R!Scopes,
             R!UpdateRule(t, u, r, x, s)
      PROVE  RulesInv'
  <2> DEFINE row == [rules[r] EXCEPT !.threshold = x, !.strategy = s]
  <2>1. row \in R!Rule /\ row.is = rules[r].is /\ row.account = rules[r].account
    BY DEF RulesInv, R!Rule
  <2>2. r \in R!OwnRules(u) /\ R!Changing(t, r, row) /\ UNCHANGED <<rules, latest, clock>>
    BY <1>1 DEF R!UpdateRule
  <2> HIDE DEF row
  <2>3. QED BY <2>1, <2>2, ChangingStep
<1>2. ASSUME NEW u \in Users, NEW r \in RuleIds, NEW b \in BOOLEAN, R!ToggleRuleStatus(t, u, r, b)
      PROVE  RulesInv'
  <2> DEFINE row == [rules[r] EXCEPT !.active = b]
  <2>1. row \in R!Rule /\ row.is = rules[r].is /\ row.account = rules[r].account
    BY DEF RulesInv, R!Rule
  <2>2. r \in R!OwnRules(u) /\ R!Changing(t, r, row) /\ UNCHANGED <<rules, latest, clock>>
    BY <1>2 DEF R!ToggleRuleStatus
  <2> HIDE DEF row
  <2>3. QED BY <2>1, <2>2, ChangingStep
<1>3. CASE R!SaveRule(t)
  <2>1. RequestFits(t) /\ checker[t] \in R!Request /\ checker[t].at = "rule"
    BY <1>3 DEF RulesInv, R!SaveRule, R!At
  <2>2. /\ checker[t].rule \in RuleIds /\ checker[t].row \in R!Rule /\ checker[t].row.is = "stored"
        /\ checker[t].row.account = rules[checker[t].rule].account
    BY <2>1 DEF RequestFits, R!Request
  <2>3. /\ rules' = [rules EXCEPT ![checker[t].rule] = checker[t].row]
        /\ R!Leave(t) /\ UNCHANGED <<latest, clock>>
    BY <1>3 DEF R!SaveRule
  <2>4. RulesStay /\ rules' \in [RuleIds -> R!Rule]
    BY <2>2, <2>3 DEF RulesInv, RulesStay
  <2>5. QED BY <2>3, <2>4, CheckerLeaves
<1>4. QED BY <1>1, <1>2, <1>3 DEF R!RuleRoutes

\* The finding of a check is about the account the check is at.
LEMMA ReadRulesStep ==
  ASSUME RulesInv, NEW t \in Threads, R!ReadRules(t)
  PROVE  RulesInv'
<1>1. /\ RequestFits(t) /\ checker[t] \in R!Request /\ checker[t].at = "next"
      /\ UNCHANGED <<rules, latest, clock>>
  BY DEF RulesInv, R!ReadRules, R!At
<1>2. PICK account \in Accounts : account = Head(checker[t].todo)
  BY <1>1, HeadTailProperties DEF RequestFits, R!Request
<1>3. PICK s \in R!Scopes : s = checker[t].strategy
  BY <1>1 DEF R!Request
<1> DEFINE found == R!Assess(R!Applicable(account, s))
           q == [checker[t] EXCEPT !.at = "stamp", !.found = found]
<1>4. \/ AccountOwner[account] = checker[t].user /\ R!Goto(t, q)
      \/ R!Leave(t)
  BY <1>2, <1>3 DEF R!ReadRules
<1>5. /\ R!Applicable(account, s) \in SUBSET RuleIds
      /\ \A r \in R!Applicable(account, s) : rules[r].is = "stored" /\ rules[r].account = account
  BY DEF R!Applicable, R!Stored
<1>6. found \in R!Snapshot /\ found.triggered \in SUBSET R!Applicable(account, s)
  BY <1>5, AssessFits
<1> HIDE DEF found
<1>7. CASE AccountOwner[account] = checker[t].user /\ R!Goto(t, q)
  <2>1. /\ q \in R!Request /\ q.at = "stamp" /\ q.found = found
        /\ q.user = checker[t].user /\ q.todo = checker[t].todo
    BY <1>1, <1>6 DEF R!Request
  <2> HIDE DEF q
  <2>2. checker'[t] = q => RequestFits(t)'
    BY <1>1, <1>2, <1>5, <1>6, <1>7, <2>1 DEF RequestFits, Between, OfAccount
  <2>3. QED BY <1>1, <1>7, <2>2, SameRules, CheckerMove DEF RulesInv
<1>8. CASE R!Leave(t)
  BY <1>1, <1>8, SameRules, CheckerLeaves
<1>9. QED BY <1>4, <1>7, <1>8

LEMMA MakeSnapshotStep ==
  ASSUME RulesInv, NEW t \in Threads, R!MakeSnapshot(t)
  PROVE  RulesInv'
<1> DEFINE q == [checker[t] EXCEPT !.at = "snapshot", !.found.stamp = clock + 1]
<1>1. /\ RequestFits(t) /\ checker[t] \in R!Request /\ checker[t].at = "stamp"
      /\ UNCHANGED <<rules, latest>> /\ clock' = clock + 1 /\ clock < MaxStamp /\ R!Goto(t, q)
  BY DEF RulesInv, R!MakeSnapshot, R!At
<1>2. clock' \in 0..MaxStamp
  BY <1>1, AssessmentsAssumption DEF RulesInv, R!Parameters
<1>3. /\ q \in R!Request /\ q.at = "snapshot" /\ q.found.triggered = checker[t].found.triggered
      /\ q.user = checker[t].user /\ q.todo = checker[t].todo
  BY <1>1, <1>2 DEF R!Request, R!Snapshot
<1> HIDE DEF q
<1>4. checker'[t] = q => RequestFits(t)'
  BY <1>1, <1>3 DEF RequestFits, Between, OfAccount
<1>5. QED BY <1>1, <1>2, <1>4, SameRules, CheckerMove DEF RulesInv

LEMMA TailLeft ==
  ASSUME NEW todo \in Seq(Accounts), todo # <<>>, Len(todo) # 1
  PROVE  Tail(todo) \in Seq(Accounts) /\ Tail(todo) # <<>>
<1>1. Tail(todo) \in Seq(Accounts) /\ Len(Tail(todo)) = Len(todo) - 1
  BY HeadTailProperties
<1>2. Len(todo) \in Nat \ {0}
  BY EmptySeq
<1>3. Len(Tail(todo)) # 0
  BY <1>1, <1>2
<1>4. QED BY <1>1, <1>3, EmptySeq

\* What a check saves is about its account; it goes on with the next one.
LEMMA SaveSnapshotStep ==
  ASSUME RulesInv, NEW t \in Threads, R!SaveSnapshot(t)
  PROVE  RulesInv'
<1>1. /\ RequestFits(t) /\ checker[t] \in R!Request /\ checker[t].at = "snapshot"
      /\ UNCHANGED <<rules, clock>>
  BY DEF RulesInv, R!SaveSnapshot, R!At
<1>2. PICK account \in Accounts : account = Head(checker[t].todo)
  BY <1>1, HeadTailProperties DEF RequestFits, R!Request
<1>3. PICK k \in R!Subjects : k = Subject(t) /\ k[1] = checker[t].user /\ k[2] = account
  <2>1. PICK u \in Users, s \in R!Scopes : u = checker[t].user /\ s = checker[t].strategy
    BY <1>1 DEF RequestFits, R!Request
  <2>2. <<u, account, s>> \in R!Subjects /\ <<u, account, s>> = Subject(t)
    BY <1>2, <2>1 DEF Subject, R!Subjects
  <2>3. QED BY <2>1, <2>2
<1>4. latest' = latest \/ latest' = [latest EXCEPT ![k] = checker[t].found]
  BY <1>3 DEF R!SaveSnapshot, Subject
<1>5. SnapshotFits(k)' /\ latest' \in [R!Subjects -> R!Snapshot \cup {NoSnapshot}]
  <2>1. CASE latest' = latest
    BY <1>1, <2>1 DEF RulesInv, SnapshotFits, OfAccount
  <2>2. CASE latest' = [latest EXCEPT ![k] = checker[t].found]
    <3>1. latest'[k] = checker[t].found /\ checker[t].found \in R!Snapshot
      BY <1>1, <2>2 DEF RulesInv, R!Request
    <3>2. QED BY <1>1, <1>2, <1>3, <2>2, <3>1 DEF RulesInv, SnapshotFits, OfAccount, RequestFits, Between
  <2>3. QED BY <1>4, <2>1, <2>2
<1>6. \A j \in R!Subjects : SnapshotFits(j)'
  <2>1. ASSUME NEW j \in R!Subjects, j # k
        PROVE  SnapshotFits(j)'
    BY <1>1, <1>4, <2>1, SameRules, SnapshotStays DEF RulesInv
  <2>2. QED BY <1>5, <2>1
<1>7. PICK q : R!Goto(t, q) /\ (checker'[t] = q => RequestFits(t)')
  <2>1. CASE R!Leave(t)
    BY <2>1, IdleRequest DEF R!Leave
  <2> DEFINE q == [checker[t] EXCEPT !.at = "next", !.todo = Tail(@), !.found = R!NoFinding]
  <2>2. CASE R!Goto(t, q) /\ Len(checker[t].todo) # 1
    <3>1. checker[t].todo \in Seq(Accounts) /\ checker[t].todo # <<>>
      BY <1>1 DEF RequestFits, R!Request
    <3>2. Tail(checker[t].todo) \in Seq(Accounts) /\ Tail(checker[t].todo) # <<>>
      BY <2>2, <3>1, TailLeft
    <3>3. R!NoFinding \in R!Snapshot
      BY AssessmentsAssumption DEF R!Parameters, R!NoFinding, R!Snapshot, R!Levels
    <3>4. /\ q \in R!Request /\ q.at = "next" /\ q.user = checker[t].user
          /\ q.todo = Tail(checker[t].todo)
      BY <1>1, <3>2, <3>3 DEF R!Request
    <3> HIDE DEF q
    <3>5. checker'[t] = q => RequestFits(t)'
      BY <1>1, <3>2, <3>4 DEF RequestFits, Between
    <3>6. QED BY <2>2, <3>5
  <2>3. QED BY <2>1, <2>2 DEF R!SaveSnapshot
<1>8. /\ checker' \in [Threads -> R!Request] /\ \A v \in Threads : RequestFits(v)'
  <2>1. checker' = [checker EXCEPT ![t] = q]
    BY <1>7 DEF R!Goto
  <2>2. checker'[t] = q /\ \A v \in Threads \ {t} : checker'[v] = checker[v]
    BY <2>1 DEF RulesInv
  <2>3. \A v \in Threads : RequestFits(v)'
    BY <1>1, <1>7, <2>2, SameRules, RequestStays
  <2>4. QED BY <2>1, <2>2, <2>3 DEF RulesInv, RequestFits
<1>9. QED BY <1>1, <1>5, <1>6, <1>8 DEF RulesInv
\* A rule is created or deleted.
LEMMA TableStep ==
  ASSUME RulesInv, RulesStay, rules' \in [RuleIds -> R!Rule], UNCHANGED <<latest, clock, checker>>
  PROVE  RulesInv'
<1>1. \A v \in Threads : RequestFits(v)'
  BY RequestStays
<1>2. \A k \in R!Subjects : SnapshotFits(k)'
  BY SnapshotStays
<1>3. QED BY <1>1, <1>2 DEF RulesInv

LEMMA CheckRouteStep ==
  ASSUME RulesInv, NEW t \in Threads, R!CheckRoutes(t)
  PROVE  RulesInv'
<1>1. ASSUME NEW u \in Users, NEW todo \in Seq(Accounts), NEW s \in R!Scopes, R!StartCheck(t, u, todo, s)
      PROVE  RulesInv'
  BY <1>1, StartCheckStep
<1>2. NoStrategy \in R!Scopes /\ \A a \in Accounts : <<a>> \in Seq(Accounts)
  BY DEF R!Scopes
<1>3. \A n \in 1..2 : \A todo \in [1..n -> Accounts] : todo \in Seq(Accounts)
  BY SeqDef
<1>4. QED
  BY <1>1, <1>2, <1>3, ReadRulesStep, MakeSnapshotStep, SaveSnapshotStep
  DEF R!CheckRoutes, R!CheckAccount, R!CheckStrategy, R!BatchCheckTask, R!ContinuousMonitorTask,
      R!GenerateAllSnapshotsTask, R!GenerateAccountSnapshotTask

LEMMA RulesStep ==
  ASSUME RulesInv, R!Next
  PROVE  RulesInv'
<1>1. ASSUME NEW u \in Users, NEW r \in RuleIds, NEW row \in R!Rule, R!CreateRule(u, r, row)
      PROVE  RulesInv'
  <2>1. RulesStay /\ rules' \in [RuleIds -> R!Rule]
    BY <1>1 DEF R!CreateRule, RulesInv, RulesStay
  <2>2. QED BY <1>1, <2>1, TableStep DEF R!CreateRule
<1>2. ASSUME NEW u \in Users, NEW r \in RuleIds, R!DeleteRule(u, r)
      PROVE  RulesInv'
  <2> DEFINE row == [rules[r] EXCEPT !.is = "deleted"]
  <2>1. row \in R!Rule /\ row.is = "deleted" /\ row.account = rules[r].account
    BY DEF RulesInv, R!Rule
  <2>2. rules' = [rules EXCEPT ![r] = row] /\ UNCHANGED <<latest, clock, checker>>
    BY <1>2 DEF R!DeleteRule
  <2> HIDE DEF row
  <2>3. RulesStay /\ rules' \in [RuleIds -> R!Rule]
    BY <2>1, <2>2 DEF RulesInv, RulesStay
  <2>4. QED BY <2>2, <2>3, TableStep
<1>3. CASE R!Crash
  <2>1. checker' = [t \in Threads |-> R!Idle] /\ UNCHANGED <<rules, latest, clock>>
    BY <1>3 DEF R!Crash
  <2>2. \A v \in Threads : RequestFits(v)'
    BY <2>1, IdleRequest
  <2>3. \A k \in R!Subjects : SnapshotFits(k)'
    BY <2>1, SameRules, SnapshotStays
  <2>4. QED BY <2>1, <2>2, <2>3 DEF RulesInv
<1>4. QED BY <1>1, <1>2, <1>3, RuleRouteStep, CheckRouteStep DEF R!Next

-----------------------------------------------------------------------------
(* Checks that are not overtaken                                           *)

Given(account, strategy) == R!Assess(R!Applicable(account, strategy))

\* A finding or a snapshot says what the rules give now.
Says(found, account, strategy) ==
  /\ found.level = Given(account, strategy).level
  /\ found.triggered = Given(account, strategy).triggered

\* The snapshot that is read was made no later than the one found.
NoLater(k, found) == latest[k] # NoSnapshot => latest[k].stamp <= found.stamp

\* What a check that was not overtaken has found.
CheckFits(t) ==
  \A k \in R!Subjects : Between(t) /\ Subject(t) = k =>
    /\ Says(checker[t].found, k[2], k[3])
    /\ checker[t].at = "snapshot" => NoLater(k, checker[t].found)

\* While no check was overtaken, what the checks found is what the rules give,
\* and a check that made its snapshot made it after the one that is read.
UpToDate ==
  /\ fresh \in SUBSET R!Subjects
  /\ \A k \in R!Subjects : latest[k] # NoSnapshot => latest[k].stamp <= clock
  /\ \A t \in Threads : checker[t].at = "snapshot" => checker[t].found.stamp <= clock
  /\ ~raced => \A k \in fresh : latest[k] # NoSnapshot /\ Says(latest[k], k[2], k[3])
  /\ ~raced => \A t \in Threads : CheckFits(t)

LEMMA SameGiven ==
  ASSUME rules' = rules, NEW account, NEW strategy
  PROVE  Given(account, strategy)' = Given(account, strategy)
BY DEF Given, R!Assess, R!Applicable, R!Stored

LEMMA SubjectOf ==
  ASSUME RulesInv, NEW t \in Threads, checker[t].at \in {"next", "stamp", "snapshot"}
  PROVE  Subject(t) \in R!Subjects
<1>1. RequestFits(t) /\ checker[t] \in R!Request
  BY DEF RulesInv
<1>2. PICK a \in Accounts : a = Head(checker[t].todo)
  BY <1>1, HeadTailProperties DEF RequestFits, R!Request
<1>3. PICK u \in Users, s \in R!Scopes : u = checker[t].user /\ s = checker[t].strategy
  BY <1>1 DEF RequestFits, R!Request
<1>4. QED BY <1>2, <1>3 DEF Subject, R!Subjects

\* A check that saves is at a subject, and what it found is what is read then.
LEMMA SavedFits ==
  ASSUME RulesInv, UpToDate, ~raced, NEW t \in Threads, R!SaveSnapshot(t)
  PROVE  /\ Subject(t) \in R!Subjects
         /\ latest' = [latest EXCEPT ![Subject(t)] = checker[t].found]
         /\ checker[t].found \in R!Snapshot /\ checker[t].at = "snapshot"
         /\ \A k \in R!Subjects : k = Subject(t) => Says(checker[t].found, k[2], k[3])
<1>1. /\ RequestFits(t) /\ checker[t] \in R!Request /\ checker[t].at = "snapshot" /\ Between(t)
      /\ CheckFits(t)
  BY DEF RulesInv, UpToDate, R!SaveSnapshot, R!At, Between
<1>2. PICK a \in Accounts : a = Head(checker[t].todo)
  BY <1>1, HeadTailProperties DEF RequestFits, R!Request
<1>3. PICK u \in Users, s \in R!Scopes : u = checker[t].user /\ s = checker[t].strategy
  BY <1>1 DEF RequestFits, R!Request
<1>4. PICK k \in R!Subjects : k = Subject(t) /\ k = <<u, a, s>>
  BY <1>2, <1>3 DEF Subject, R!Subjects
<1>5. /\ Says(checker[t].found, k[2], k[3]) /\ NoLater(k, checker[t].found)
      /\ checker[t].found \in R!Snapshot
  BY <1>1, <1>4 DEF CheckFits, R!Request
<1>6. latest' = [latest EXCEPT ![k] = checker[t].found]
  <2>1. latest' = IF latest[k] # NoSnapshot /\ latest[k].stamp > checker[t].found.stamp
                  THEN latest ELSE [latest EXCEPT ![k] = checker[t].found]
    BY <1>2, <1>3, <1>4 DEF R!SaveSnapshot
  <2>2. ~(latest[k] # NoSnapshot /\ latest[k].stamp > checker[t].found.stamp)
    BY <1>5, AssessmentsAssumption DEF NoLater, RulesInv, R!Snapshot, R!Parameters
  <2>3. QED BY <2>1, <2>2
<1>7. QED BY <1>1, <1>4, <1>5, <1>6

\* A step that leaves the rules alone keeps what was found, of every check that
\* it neither moves nor overtakes.
LEMMA FoundStays ==
  ASSUME RulesInv, UpToDate, ~raced, rules' = rules, NEW v \in Threads, checker'[v] = checker[v],
         \A k \in R!Subjects : Between(v) /\ Subject(v) = k => latest'[k] = latest[k]
  PROVE  CheckFits(v)'
<1>1. CheckFits(v)
  BY DEF UpToDate
<1>2. ASSUME NEW k \in R!Subjects, Between(v)', Subject(v)' = k
      PROVE  Says(checker[v].found, k[2], k[3])' /\ (checker[v].at = "snapshot" => NoLater(k, checker[v].found))'
  <2>1. Between(v) /\ Subject(v) = k
    BY <1>2 DEF Between, Subject
  <2>2. /\ Says(checker[v].found, k[2], k[3]) /\ latest'[k] = latest[k]
        /\ checker[v].at = "snapshot" => NoLater(k, checker[v].found)
    BY <1>1, <2>1 DEF CheckFits
  <2>3. QED BY <2>2, SameGiven DEF Says, NoLater
<1>3. QED BY <1>2 DEF CheckFits

\* No snapshot is saved and no rule changes: a check is where it was, between no
\* reading and saving, or has found what the rules give.
LEMMA FindingStep ==
  ASSUME RulesInv, UpToDate, raced' = (raced \/ Overtake), rules' = rules, latest' = latest,
         clock' \in Nat, clock <= clock', fresh' = fresh \cup Saved,
         \A v \in Threads :
           \/ checker'[v] = checker[v]
           \/ ~Between(v)'
           \/ /\ checker'[v].at = "snapshot" => checker'[v].found.stamp <= clock'
              /\ ~raced => CheckFits(v)'
  PROVE  UpToDate'
<1>1. clock \in Nat
  BY AssessmentsAssumption DEF RulesInv, R!Parameters
<1>2. ASSUME NEW t \in Threads, R!SaveSnapshot(t), ~raced
      PROVE  /\ latest[Subject(t)] # NoSnapshot
             /\ \A k \in R!Subjects : k = Subject(t) => Says(latest[k], k[2], k[3])
    <2>1. latest[Subject(t)] = checker[t].found
      BY <1>2, SavedFits DEF RulesInv
    <2>2. checker[t].found # NoSnapshot
      BY <1>2, SavedFits, AssessmentsAssumption DEF R!Parameters
    <2>3. QED BY <1>2, <2>1, <2>2, SavedFits
<1>3. fresh' \in SUBSET R!Subjects
  <2>1. ASSUME NEW t \in Threads, R!SaveSnapshot(t) PROVE Subject(t) \in R!Subjects
    BY <2>1, SubjectOf DEF R!SaveSnapshot, R!At, Between
  <2>2. QED BY <2>1 DEF Saved, UpToDate
<1>4. \A k \in R!Subjects : latest'[k] # NoSnapshot => latest'[k].stamp <= clock'
  BY <1>1, AssessmentsAssumption DEF UpToDate, RulesInv, R!Snapshot, R!Parameters
<1>5. ASSUME NEW v \in Threads, checker'[v].at = "snapshot"
      PROVE  checker'[v].found.stamp <= clock'
  <2>1. CASE checker'[v] = checker[v]
    BY <1>1, <1>5, <2>1, AssessmentsAssumption
    DEF UpToDate, RulesInv, R!Request, R!Snapshot, R!Parameters
  <2>2. CASE ~Between(v)'
    BY <1>5, <2>2 DEF Between
  <2>3. QED BY <1>5, <2>1, <2>2
<1>6. ASSUME ~raced'
      PROVE  \A k \in fresh' : latest'[k] # NoSnapshot /\ Says(latest[k], k[2], k[3])'
  <2>1. ASSUME NEW k \in fresh'
        PROVE  latest[k] # NoSnapshot /\ Says(latest[k], k[2], k[3])
    <3>1. k \in R!Subjects /\ ~raced
      BY <1>3, <1>6, <2>1
    <3>2. CASE k \in fresh
      BY <3>1, <3>2 DEF UpToDate
    <3>3. CASE k \in Saved
      BY <1>2, <3>1, <3>3 DEF Saved
    <3>4. QED BY <2>1, <3>2, <3>3
  <2>2. QED BY <2>1, SameGiven DEF Says
<1>7. ASSUME ~raced', NEW v \in Threads
      PROVE  CheckFits(v)'
  <2>1. CASE checker'[v] = checker[v]
    BY <1>7, <2>1, FoundStays
  <2>2. CASE ~Between(v)'
    BY <2>2 DEF CheckFits
  <2>3. QED BY <1>7, <2>1, <2>2
<1>8. QED BY <1>3, <1>4, <1>5, <1>6, <1>7 DEF UpToDate
\* A snapshot is saved.
LEMMA SavingStep ==
  ASSUME RulesInv, UpToDate, raced' = (raced \/ Overtake), fresh' = fresh \cup Saved,
         NEW t \in Threads, R!SaveSnapshot(t)
  PROVE  UpToDate'
<1>1. /\ rules' = rules /\ clock' = clock /\ checker[t].at = "snapshot" /\ checker[t].found \in R!Snapshot
      /\ \/ R!Leave(t)
         \/ R!Goto(t, [checker[t] EXCEPT !.at = "next", !.todo = Tail(@), !.found = R!NoFinding])
      /\ Subject(t) \in R!Subjects /\ checker[t] \in R!Request
  BY SubjectOf DEF R!SaveSnapshot, R!At, RulesInv, R!Request
<1>2. /\ ~Between(t)' /\ checker'[t].at # "snapshot"
      /\ \A v \in Threads \ {t} : checker'[v] = checker[v]
  <2>1. R!Idle.at = "idle"
    BY DEF R!Idle
  <2>2. [checker[t] EXCEPT !.at = "next", !.todo = Tail(@), !.found = R!NoFinding].at = "next"
    BY <1>1 DEF R!Request
  <2>3. PICK q : R!Goto(t, q) /\ q.at \in {"idle", "next"}
    BY <1>1, <2>1, <2>2 DEF R!Leave
  <2>4. checker'[t] = q /\ \A v \in Threads \ {t} : checker'[v] = checker[v]
    BY <2>3 DEF R!Goto, RulesInv
  <2>5. QED BY <2>3, <2>4 DEF Between
<1>3. latest' \in {latest, [latest EXCEPT ![Subject(t)] = checker[t].found]}
  BY DEF R!SaveSnapshot, Subject
<1>4. fresh' \in SUBSET R!Subjects
  <2>1. ASSUME NEW v \in Threads, R!SaveSnapshot(v) PROVE Subject(v) \in R!Subjects
    BY <2>1, SubjectOf DEF R!SaveSnapshot, R!At, Between
  <2>2. QED BY <2>1 DEF Saved, UpToDate
<1>5. ASSUME NEW k \in R!Subjects, latest'[k] # NoSnapshot
      PROVE  latest'[k].stamp <= clock'
  <2>1. latest'[k] = latest[k] \/ latest'[k] = checker[t].found
    BY <1>3 DEF RulesInv
  <2>2. checker[t].found.stamp <= clock
    BY <1>1 DEF UpToDate
  <2>3. QED BY <1>1, <1>5, <2>1, <2>2 DEF UpToDate
<1>6. ASSUME NEW v \in Threads, checker'[v].at = "snapshot"
      PROVE  checker'[v].found.stamp <= clock'
  BY <1>1, <1>2, <1>6 DEF UpToDate
<1>7. ASSUME ~raced'
      PROVE  \A k \in fresh' : latest'[k] # NoSnapshot /\ Says(latest[k], k[2], k[3])'
  <2>1. ASSUME NEW k \in fresh'
        PROVE  /\ latest'[k] # NoSnapshot
               /\ latest'[k].level = Given(k[2], k[3]).level
               /\ latest'[k].triggered = Given(k[2], k[3]).triggered
    <3>1. k \in R!Subjects /\ ~raced
      BY <1>4, <1>7, <2>1
    <3>2. ASSUME NEW v \in Threads, R!SaveSnapshot(v), k = Subject(v)
          PROVE  /\ latest'[k] = checker[v].found /\ checker[v].found # NoSnapshot
                 /\ Says(checker[v].found, k[2], k[3])
      BY <3>1, <3>2, SavedFits, AssessmentsAssumption DEF R!Parameters, RulesInv
    <3>3. CASE k \in Saved
      BY <3>2, <3>3 DEF Saved, Says
    <3>4. CASE k \notin Saved
      <4>1. k \in fresh /\ k # Subject(t)
        BY <2>1, <3>4 DEF Saved
      <4>2. latest'[k] = latest[k]
        BY <1>1, <1>3, <3>1, <4>1 DEF RulesInv
      <4>3. QED BY <3>1, <4>1, <4>2 DEF UpToDate, Says
    <3>5. QED BY <3>3, <3>4
  <2>2. QED BY <1>1, <2>1, SameGiven DEF Says
<1>8. ASSUME ~raced', NEW v \in Threads
      PROVE  CheckFits(v)'
  <2>1. CASE v = t
    BY <1>2, <2>1 DEF CheckFits
  <2>2. CASE v # t
    <3>1. Between(v) => Subject(v) # Subject(t)
      BY <1>1, <1>8, <2>2 DEF Overtake, Between
    <3>2. \A k \in R!Subjects : Between(v) /\ Subject(v) = k => latest'[k] = latest[k]
      BY <1>1, <1>3, <3>1 DEF RulesInv
    <3>3. QED BY <1>1, <1>2, <1>8, <2>2, <3>2, FoundStays
  <2>3. QED BY <2>1, <2>2
<1>9. QED BY <1>4, <1>5, <1>6, <1>7, <1>8 DEF UpToDate

\* The rules change. Unless that overtakes a check, none is between its reading
\* and its saving.
LEMMA ChangedStep ==
  ASSUME RulesInv, UpToDate, raced' = (raced \/ Overtake), rules' # rules, fresh' = {},
         UNCHANGED <<latest, clock>>,
         \A v \in Threads : checker'[v] = checker[v] \/ ~Between(v)'
  PROVE  UpToDate'
<1>1. ASSUME NEW v \in Threads, checker'[v].at = "snapshot"
      PROVE  checker'[v].found.stamp <= clock'
  BY <1>1 DEF UpToDate, Between
<1>2. ASSUME ~raced', NEW v \in Threads
      PROVE  CheckFits(v)'
  BY <1>2 DEF Overtake, CheckFits, Between
<1>3. QED BY <1>1, <1>2 DEF UpToDate

\* Steps that neither save a snapshot nor find anything.
LEMMA AsideStep ==
  ASSUME RulesInv, UpToDate, raced' = (raced \/ Overtake),
         fresh' = IF rules' = rules THEN fresh \cup Saved ELSE {}, UNCHANGED <<latest, clock>>,
         \A v \in Threads : checker'[v] = checker[v] \/ ~Between(v)'
  PROVE  UpToDate'
<1>1. clock \in Nat /\ clock <= clock
  BY AssessmentsAssumption DEF RulesInv, R!Parameters
<1>2. CASE rules' = rules
  BY <1>1, <1>2, FindingStep
<1>3. CASE rules' # rules
  BY <1>3, ChangedStep
<1>4. QED BY <1>2, <1>3

\* A request moves to where nothing is found.
LEMMA AsideMove ==
  ASSUME RulesInv, NEW t \in Threads, NEW q, R!Goto(t, q), q.at \notin {"stamp", "snapshot"}
  PROVE  \A v \in Threads : checker'[v] = checker[v] \/ ~Between(v)'
BY DEF R!Goto, Between, RulesInv
\* What a check finds or makes is up to date.
LEMMA FoundStep ==
  ASSUME RulesInv, UpToDate, raced' = (raced \/ Overtake), rules' = rules, latest' = latest,
         clock' \in Nat, clock <= clock', fresh' = fresh \cup Saved,
         NEW t \in Threads, NEW q, R!Goto(t, q),
         checker'[t] = q => /\ q.at = "snapshot" => q.found.stamp <= clock'
                            /\ ~raced => CheckFits(t)'
  PROVE  UpToDate'
<1>1. checker'[t] = q /\ \A v \in Threads \ {t} : checker'[v] = checker[v]
  BY DEF R!Goto, RulesInv
<1>2. QED BY <1>1, FindingStep

LEMMA ReadingStep ==
  ASSUME RulesInv, UpToDate, raced' = (raced \/ Overtake), fresh' = fresh \cup Saved,
         NEW t \in Threads, R!ReadRules(t)
  PROVE  UpToDate'
<1>1. /\ RequestFits(t) /\ checker[t] \in R!Request /\ checker[t].at = "next"
      /\ UNCHANGED <<rules, latest, clock>>
  BY DEF RulesInv, R!ReadRules, R!At
<1>2. clock \in Nat /\ clock <= clock
  BY AssessmentsAssumption DEF RulesInv, R!Parameters
<1>3. PICK account \in Accounts, s \in R!Scopes : account = Head(checker[t].todo) /\ s = checker[t].strategy
  BY <1>1, HeadTailProperties DEF RequestFits, R!Request
<1> DEFINE q == [checker[t] EXCEPT !.at = "stamp", !.found = R!Assess(R!Applicable(account, s))]
<1>4. R!Goto(t, q) \/ R!Leave(t)
  BY <1>3 DEF R!ReadRules
<1>5. CASE R!Goto(t, q)
  <2>1. /\ q.at = "stamp" /\ q.found = Given(account, s) /\ q.user = checker[t].user
        /\ q.todo = checker[t].todo /\ q.strategy = s
    BY <1>1, <1>3 DEF R!Request, Given
  <2> HIDE DEF q
  <2>2. ASSUME checker'[t] = q
        PROVE  CheckFits(t)'
    <3>1. Subject(t)' = <<q.user, account, s>>
      BY <1>3, <2>1, <2>2 DEF Subject
    <3>2. checker'[t].at = "stamp" /\ checker'[t].found = Given(account, s)
      BY <2>1, <2>2
    <3>3. Given(account, s)' = Given(account, s)
      BY <1>1, SameGiven
    <3>4. Says(checker[t].found, account, s)'
      BY <3>2, <3>3 DEF Says
    <3>5. QED BY <3>1, <3>2, <3>4 DEF CheckFits
  <2>3. QED BY <1>1, <1>2, <1>5, <2>1, <2>2, FoundStep
<1>6. CASE R!Leave(t)
  <2>1. R!Idle.at = "idle" /\ R!Goto(t, R!Idle)
    BY <1>6 DEF R!Idle, R!Leave
  <2>2. QED BY <1>1, <2>1, AsideMove, AsideStep
<1>7. QED BY <1>4, <1>5, <1>6

LEMMA MakingStep ==
  ASSUME RulesInv, UpToDate, raced' = (raced \/ Overtake), fresh' = fresh \cup Saved,
         NEW t \in Threads, R!MakeSnapshot(t)
  PROVE  UpToDate'
<1> DEFINE q == [checker[t] EXCEPT !.at = "snapshot", !.found.stamp = clock + 1]
<1>1. /\ RequestFits(t) /\ checker[t] \in R!Request /\ checker[t].at = "stamp"
      /\ UNCHANGED <<rules, latest>> /\ clock' = clock + 1 /\ R!Goto(t, q)
  BY DEF RulesInv, R!MakeSnapshot, R!At
<1>2. clock' \in Nat /\ clock <= clock'
  BY <1>1, AssessmentsAssumption DEF RulesInv, R!Parameters
<1>3. /\ q.at = "snapshot" /\ q.found.stamp = clock' /\ q.found.level = checker[t].found.level
      /\ q.found.triggered = checker[t].found.triggered
      /\ q.user = checker[t].user /\ q.todo = checker[t].todo /\ q.strategy = checker[t].strategy
  BY <1>1 DEF R!Request, R!Snapshot
<1> HIDE DEF q
<1>4. ASSUME checker'[t] = q, ~raced
      PROVE  CheckFits(t)'
  <2>1. Between(t) /\ CheckFits(t)
    BY <1>1, <1>4 DEF Between, UpToDate
  <2>2. Subject(t)' = Subject(t)
    BY <1>3, <1>4 DEF Subject
  <2>3. ASSUME NEW k \in R!Subjects, Subject(t) = k
        PROVE  Says(checker[t].found, k[2], k[3])' /\ NoLater(k, checker[t].found)'
    <3>1. Says(checker[t].found, k[2], k[3])
      BY <2>1, <2>3 DEF CheckFits
    <3>2. Says(checker[t].found, k[2], k[3])'
      BY <1>1, <1>3, <1>4, <3>1, SameGiven DEF Says
    <3>3. latest[k] # NoSnapshot => latest[k].stamp \in Nat /\ latest[k].stamp <= clock
      BY AssessmentsAssumption DEF UpToDate, RulesInv, R!Snapshot, R!Parameters
    <3>4. NoLater(k, checker[t].found)'
      BY <1>1, <1>2, <1>3, <1>4, <3>3, AssessmentsAssumption DEF NoLater, RulesInv, R!Parameters
    <3>5. QED BY <3>2, <3>4
  <2>4. QED BY <2>2, <2>3 DEF CheckFits
<1>5. q.at = "snapshot" => q.found.stamp <= clock'
  BY <1>2, <1>3
<1>6. QED BY <1>1, <1>2, <1>4, <1>5, FoundStep

\* Requests for rules, and those that start a check, find nothing.
LEMMA StartingStep ==
  ASSUME RulesInv, UpToDate, raced' = (raced \/ Overtake),
         fresh' = IF rules' = rules THEN fresh \cup Saved ELSE {},
         NEW t \in Threads, NEW u, NEW todo, NEW s, R!StartCheck(t, u, todo, s)
  PROVE  UpToDate'
<1> DEFINE q == [R!Idle EXCEPT !.at = "next", !.user = u, !.todo = todo, !.strategy = s]
<1>1. q.at = "next"
  BY DEF R!Idle
<1>2. R!Goto(t, q) /\ UNCHANGED <<rules, latest, clock>>
  BY DEF R!StartCheck
<1> HIDE DEF q
<1>3. QED BY <1>1, <1>2, AsideMove, AsideStep

LEMMA RuleRequestStep ==
  ASSUME RulesInv, UpToDate, raced' = (raced \/ Overtake),
         fresh' = IF rules' = rules THEN fresh \cup Saved ELSE {},
         NEW t \in Threads, R!RuleRoutes(t)
  PROVE  UpToDate'
<1>1. ASSUME NEW r, NEW row, R!Changing(t, r, row), UNCHANGED <<rules, latest, clock>>
      PROVE  UpToDate'
  <2> DEFINE q == [R!Idle EXCEPT !.at = "rule", !.rule = r, !.row = row]
  <2>1. q.at = "rule" /\ R!Goto(t, q)
    BY <1>1 DEF R!Idle, R!Changing
  <2> HIDE DEF q
  <2>2. QED BY <1>1, <2>1, AsideMove, AsideStep
<1>2. CASE R!SaveRule(t)
  <2>1. R!Idle.at = "idle" /\ R!Goto(t, R!Idle) /\ UNCHANGED <<latest, clock>>
    BY <1>2 DEF R!Idle, R!Leave, R!SaveRule
  <2>2. QED BY <2>1, AsideMove, AsideStep
<1>3. QED BY <1>1, <1>2 DEF R!RuleRoutes, R!UpdateRule, R!ToggleRuleStatus

LEMMA UpToDateStep ==
  ASSUME RulesInv, UpToDate, raced' = (raced \/ Overtake),
         fresh' = IF rules' = rules THEN fresh \cup Saved ELSE {}, R!Next
  PROVE  UpToDate'
<1>1. CASE checker' = checker /\ UNCHANGED <<latest, clock>>
  BY <1>1, AsideStep
<1>2. CASE R!Crash
  <2>1. R!Idle.at = "idle" /\ UNCHANGED <<latest, clock>> /\ \A v \in Threads : checker'[v] = R!Idle
    BY <1>2 DEF R!Idle, R!Crash
  <2>2. QED BY <2>1, AsideStep DEF Between
<1>3. ASSUME NEW t \in Threads, R!CheckRoutes(t)
      PROVE  UpToDate'
  <2>1. ASSUME NEW u, NEW todo, NEW s, R!StartCheck(t, u, todo, s)
        PROVE  UpToDate'
    BY <2>1, StartingStep
  <2>2. CASE R!ReadRules(t)
    BY <2>2, ReadingStep DEF R!ReadRules
  <2>3. CASE R!MakeSnapshot(t)
    BY <2>3, MakingStep DEF R!MakeSnapshot
  <2>4. CASE R!SaveSnapshot(t)
    BY <2>4, SavingStep DEF R!SaveSnapshot
  <2>5. QED
    BY <1>3, <2>1, <2>2, <2>3, <2>4
    DEF R!CheckRoutes, R!CheckAccount, R!CheckStrategy, R!BatchCheckTask, R!ContinuousMonitorTask,
        R!GenerateAllSnapshotsTask, R!GenerateAccountSnapshotTask
<1>4. ASSUME NEW t \in Threads, R!RuleRoutes(t)
      PROVE  UpToDate'
  BY <1>4, RuleRequestStep
<1>5. QED BY <1>1, <1>2, <1>3, <1>4 DEF R!Next, R!CreateRule, R!DeleteRule
-----------------------------------------------------------------------------
(* Alerts, and rules with their assessments                                *)

MCInv == IInv /\ InHand /\ RulesInv /\ UpToDate

LEMMA MCInitInv == MCInit => MCInv
<1> SUFFICES ASSUME MCInit PROVE MCInv
  OBVIOUS
<1>1. IInv
  BY InitInv DEF MCInit
<1>2. InHand
  BY DEF MCInit, Init, InHand, Idle
<1>3. PICK r \in RuleIds, row \in R!Rule :
        rules = [q \in RuleIds |-> IF q = r /\ row.active THEN row ELSE R!Blank]
  BY DEF MCInit
<1>4. R!Blank \in R!Rule
  <2>1. row.account \in Accounts /\ row.threshold \in Thresholds
    BY DEF R!Rule
  <2>2. (CHOOSE a \in Accounts : TRUE) \in Accounts /\ (CHOOSE x \in Thresholds : TRUE) \in Thresholds
    BY <2>1
  <2>3. QED BY <2>2 DEF R!Blank, R!Rule, R!Scopes
<1>5. R!Idle \in R!Request /\ R!Idle.at = "idle"
  <2>1. R!NoFinding \in R!Snapshot
    BY AssessmentsAssumption DEF R!Parameters, R!NoFinding, R!Snapshot, R!Levels
  <2>2. <<>> \in Seq(Accounts) /\ NoStrategy \in R!Scopes
    BY DEF R!Scopes
  <2>3. QED BY <1>4, <2>1, <2>2 DEF R!Idle, R!Request
<1>6. \A t \in Threads : checker[t] = R!Idle
  BY DEF MCInit
<1>7. \A k \in R!Subjects : latest[k] = NoSnapshot
  BY DEF MCInit
<1>8. RulesInv
  <2>1. clock \in 0..MaxStamp
    BY AssessmentsAssumption DEF R!Parameters, MCInit
  <2>2. \A t \in Threads : RequestFits(t)
    BY <1>5, <1>6 DEF RequestFits, Between
  <2>3. checker \in [Threads -> R!Request] /\ rules \in [RuleIds -> R!Rule]
    BY <1>3, <1>4, <1>5 DEF MCInit
  <2>4. latest \in [R!Subjects -> R!Snapshot \cup {NoSnapshot}]
    BY DEF MCInit
  <2>5. QED BY <1>5, <1>7, <2>1, <2>2, <2>3, <2>4 DEF RulesInv, SnapshotFits
<1>9. UpToDate
  <2>1. fresh = {}
    BY DEF MCInit
  <2>2. QED BY <1>5, <1>6, <1>7, <2>1 DEF UpToDate, CheckFits, Between
<1>10. QED BY <1>1, <1>2, <1>8, <1>9 DEF MCInv

\* Neither the alerts nor their requests change.
LEMMA AlertsSame ==
  ASSUME IInv, InHand, UNCHANGED alertVars
  PROVE  IInv' /\ InHand'
<1>1. UNCHANGED vars /\ UNCHANGED <<alerts, thread, shared>>
  BY DEF alertVars, vars
<1>2. IInv'
  BY <1>1, StepInv
<1>3. InHand'
  BY <1>1 DEF InHand, Stored
<1>4. QED BY <1>2, <1>3

LEMMA RulesSame ==
  ASSUME RulesInv, UpToDate, UNCHANGED ruleVars
  PROVE  RulesInv' /\ UpToDate'
<1>1. UNCHANGED <<rules, latest, clock, checker, raced, fresh>>
  BY DEF ruleVars
<1>2. RulesInv'
  BY <1>1, SameRules, TableStep
<1>3. UpToDate'
  <2>1. \A v \in Threads : CheckFits(v)' = CheckFits(v)
    BY <1>1, SameGiven DEF CheckFits, Between, Subject, Says, NoLater
  <2>2. \A k \in fresh : Says(latest[k], k[2], k[3])' = Says(latest[k], k[2], k[3])
    BY <1>1, SameGiven DEF Says
  <2>3. QED BY <1>1, <2>1, <2>2 DEF UpToDate
<1>4. QED BY <1>2, <1>3

LEMMA MCStepInv == MCInv /\ [MCNext]_mcvars => MCInv' /\ (~shared' => Stays)
<1> SUFFICES ASSUME MCInv, [MCNext]_mcvars PROVE MCInv' /\ (~shared' => Stays)
  OBVIOUS
<1>1. CASE Next /\ shared' = (shared \/ Contend) /\ UNCHANGED ruleVars
  BY <1>1, StepInv, AlertsInHand, RulesSame DEF MCInv
<1>2. CASE /\ R!Next /\ raced' = (raced \/ Overtake)
           /\ fresh' = IF rules' = rules THEN fresh \cup Saved ELSE {}
           /\ UNCHANGED alertVars
  <2>1. Stays
    BY <1>2 DEF alertVars, vars, Stays, Stored
  <2>2. QED BY <1>2, <2>1, AlertsSame, RulesStep, UpToDateStep DEF MCInv
<1>3. CASE UNCHANGED mcvars
  <2>1. UNCHANGED alertVars /\ UNCHANGED ruleVars
    BY <1>3 DEF mcvars
  <2>2. Stays
    BY <2>1 DEF alertVars, vars, Stays, Stored
  <2>3. QED BY <2>1, <2>2, AlertsSame, RulesSame DEF MCInv
<1>4. QED BY <1>1, <1>2, <1>3 DEF MCNext

\* Alerts, rules, snapshots and the requests about them, in every reachable
\* state.
THEOREM MCInvariant == MCSpec => []MCInv
BY MCInitInv, MCStepInv, PTL DEF MCSpec

\* Rows, snapshots and requests of both parts are well formed, also what an
\* overlapping request saves over them (rows of repository_postgres.py).
THEOREM TypesCorrect == MCSpec => []TypesOK
<1>1. MCInv => TypesOK
  BY AssessmentsAssumption
  DEF MCInv, IInv, RulesInv, TypesOK, R!TypeOK, R!Request, R!Parameters
<1>2. QED BY <1>1, MCInvariant, PTL

\* A snapshot is made for the owner of its account and lists rules of that
\* account, whatever overlaps; while no check is overtaken, the one that is
\* read says what the rules give (_build_assessment, get_latest_assessment).
THEOREM SnapshotsCorrect == MCSpec => []SnapshotsFit
<1>1. MCInv => R!OwnSnapshots
  BY DEF MCInv, RulesInv, SnapshotFits, OfAccount, R!OwnSnapshots
<1>2. MCInv => SerialAssessed
  BY DEF MCInv, UpToDate, Says, Given, SerialAssessed
<1>3. QED BY <1>1, <1>2, MCInvariant, PTL DEF SnapshotsFit

\* While no two requests have had one alert in hand, a resolved alert stays
\* resolved and a deleted one deleted (acknowledge, notify_pending_alerts,
\* save_alert).
THEOREM ResolvedStays == MCSpec => SerialResolved
<1>1. MCInv /\ [MCNext]_mcvars => [~shared' => Stays]_mcvars
  BY MCStepInv
<1>2. [~shared' => Stays]_mcvars =>
        [~shared' => \A a \in AlertIds :
           /\ alerts[a].status = "resolved" /\ Stored(a)
                => alerts'[a].is = "deleted" \/ alerts'[a].status = "resolved"
           /\ alerts[a].is = "deleted" => alerts'[a].is = "deleted"]_mcvars
  BY DEF Stays
<1>3. QED BY <1>1, <1>2, MCInvariant, PTL DEF MCSpec, SerialResolved
=============================================================================
