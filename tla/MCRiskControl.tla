--------------------------- MODULE MCRiskControl ---------------------------
(***************************************************************************)
(* Risk alerts and risk assessments on small instances. They share nothing *)
(* but the request threads, so a behaviour is about one or the other       *)
(* (part). shared becomes true when two requests had one alert in hand, or *)
(* one was deleted in somebody's hand; raced when rules changed between    *)
(* the reading of the rules and the snapshot, or two checks of one subject *)
(* overlapped. A rule may be there already. started counts the requests,   *)
(* at most MaxRequests[part].                                              *)
(***************************************************************************)
EXTENDS RiskAlerts, Sequences, TLC

CONSTANTS Accounts, RuleIds, AccountOwner, Strategies, NoStrategy, Thresholds, MaxStamp,
          NoSnapshot, NoRule, MaxRequests

VARIABLES
  part, started, shared,
  rules, latest, clock, checker, raced,
  fresh \* subjects checked since the rules that apply to them changed

R == INSTANCE RiskAssessments WITH Owner <- AccountOwner, thread <- checker

ASSUME AssessmentsAssumption == R!Parameters

alertVars == <<vars, shared>>
ruleVars  == <<rules, latest, clock, checker, raced, fresh>>
mcvars    == <<part, started, alertVars, ruleVars>>

Symmetry == Permutations(Threads) \cup Permutations(RuleIds) \cup Permutations(AlertIds)

Us == CHOOSE f \in [1..2 -> Users] : f[1] # f[2]

MCOwner        == [a \in AlertIds |-> Us[1]]
MCAccountOwner == LET f == CHOOSE f \in [Accounts -> Users] : \A u \in Users : \E a \in Accounts : f[a] = u
                  IN f

Bounds == [alerts |-> MaxRequests + 2, rules |-> MaxRequests]

MCInit ==
  /\ started = 0
  /\ part \in {"alerts", "rules"}
  /\ Init
  /\ \E r \in RuleIds, row \in R!Rule :
       /\ row.is # "deleted" /\ (row.is = "stored" <=> row.active)
       /\ rules = [q \in RuleIds |-> IF q = r /\ row.active THEN row ELSE R!Blank]
  /\ latest = [k \in R!Subjects |-> NoSnapshot] /\ clock = 0
  /\ checker = [t \in Threads |-> R!Idle]
  /\ shared = FALSE /\ raced = FALSE /\ fresh = {}

Contend ==
  \/ \E t \in Threads : \E v \in Threads \ {t} : thread'[t].todo \cap thread'[v].todo # {}
  \/ \E t \in Threads : \E a \in thread'[t].todo : alerts'[a].is = "deleted"

\* A check between its reading of the rules and its snapshot.
Between(t) == checker[t].at \in {"stamp", "snapshot"}
Subject(t) == <<checker[t].user, Head(checker[t].todo), checker[t].strategy>>

Overtake ==
  \/ rules' # rules /\ \E t \in Threads : Between(t)
  \/ \E t \in Threads : \E v \in Threads \ {t} :
       Between(t) /\ Between(v) /\ Subject(t) = Subject(v)

Saved == {Subject(t) : t \in {v \in Threads : R!SaveSnapshot(v)}}

\* A step that goes on with no request begins one.
Going(t) == (~IsIdle(t) /\ thread'[t] # thread[t]) \/ (checker[t].at # "idle" /\ checker'[t] # checker[t])

\* A process without requests dies.
Idling == UNCHANGED <<vars, rules, latest, clock, checker>>

MCNext ==
  /\ UNCHANGED part
  /\ \/ /\ part = "alerts"
        /\ Next
        /\ shared' = (shared \/ Contend)
        /\ UNCHANGED ruleVars
     \/ /\ part = "rules"
        /\ R!Next
        /\ raced' = (raced \/ Overtake)
        /\ fresh' = IF rules' = rules THEN fresh \cup Saved ELSE {}
        /\ UNCHANGED alertVars
  /\ started' = started + (IF Idling \/ \E t \in Threads : Going(t) THEN 0 ELSE 1)
  /\ started' <= Bounds[part]

MCSpec == MCInit /\ [][MCNext]_mcvars

\* While no two requests have had one alert in hand, a resolved alert stays
\* resolved until it is deleted, and a deleted one stays deleted
\* (acknowledge, notify_pending_alerts, save_alert).
SerialResolved ==
  [][~shared' => \A a \in AlertIds :
       /\ alerts[a].status = "resolved" /\ Stored(a)
            => alerts'[a].is = "deleted" \/ alerts'[a].status = "resolved"
       /\ alerts[a].is = "deleted" => alerts'[a].is = "deleted"]_mcvars

\* While no check is overtaken, the snapshot that is read for a subject checked
\* since its rules changed says what these rules give (_build_assessment,
\* get_latest_assessment).
SerialAssessed ==
  ~raced => \A k \in fresh :
    LET now == R!Assess(R!Applicable(k[2], k[3])) IN
    /\ latest[k] # NoSnapshot
    /\ latest[k].level = now.level /\ latest[k].triggered = now.triggered

\* A snapshot is about the rules of its own account, and up to date.
SnapshotsFit == R!OwnSnapshots /\ SerialAssessed

TypesOK == TypeOK /\ R!TypeOK
=============================================================================
