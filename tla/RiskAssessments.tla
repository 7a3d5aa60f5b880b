-------------------------- MODULE RiskAssessments --------------------------
(***************************************************************************)
(* Risk rules and the assessments computed from them (libs/risk_control).  *)
(* A check reads the rules that apply to an account, or to a strategy on   *)
(* it, and saves a snapshot of the result in another transaction; a batch  *)
(* checks a list of accounts, one after the other, until one is refused.   *)
(* Thresholds are percentages; rounding and times are left out, but for    *)
(* the order in which snapshots were made.                                 *)
(***************************************************************************)
EXTENDS Integers, FiniteSets, Sequences, FiniteSetsExt

CONSTANTS
  Users, Accounts, RuleIds, \* rule ids are uuid4 values, never handed out twice
  Owner,                    \* the owner of each account (trading_account)
  Strategies, NoStrategy,   \* a rule or a check that is for the whole account
  Thresholds,               \* bound: the thresholds users give, in percent
  MaxStamp,                 \* bound: how many snapshots are made
  NoSnapshot,               \* no snapshot was saved
  NoRule, NoUser,           \* of a request without one
  Threads

VARIABLES
  rules,  \* the rule table
  latest, \* <<user, account, strategy>> -> the snapshot made last
  clock,  \* the times snapshots are made at
  thread  \* what each request thread is doing

vars == <<rules, latest, clock, thread>>

Scopes == Strategies \cup {NoStrategy}

Rule  == [is: {"unborn", "stored", "deleted"}, account: Accounts, strategy: Scopes,
          threshold: Thresholds, active: BOOLEAN]
Blank == [is |-> "unborn", account |-> CHOOSE a \in Accounts : TRUE, strategy |-> NoStrategy,
          threshold |-> CHOOSE x \in Thresholds : TRUE, active |-> FALSE]

Levels   == {"low", "medium", "high"}
Snapshot == [level: Levels, triggered: SUBSET RuleIds, stamp: 0..MaxStamp]
Subjects == Users \X Accounts \X Scopes

\* What the constants must be.
Parameters ==
  /\ Owner \in [Accounts -> Users]
  /\ Thresholds \subseteq Nat \ {0}
  /\ MaxStamp \in Nat
  /\ NoSnapshot \notin Snapshot

Stored(r)  == rules[r].is = "stored"
OwnRules(u) == {r \in RuleIds : Stored(r) /\ Owner[rules[r].account] = u}

\* list_applicable_rules.
Applicable(account, strategy) ==
  {r \in RuleIds : /\ Stored(r) /\ rules[r].account = account /\ rules[r].active
                   /\ rules[r].strategy \in {NoStrategy, strategy}}

\* Mutant: an account without rules has no level.
AssessNone(S) == [level |-> IF S = {} THEN "none" ELSE "high", triggered |-> S, stamp |-> 0]

\* The sum of the thresholds of some rules of the table.
Total(table, S) == FoldSet(LAMBDA r, n : n + table[r].threshold, 0, S)

\* _build_assessment: the mean of the thresholds is the score, _to_risk_level
\* its level, and a rule of at least 20 percent is listed as triggered.
Assess(S) ==
  LET total == Total(rules, S)
      count == Cardinality(S) IN
  [level |-> CASE total >= 70 * count /\ S # {} -> "high"
               [] total >= 30 * count /\ total < 70 * count -> "medium"
               [] OTHER -> "low",
   triggered |-> {r \in S : rules[r].threshold >= 20}, stamp |-> 0]

\* A request: the rule it is about to save, or the accounts it has yet to
\* check and what it found for the one it is at.
Request == [at: {"idle", "rule", "next", "stamp", "snapshot"}, user: Users \cup {NoUser},
            rule: RuleIds \cup {NoRule}, row: Rule, todo: Seq(Accounts), strategy: Scopes,
            found: Snapshot]

NoFinding == [level |-> "low", triggered |-> {}, stamp |-> 0]

Idle == [at |-> "idle", user |-> NoUser, rule |-> NoRule, row |-> Blank, todo |-> <<>>,
         strategy |-> NoStrategy, found |-> NoFinding]

At(t, p)   == thread[t].at = p
Goto(t, r) == thread' = [thread EXCEPT ![t] = r]
Leave(t)   == Goto(t, Idle)

-----------------------------------------------------------------------------
(* Rules (service.py)                                                      *)

CreateRule(u, r, row) ==
  /\ rules[r].is = "unborn"
  /\ Owner[row.account] = u
  /\ row.is = "stored" /\ row.active
  /\ rules' = [rules EXCEPT ![r] = row]
  /\ UNCHANGED <<latest, clock, thread>>

Changing(t, r, row) == Goto(t, [Idle EXCEPT !.at = "rule", !.rule = r, !.row = row])

\* update_rule: a new threshold or strategy, in a copy of the row.
UpdateRule(t, u, r, threshold, strategy) ==
  /\ At(t, "idle")
  /\ r \in OwnRules(u)
  /\ strategy \in Strategies \cup {rules[r].strategy}
  /\ Changing(t, r, [rules[r] EXCEPT !.threshold = threshold, !.strategy = strategy])
  /\ UNCHANGED <<rules, latest, clock>>

ToggleRuleStatus(t, u, r, active) ==
  /\ At(t, "idle")
  /\ r \in OwnRules(u)
  /\ Changing(t, r, [rules[r] EXCEPT !.active = active])
  /\ UNCHANGED <<rules, latest, clock>>

\* save_rule: the upsert of the copy, which brings back a rule deleted
\* meanwhile.
SaveRule(t) ==
  /\ At(t, "rule")
  /\ rules' = [rules EXCEPT ![thread[t].rule] = thread[t].row]
  /\ Leave(t)
  /\ UNCHANGED <<latest, clock>>

DeleteRule(u, r) ==
  /\ r \in OwnRules(u)
  /\ rules' = [rules EXCEPT ![r].is = "deleted"]
  /\ UNCHANGED <<latest, clock, thread>>

-----------------------------------------------------------------------------
(* Assessments (service.py)                                                *)

\* batch_check_accounts, submit_continuous_monitor, generate_all_snapshots: the
\* accounts are checked in turn.
StartCheck(t, u, todo, strategy) ==
  /\ At(t, "idle")
  /\ todo # <<>>
  /\ Goto(t, [Idle EXCEPT !.at = "next", !.user = u, !.todo = todo, !.strategy = strategy])
  /\ UNCHANGED <<rules, latest, clock>>

\* The routes that check (api.py), at once or as a job. A task whose key the
\* user has given before is refused with 409 and checks nothing.
CheckAccount(t, u, a)     == StartCheck(t, u, <<a>>, NoStrategy)
CheckStrategy(t, u, a, s) == s # NoStrategy /\ StartCheck(t, u, <<a>>, s)
BatchCheckTask(t, u, todo)         == StartCheck(t, u, todo, NoStrategy)
ContinuousMonitorTask(t, u, todo)  == StartCheck(t, u, todo, NoStrategy)
GenerateAllSnapshotsTask(t, u, todo) == StartCheck(t, u, todo, NoStrategy)
GenerateAccountSnapshotTask(t, u, a) == StartCheck(t, u, <<a>>, NoStrategy)

\* Mutant: the owner of the account is not asked for.
ReadAny(t) ==
  /\ At(t, "next")
  /\ Goto(t, [thread[t] EXCEPT !.at = "stamp",
                !.found = Assess(Applicable(Head(thread[t].todo), thread[t].strategy))])
  /\ UNCHANGED <<rules, latest, clock>>

\* The rules of the next account are read. An account of another user raises
\* out of the batch, whose snapshots so far remain.
ReadRules(t) ==
  /\ At(t, "next")
  /\ LET account == Head(thread[t].todo) IN
     IF Owner[account] = thread[t].user
     THEN Goto(t, [thread[t] EXCEPT !.at = "stamp",
                     !.found = Assess(Applicable(account, thread[t].strategy))])
     ELSE Leave(t)
  /\ UNCHANGED <<rules, latest, clock>>

\* RiskAssessmentSnapshot.create takes the time.
MakeSnapshot(t) ==
  /\ At(t, "stamp")
  /\ clock < MaxStamp
  /\ clock' = clock + 1
  /\ Goto(t, [thread[t] EXCEPT !.at = "snapshot", !.found.stamp = clock + 1])
  /\ UNCHANGED <<rules, latest>>

\* Mutant: the first snapshot is kept.
SaveFirst(t) ==
  /\ At(t, "snapshot")
  /\ LET key == <<thread[t].user, Head(thread[t].todo), thread[t].strategy>> IN
     latest' = IF latest[key] # NoSnapshot THEN latest ELSE [latest EXCEPT ![key] = thread[t].found]
  /\ IF Len(thread[t].todo) = 1 THEN Leave(t)
     ELSE Goto(t, [thread[t] EXCEPT !.at = "next", !.todo = Tail(@), !.found = NoFinding])
  /\ UNCHANGED <<rules, clock>>

\* save_assessment. The snapshot made last is the one that is read.
SaveSnapshot(t) ==
  /\ At(t, "snapshot")
  /\ LET key == <<thread[t].user, Head(thread[t].todo), thread[t].strategy>> IN
     latest' = IF latest[key] # NoSnapshot /\ latest[key].stamp > thread[t].found.stamp
               THEN latest ELSE [latest EXCEPT ![key] = thread[t].found]
  /\ IF Len(thread[t].todo) = 1 THEN Leave(t)
     ELSE Goto(t, [thread[t] EXCEPT !.at = "next", !.todo = Tail(@), !.found = NoFinding])
  /\ UNCHANGED <<rules, clock>>

Crash ==
  /\ thread' = [t \in Threads |-> Idle]
  /\ UNCHANGED <<rules, latest, clock>>

-----------------------------------------------------------------------------
Init ==
  /\ rules = [r \in RuleIds |-> Blank]
  /\ latest = [k \in Subjects |-> NoSnapshot]
  /\ clock = 0
  /\ thread = [t \in Threads |-> Idle]

RuleRoutes(t) ==
  \/ \E u \in Users, r \in RuleIds, x \in Thresholds, s \in Scopes : UpdateRule(t, u, r, x, s)
  \/ \E u \in Users, r \in RuleIds, b \in BOOLEAN : ToggleRuleStatus(t, u, r, b)
  \/ SaveRule(t)

\* Bound: the lists of accounts have one or two.
CheckRoutes(t) ==
  \/ \E u \in Users, a \in Accounts :
       \/ CheckAccount(t, u, a) \/ GenerateAccountSnapshotTask(t, u, a)
       \/ \E s \in Scopes : CheckStrategy(t, u, a, s)
  \/ \E u \in Users, n \in 1..2 : \E todo \in [1..n -> Accounts] :
       \/ BatchCheckTask(t, u, todo) \/ ContinuousMonitorTask(t, u, todo)
       \/ GenerateAllSnapshotsTask(t, u, todo)
  \/ ReadRules(t) \/ MakeSnapshot(t) \/ SaveSnapshot(t)

Next ==
  \/ \E u \in Users, r \in RuleIds, row \in Rule : CreateRule(u, r, row)
  \/ \E u \in Users, r \in RuleIds : DeleteRule(u, r)
  \/ \E t \in Threads : RuleRoutes(t) \/ CheckRoutes(t)
  \/ Crash

Spec == Init /\ [][Next]_vars

-----------------------------------------------------------------------------
(* Properties                                                              *)

TypeOK ==
  /\ rules \in [RuleIds -> Rule]
  /\ latest \in [Subjects -> Snapshot \cup {NoSnapshot}]
  /\ clock \in 0..MaxStamp
  /\ \A t \in Threads : /\ thread[t].at \in {"idle", "rule", "next", "stamp", "snapshot"}
                        /\ thread[t].row \in Rule /\ thread[t].found \in Snapshot

\* A snapshot is made for the owner of its account and lists rules of that
\* account only: not after edits saved from old copies, nor for a batch that
\* was refused halfway (list_applicable_rules, save_rule).
OwnSnapshots ==
  \A k \in Subjects : latest[k] # NoSnapshot =>
    /\ Owner[k[2]] = k[1]
    /\ \A r \in latest[k].triggered : rules[r].account = k[2]

=============================================================================
