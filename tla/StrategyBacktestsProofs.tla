---------------------- MODULE StrategyBacktestsProofs ----------------------
(***************************************************************************)
(* Theorems about StrategyBacktests, Portfolios and StrategyResearch. The  *)
(* invariants of the rows speak of rows only, but a save writes the copy a *)
(* request holds, so the inductive invariant says of every held copy what  *)
(* it says of the rows: a request that overwrites a row, however stale its *)
(* copy, writes a coherent one. While requests share no row the copy is    *)
(* the row it replaces, and the rows move along their state machines.      *)
(* Portfolios are changed where they are: what a request has found out of  *)
(* one holds until another request changes it, and a weight is part of a   *)
(* sum. A search goes through a finite grid in an order that leaves        *)
(* nothing out.                                                            *)
(***************************************************************************)
EXTENDS MCStrategyBacktests, Sequences, FiniteSetTheorems, TLAPS

Fits(r) == r \in Task /\ (r.metrics # "none" <=> r.status = "completed")

\* What a request holds fits the step it is at.
Formed(th) ==
  /\ th \in Request
  /\ th.at \in {"insert", "submit", "execute", "engine", "transition", "save",
                "result", "remove", "forget"} => th.task \in TaskIds
  /\ th.at \in {"insert", "save"} => Fits(th.row)
  /\ th.at \in {"strategy", "count", "drop"} => th.strategy \in StrategyIds
  /\ th.at = "strategy" => th.copy \in Strategy

ThreadInv == \A t \in Threads : Formed(thread[t])

RowsInv ==
  /\ tasks \in [TaskIds -> Task \cup {NoTask}]
  /\ MetricsOfCompleted
  /\ KeysUnique

RestOK ==
  /\ strategies \in [StrategyIds -> Strategy \cup {NoStrategy}]
  /\ results \subseteq TaskIds
  /\ spent \subseteq StrategyIds \cup TaskIds
  /\ crashes \in 0..MaxCrash
  /\ thread \in [Threads -> Request]

IInv == RestOK /\ RowsInv /\ ThreadInv

-----------------------------------------------------------------------------
(* Lemmas about the steps                                                  *)

\* An idle request is well formed.
LEMMA IdleFormed == Formed(Idle)
BY DEF Formed, Idle, Request, Places

\* A request moves to a well-formed state.
LEMMA Moves ==
  ASSUME RestOK, ThreadInv, NEW t \in Threads, NEW r, Formed(r), Goto(t, r)
  PROVE  thread' \in [Threads -> Request] /\ ThreadInv'
BY DEF RestOK, ThreadInv, Goto, Formed

\* A request ends.
LEMMA Ends ==
  ASSUME RestOK, ThreadInv, NEW t \in Threads, Done(t)
  PROVE  thread' \in [Threads -> Request] /\ ThreadInv'
BY IdleFormed, Moves DEF Done

\* Rows that no step touches keep their invariant.
LEMMA RowsKept ==
  ASSUME RowsInv, UNCHANGED tasks
  PROVE  RowsInv'
BY DEF RowsInv, MetricsOfCompleted, KeysUnique, KeyTaken, Kept

\* A coherent row whose key is free may be written over any row, or none.
LEMMA RowSaved ==
  ASSUME RowsInv, NEW i \in TaskIds, NEW r, Fits(r), ~KeyTaken(i, r),
         tasks' = [tasks EXCEPT ![i] = r]
  PROVE  RowsInv'
<1>1. tasks' \in [TaskIds -> Task \cup {NoTask}]
  BY DEF RowsInv, Fits
<1>2. MetricsOfCompleted'
  BY DEF RowsInv, MetricsOfCompleted, Kept, Fits
<1>3. KeysUnique'
  BY NoTaskAssumption DEF RowsInv, KeysUnique, KeyTaken, Kept, Fits
<1>4. QED BY <1>1, <1>2, <1>3 DEF RowsInv

\* A row may be deleted.
LEMMA RowRemoved ==
  ASSUME RowsInv, NEW i \in TaskIds, tasks' = [tasks EXCEPT ![i] = NoTask]
  PROVE  RowsInv'
BY DEF RowsInv, MetricsOfCompleted, KeysUnique, KeyTaken, Kept

\* A transition of a coherent row gives a coherent row.
LEMMA TransitionFits ==
  ASSUME NEW r, Fits(r), NEW to \in Statuses, CanTransition(r, to),
         NEW m \in {"engine", "client"}
  PROVE  Fits(TransitionTo(r, to, m))
<1>1. r.status \in Statuses /\ r.status # "completed"
  BY DEF Fits, Task, CanTransition, BacktestTransitions, Statuses
<1>2. r.metrics = "none"
  BY <1>1 DEF Fits
<1>3. QED
  BY <1>1, <1>2 DEF Fits, Task, TransitionTo, Statuses

\* A row of the table is coherent.
LEMMA StoredFits ==
  ASSUME RowsInv, NEW i \in TaskIds, tasks[i] # NoTask
  PROVE  Fits(tasks[i])
BY DEF RowsInv, MetricsOfCompleted, Kept, Fits

-----------------------------------------------------------------------------
(* The steps, by group                                                     *)

LEMMA StrategyStep ==
  ASSUME IInv, NEW t \in Threads, StrategyRoutes(t)
  PROVE  IInv'
<1> USE DEF IInv
<1>1. UNCHANGED tasks /\ RowsInv'
  BY RowsKept DEF StrategyRoutes, CreateStrategy, MoveStrategy, UpdateStrategy,
     SaveStrategy, DeleteStrategy, CountActive, DropStrategy
<1>2. ASSUME NEW u \in Users, NEW s \in StrategyIds, CreateStrategy(t, u, s)
      PROVE  IInv'
  <2>1. [user |-> u, status |-> "draft"] \in Strategy
    BY DEF Strategy, StrategyStatuses
  <2>2. RestOK'
    BY <1>2, <2>1 DEF CreateStrategy, RestOK
  <2>3. ThreadInv'
    BY <1>2 DEF CreateStrategy, ThreadInv
  <2>4. QED BY <1>1, <2>2, <2>3
<1>3. ASSUME NEW u \in Users, NEW s \in StrategyIds, NEW to \in {"active", "inactive", "archived"},
             MoveStrategy(t, u, s, to)
      PROVE  IInv'
  <2> DEFINE c == [strategies[s] EXCEPT !.status = to]
             r == [Idle EXCEPT !.at = "strategy", !.strategy = s, !.copy = c]
  <2>1. c \in Strategy
    BY <1>3 DEF MoveStrategy, OwnsStrategy, RestOK, Strategy, StrategyStatuses
  <2>2. Formed(r)
    BY <2>1 DEF Formed, Request, Places, Idle
  <2>3. Goto(t, r) BY <1>3 DEF MoveStrategy
  <2> HIDE DEF r
  <2>4. QED BY <1>1, <1>3, <2>2, <2>3, Moves DEF MoveStrategy, RestOK
<1>4. ASSUME NEW u \in Users, NEW s \in StrategyIds, UpdateStrategy(t, u, s)
      PROVE  IInv'
  <2> DEFINE r == [Idle EXCEPT !.at = "strategy", !.strategy = s, !.copy = strategies[s]]
  <2>1. strategies[s] \in Strategy
    BY <1>4 DEF UpdateStrategy, OwnsStrategy, RestOK
  <2>2. Formed(r)
    BY <2>1 DEF Formed, Request, Places, Idle
  <2>3. Goto(t, r) BY <1>4 DEF UpdateStrategy
  <2> HIDE DEF r
  <2>4. QED BY <1>1, <1>4, <2>2, <2>3, Moves DEF UpdateStrategy, RestOK
<1>5. CASE SaveStrategy(t)
  <2>1. thread[t].strategy \in StrategyIds /\ thread[t].copy \in Strategy
    BY <1>5 DEF SaveStrategy, At, ThreadInv, Formed
  <2>2. strategies' \in [StrategyIds -> Strategy \cup {NoStrategy}]
    BY <1>5, <2>1 DEF SaveStrategy, RestOK
  <2>3. QED BY <1>1, <1>5, <2>2, Ends DEF SaveStrategy, RestOK
<1>6. ASSUME NEW u \in Users, NEW s \in StrategyIds, DeleteStrategy(t, u, s)
      PROVE  IInv'
  <2> DEFINE r == [Idle EXCEPT !.at = "count", !.strategy = s]
  <2>1. Formed(r)
    BY DEF Formed, Request, Places, Idle
  <2>2. Goto(t, r) BY <1>6 DEF DeleteStrategy
  <2> HIDE DEF r
  <2>3. QED BY <1>1, <1>6, <2>1, <2>2, Moves DEF DeleteStrategy, RestOK
<1>7. CASE CountActive(t)
  <2>1. Formed([thread[t] EXCEPT !.at = "drop"])
    BY <1>7 DEF CountActive, At, ThreadInv, Formed, Request, Places
  <2>2. thread' \in [Threads -> Request] /\ ThreadInv'
    BY <1>7, <2>1, Moves, Ends DEF CountActive
  <2>3. QED BY <1>1, <1>7, <2>2 DEF CountActive, RestOK
<1>8. CASE DropStrategy(t)
  <2>1. thread[t].strategy \in StrategyIds
    BY <1>8 DEF DropStrategy, At, ThreadInv, Formed
  <2>2. strategies' \in [StrategyIds -> Strategy \cup {NoStrategy}]
    BY <1>8, <2>1 DEF DropStrategy, RestOK
  <2>3. QED BY <1>1, <1>8, <2>2, Ends DEF DropStrategy, RestOK
<1>9. QED BY <1>2, <1>3, <1>4, <1>5, <1>6, <1>7, <1>8 DEF StrategyRoutes

LEMMA TaskStep ==
  ASSUME IInv, NEW t \in Threads, TaskRoutes(t)
  PROVE  IInv'
<1> USE DEF IInv
<1>1. ASSUME NEW u \in Users, NEW s \in StrategyIds, NEW k \in Keys \cup {NoKey},
             NEW run \in BOOLEAN, CreateTask(t, u, s, k, run)
      PROVE  IInv'
  <2> DEFINE c == [user |-> u, strategy |-> s, key |-> k, status |-> "pending",
                   metrics |-> "none"]
  <2>1. Fits(c)
    BY DEF Fits, Task, Statuses
  <2>2. PICK i \in TaskIds :
          /\ spent' = spent \cup {i}
          /\ Goto(t, [Idle EXCEPT !.at = "insert", !.task = i, !.row = c, !.run = run])
    BY <1>1 DEF CreateTask
  <2> DEFINE r == [Idle EXCEPT !.at = "insert", !.task = i, !.row = c, !.run = run]
  <2>3. Formed(r)
    BY <2>1 DEF Formed, Request, Places, Idle, Fits
  <2>4. Goto(t, r) BY <2>2
  <2> HIDE DEF r
  <2>5. RowsInv' BY <1>1, RowsKept DEF CreateTask
  <2>6. QED BY <1>1, <2>2, <2>3, <2>4, <2>5, Moves DEF CreateTask, RestOK
<1>2. ASSUME NEW u \in Users, NEW i \in TaskIds, RenameTask(t, u, i)
      PROVE  IInv'
  <2> DEFINE r == [Idle EXCEPT !.at = "save", !.task = i, !.row = tasks[i]]
  <2>1. Fits(tasks[i])
    BY <1>2, StoredFits DEF RenameTask, OwnsTask, Kept
  <2>2. Formed(r)
    BY <2>1 DEF Formed, Request, Places, Idle, Fits
  <2>3. Goto(t, r) BY <1>2 DEF RenameTask
  <2> HIDE DEF r
  <2>4. RowsInv' BY <1>2, RowsKept DEF RenameTask
  <2>5. QED BY <1>2, <2>2, <2>3, <2>4, Moves DEF RenameTask, RestOK
<1>3. ASSUME NEW u \in Users, NEW i \in TaskIds, DeleteTask(t, u, i)
      PROVE  IInv'
  <2> DEFINE r == [Idle EXCEPT !.at = "remove", !.task = i]
  <2>1. Formed(r)
    BY DEF Formed, Request, Places, Idle
  <2>2. Goto(t, r) BY <1>3 DEF DeleteTask
  <2> HIDE DEF r
  <2>3. RowsInv' BY <1>3, RowsKept DEF DeleteTask
  <2>4. QED BY <1>3, <2>1, <2>2, <2>3, Moves DEF DeleteTask, RestOK
<1>4. ASSUME NEW u \in Users, NEW i \in TaskIds, NEW to \in Statuses, ChangeTask(t, u, i, to)
      PROVE  IInv'
  <2> DEFINE c == TransitionTo(tasks[i], to, "client")
             r == [Idle EXCEPT !.at = "save", !.task = i, !.row = c]
  <2>1. Fits(c)
    BY <1>4, StoredFits, TransitionFits DEF ChangeTask, OwnsTask, Kept
  <2>2. Goto(t, r) BY <1>4 DEF ChangeTask
  <2> HIDE DEF c
  <2>3. Formed(r)
    BY <2>1 DEF Formed, Request, Places, Idle, Fits
  <2> HIDE DEF r
  <2>4. RowsInv' BY <1>4, RowsKept DEF ChangeTask
  <2>5. QED BY <1>4, <2>2, <2>3, <2>4, Moves DEF ChangeTask, RestOK
<1>5. CASE InsertTask(t)
  <2>1. thread[t].task \in TaskIds /\ Fits(thread[t].row)
    BY <1>5 DEF InsertTask, At, ThreadInv, Formed
  <2>2. RowsInv'
    BY <1>5, <2>1, RowSaved, RowsKept DEF InsertTask
  <2>3. Formed([thread[t] EXCEPT !.at = "submit"])
    BY <1>5 DEF InsertTask, At, ThreadInv, Formed, Request, Places
  <2>4. thread' \in [Threads -> Request] /\ ThreadInv'
    BY <1>5, <2>3, Moves, Ends DEF InsertTask
  <2>5. QED BY <1>5, <2>2, <2>4 DEF InsertTask, RestOK
<1>6. CASE RemoveTask(t)
  <2>1. thread[t].task \in TaskIds
    BY <1>6 DEF RemoveTask, At, ThreadInv, Formed
  <2>2. RowsInv'
    BY <1>6, <2>1, RowRemoved DEF RemoveTask
  <2>3. Formed([thread[t] EXCEPT !.at = "forget"])
    BY <1>6 DEF RemoveTask, At, ThreadInv, Formed, Request, Places
  <2>4. thread' \in [Threads -> Request] /\ ThreadInv'
    BY <1>6, <2>3, Moves, Ends DEF RemoveTask
  <2>5. QED BY <1>6, <2>2, <2>4 DEF RemoveTask, RestOK
<1>7. CASE ForgetResult(t)
  <2>1. RowsInv' BY <1>7, RowsKept DEF ForgetResult
  <2>2. QED BY <1>7, <2>1, Ends DEF ForgetResult, RestOK
<1>8. QED BY <1>1, <1>2, <1>3, <1>4, <1>5, <1>6, <1>7 DEF TaskRoutes

LEMMA ExecutionStep ==
  ASSUME IInv, NEW t \in Threads, Execution(t)
  PROVE  IInv'
<1> USE DEF IInv
<1>1. thread[t] \in Request BY DEF RestOK
<1>2. ASSUME thread[t].task \in TaskIds,
             NEW p \in {"execute", "engine", "result", "transition"}
      PROVE  /\ Formed([thread[t] EXCEPT !.at = p])
             /\ \A w \in {"start", "complete", "fail"} :
                  Formed([thread[t] EXCEPT !.at = p, !.why = w])
  BY <1>1, <1>2 DEF Formed, Request, Places
<1>3. ASSUME thread[t].task \in TaskIds, Raised(t)
      PROVE  thread' \in [Threads -> Request] /\ ThreadInv'
  BY <1>2, <1>3, Moves, Ends DEF Raised
<1>4. CASE SubmitTask(t)
  <2>1. thread[t].task \in TaskIds
    BY <1>4 DEF SubmitTask, At, ThreadInv, Formed
  <2>2. thread' \in [Threads -> Request] /\ ThreadInv'
    BY <1>2, <1>4, <2>1, Moves, Ends DEF SubmitTask
  <2>3. QED BY <1>4, <2>2, RowsKept DEF SubmitTask, RestOK
<1>5. CASE ExecuteTask(t)
  <2>1. thread[t].task \in TaskIds
    BY <1>5 DEF ExecuteTask, At, ThreadInv, Formed
  <2>2. \/ Done(t)
        \/ Goto(t, [thread[t] EXCEPT !.at = "engine"])
        \/ Goto(t, [thread[t] EXCEPT !.at = "transition", !.why = "start"])
    BY <1>5 DEF ExecuteTask
  <2>3. thread' \in [Threads -> Request] /\ ThreadInv'
    BY <1>2, <2>1, <2>2, Moves, Ends
  <2>4. QED BY <1>5, <2>3, RowsKept DEF ExecuteTask, RestOK
<1>6. CASE TransitionTask(t)
  <2> DEFINE old == tasks[thread[t].task]
             to  == Target(thread[t].why)
             c   == TransitionTo(old, to, "engine")
             r   == [thread[t] EXCEPT !.at = "save", !.row = c]
  <2>1. thread[t].task \in TaskIds
    BY <1>6 DEF TransitionTask, At, ThreadInv, Formed
  <2>2. \/ old # NoTask /\ CanTransition(old, to) /\ Goto(t, r)
        \/ Raised(t)
    BY <1>6 DEF TransitionTask
  <2>3. ASSUME old # NoTask, CanTransition(old, to) PROVE Fits(c)
    BY <2>1, <2>3, StoredFits, TransitionFits DEF Target, Statuses
  <2> HIDE DEF c
  <2>4. ASSUME Fits(c) PROVE Formed(r)
    BY <1>1, <2>1, <2>4 DEF Formed, Request, Places, Fits
  <2> HIDE DEF r
  <2>5. thread' \in [Threads -> Request] /\ ThreadInv'
    BY <1>3, <2>1, <2>2, <2>3, <2>4, Moves
  <2>6. QED BY <1>6, <2>5, RowsKept DEF TransitionTask, RestOK
<1>7. CASE SaveTask(t)
  <2>1. thread[t].task \in TaskIds /\ Fits(thread[t].row)
    BY <1>7 DEF SaveTask, At, ThreadInv, Formed
  <2>2. RowsInv'
    BY <1>7, <2>1, RowSaved, RowsKept DEF SaveTask
  <2>3. \/ Done(t) \/ Raised(t)
        \/ Goto(t, [thread[t] EXCEPT !.at = "engine"])
        \/ Goto(t, [thread[t] EXCEPT !.at = "result"])
    BY <1>7 DEF SaveTask
  <2>4. thread' \in [Threads -> Request] /\ ThreadInv'
    BY <1>2, <1>3, <2>1, <2>3, Moves, Ends
  <2>5. QED BY <1>7, <2>2, <2>4 DEF SaveTask, RestOK
<1>8. CASE RunEngine(t)
  <2>1. thread[t].task \in TaskIds
    BY <1>8 DEF RunEngine, At, ThreadInv, Formed
  <2>2. \E w \in {"complete", "fail"} :
          Goto(t, [thread[t] EXCEPT !.at = "transition", !.why = w])
    BY <1>8 DEF RunEngine
  <2>3. thread' \in [Threads -> Request] /\ ThreadInv'
    BY <1>2, <2>1, <2>2, Moves
  <2>4. QED BY <1>8, <2>3, RowsKept DEF RunEngine, RestOK
<1>9. CASE SaveResult(t)
  <2>1. thread[t].task \in TaskIds
    BY <1>9 DEF SaveResult, At, ThreadInv, Formed
  <2>2. QED BY <1>9, <2>1, RowsKept, Ends DEF SaveResult, RestOK
<1>10. QED BY <1>4, <1>5, <1>6, <1>7, <1>8, <1>9 DEF Execution

\* A crash ends every request.
LEMMA CrashStep == IInv /\ Crash => IInv'
<1> SUFFICES ASSUME IInv, Crash PROVE IInv'
  OBVIOUS
<1>1. RowsInv' BY RowsKept DEF Crash, IInv
<1>2. ThreadInv' BY IdleFormed DEF Crash, ThreadInv
<1>3. RestOK'
  BY IdleFormed, CrashAssumption DEF Crash, IInv, RestOK, Formed
<1>4. QED BY <1>1, <1>2, <1>3 DEF IInv

-----------------------------------------------------------------------------
(* Theorems                                                                *)

\* The first requests hold nothing.
LEMMA RowsInit == Init => IInv
BY IdleFormed, NoTaskAssumption, CrashAssumption
   DEF Init, IInv, RestOK, RowsInv, ThreadInv, MetricsOfCompleted, KeysUnique, Kept, Formed

LEMMA RowsStep == IInv /\ [Next]_vars => IInv'
<1> SUFFICES ASSUME IInv, [Next]_vars PROVE IInv'
  OBVIOUS
<1>1. CASE UNCHANGED vars
  BY <1>1 DEF vars, IInv, RestOK, RowsInv, ThreadInv, MetricsOfCompleted,
             KeysUnique, KeyTaken, Kept
<1>2. QED BY <1>1, StrategyStep, TaskStep, ExecutionStep, CrashStep DEF Next

\* Rows and held copies stay coherent: the invariant the others rest on.
THEOREM InductiveInvariant == Spec => []IInv
BY RowsInit, RowsStep, PTL DEF Spec

\* Every reachable state of strategies, tasks and requests is well formed.
THEOREM TypeCorrect == Spec => []TypeOK
<1>1. IInv => TypeOK
  BY DEF IInv, RestOK, RowsInv, TypeOK
<1>2. QED BY <1>1, InductiveInvariant, PTL

\* A task has metrics exactly while it is completed (transition_to, save).
THEOREM MetricsCorrect == Spec => []MetricsOfCompleted
<1>1. IInv => MetricsOfCompleted
  BY DEF IInv, RowsInv
<1>2. QED BY <1>1, InductiveInvariant, PTL

\* One idempotency key of a user names one task (save_if_absent, save).
THEOREM KeysCorrect == Spec => []KeysUnique
<1>1. IInv => KeysUnique
  BY DEF IInv, RowsInv
<1>2. QED BY <1>1, InductiveInvariant, PTL

-----------------------------------------------------------------------------
(* Requests that share no row                                              *)

TaskPlaces == {"insert", "submit", "execute", "engine", "transition", "save",
               "result", "remove", "forget"}

StrategyPlaces == {"strategy", "count", "drop"}

\* Ids are handed out once: whatever has one, or is about to save under it,
\* took it from those not yet spent.
SpentIds ==
  /\ \A i \in TaskIds : tasks[i] # NoTask => i \in spent
  /\ results \subseteq spent
  /\ \A s \in StrategyIds : strategies[s] # NoStrategy => s \in spent
  /\ \A t \in Threads : thread[t].at \in TaskPlaces => thread[t].task \in spent
  /\ \A t \in Threads : thread[t].at \in StrategyPlaces => thread[t].strategy \in spent

\* A task about to be inserted is pending and nobody else's.
Fresh(t) ==
  /\ tasks[thread[t].task] = NoTask /\ thread[t].task \notin results
  /\ thread[t].row.status = "pending"
  /\ \A u \in Threads \ {t} : thread[u].at \in TaskPlaces => thread[u].task # thread[t].task

\* The copy of a request is its row moved at most one step along the state
\* machine, and what it found out about the rows still holds.
HeldFits(t) ==
  LET th == thread[t] IN
  /\ th.at = "save" =>
       /\ tasks[th.task] # NoTask
       /\ th.row = tasks[th.task] \/ th.row.status \in BacktestTransitions[tasks[th.task].status]
  /\ th.at = "remove" => tasks[th.task] # NoTask /\ tasks[th.task].status \in Terminal
  /\ th.at = "result" => tasks[th.task] = NoTask \/ tasks[th.task].metrics = "engine"
  /\ th.at = "strategy" =>
       /\ strategies[th.strategy] # NoStrategy
       /\ \/ th.copy = strategies[th.strategy]
          \/ th.copy.status \in StrategyTransitions[strategies[th.strategy].status]
  /\ th.at = "drop" => ActiveBacktests(th.strategy) = {}

\* No two requests contend for a row.
Apart(t, u) ==
  /\ ~(/\ thread[t].at \in {"save", "remove"} /\ thread[u].at \in {"save", "remove"}
       /\ thread[t].task = thread[u].task)
  /\ ~(/\ thread[t].at \in {"strategy", "count", "drop"}
       /\ thread[u].at \in {"strategy", "count", "drop"}
       /\ thread[t].strategy = thread[u].strategy)
  /\ ~(/\ thread[t].at \in {"count", "drop"} /\ thread[u].at \in {"insert", "save"}
       /\ thread[u].row.strategy = thread[t].strategy)

AllApart == \A t \in Threads : \A u \in Threads \ {t} : Apart(t, u)

\* What holds of the requests whatever they share, and what does while they
\* share nothing.
AlwaysInv ==
  /\ overlap \in BOOLEAN
  /\ SpentIds
  /\ \A t \in Threads : thread[t].at = "insert" => Fresh(t)
  /\ \A t \in Threads : thread[t].at = "save" /\ thread[t].why = "complete" =>
       thread[t].row.metrics = "engine"

SerialInv == ~overlap => AllApart /\ (\A t \in Threads : HeldFits(t)) /\ SerialResults

MCInv == IInv /\ AlwaysInv /\ SerialInv

-----------------------------------------------------------------------------
(* How the others fare when one request moves                              *)

LEMMA GotoMoves ==
  ASSUME NEW t \in Threads, IInv, NEW r, Goto(t, r)
  PROVE  thread'[t] = r /\ \A u \in Threads \ {t} : thread'[u] = thread[u]
BY DEF IInv, RestOK, Goto

\* The flag tells whether two requests contend.
LEMMA OverlapTells ==
  ASSUME overlap \in BOOLEAN,
         overlap' = (overlap \/ \E t \in Threads : \E u \in Threads \ {t} : Contend(t, u))
  PROVE  overlap' \in BOOLEAN /\ (~overlap' => ~overlap /\ AllApart')
<1>1. (\E t \in Threads : \E u \in Threads \ {t} : Contend(t, u)) \in BOOLEAN
  OBVIOUS
<1>2. overlap' \in BOOLEAN
  BY <1>1
<1>3. ASSUME ~overlap' PROVE ~overlap /\ AllApart'
  <2>1. ~overlap /\ \A t \in Threads : \A u \in Threads \ {t} : ~Contend(t, u)
    BY <1>3
  <2>2. ASSUME NEW t \in Threads, NEW u \in Threads \ {t} PROVE Apart(t, u)'
    BY <2>1 DEF Contend, Apart, HoldsTask, HoldsStrategy
  <2>3. QED BY <2>1, <2>2 DEF AllApart
<1>4. QED BY <1>2, <1>3

\* A request that holds still fits while its rows stay what they are.
LEMMA HeldKept ==
  ASSUME NEW u \in Threads, HeldFits(u), thread'[u] = thread[u], UNCHANGED <<tasks, strategies>>
  PROVE  HeldFits(u)'
BY DEF HeldFits, ActiveBacktests, Kept

\* What a step may do to the rows while no two requests contend for one.
RowStep ==
  /\ \A i \in TaskIds : ~overlap' /\ tasks'[i] # tasks[i] =>
       \/ tasks[i] = NoTask /\ tasks'[i].status = "pending"
       \/ tasks'[i] = NoTask /\ tasks[i].status \in Terminal
       \/ /\ tasks[i] # NoTask /\ tasks'[i] # NoTask
          /\ tasks'[i].status \in BacktestTransitions[tasks[i].status]
  /\ \A s \in StrategyIds :
       ~overlap' /\ strategies[s] # NoStrategy /\ strategies'[s] \notin {strategies[s], NoStrategy} =>
         strategies'[s].status \in StrategyTransitions[strategies[s].status]
  /\ \A s \in StrategyIds : ~overlap' /\ strategies[s] # NoStrategy /\ strategies'[s] = NoStrategy =>
       \A i \in Kept : tasks[i].strategy = s => tasks[i].status \notin {"pending", "running"}

Good == AlwaysInv' /\ SerialInv' /\ RowStep

\* One request moves, and writes nothing but the row whose id it has.
Moved(t) ==
  /\ overlap' \in BOOLEAN /\ (~overlap' => ~overlap /\ AllApart')
  /\ \A u \in Threads \ {t} : thread'[u] = thread[u]
  /\ spent \subseteq spent'
  /\ \A i \in TaskIds : tasks'[i] # tasks[i] \/ i \in results' \ results =>
       thread[t].at \in TaskPlaces /\ thread[t].task = i
  /\ \A s \in StrategyIds : strategies'[s] # strategies[s] =>
       strategies'[s] = NoStrategy \/ s \in spent'

\* Where it stands then, and with which id.
Arrived(t) ==
  /\ thread'[t].at \in TaskPlaces => thread'[t].task \in spent' /\
       (\/ thread[t].at \in TaskPlaces /\ thread'[t].task = thread[t].task
        \/ thread'[t].task \notin spent
        \/ tasks[thread'[t].task] # NoTask)
  /\ thread'[t].at \in StrategyPlaces => thread'[t].strategy \in spent'
  /\ thread'[t].at = "insert" => Fresh(t)'
  /\ thread'[t].at = "save" /\ thread'[t].why = "complete" => thread'[t].row.metrics = "engine"

LEMMA AlwaysKept ==
  ASSUME MCInv, IInv', NEW t \in Threads, Moved(t), Arrived(t)
  PROVE  AlwaysInv'
<1> USE DEF MCInv, AlwaysInv
<1>1. /\ tasks \in [TaskIds -> Task \cup {NoTask}] /\ tasks' \in [TaskIds -> Task \cup {NoTask}]
      /\ results \subseteq TaskIds /\ results' \subseteq TaskIds
      /\ \A u \in Threads : thread[u].at \in TaskPlaces => thread[u].task \in TaskIds
      /\ \A u \in Threads : thread'[u].at \in TaskPlaces => thread'[u].task \in TaskIds
  BY DEF IInv, RowsInv, RestOK, ThreadInv, Formed, TaskPlaces
<1>2. SpentIds'
  BY <1>1 DEF SpentIds, Moved, Arrived
<1>3. ASSUME NEW u \in Threads \ {t}, thread'[u].at = "insert" PROVE Fresh(u)'
  <2>1. thread'[u] = thread[u] /\ thread[u].at \in TaskPlaces /\ Fresh(u)
    BY <1>3 DEF Moved, TaskPlaces
  <2>2. thread[u].task \in TaskIds /\ thread[u].task \in spent
    BY <1>1, <2>1 DEF SpentIds
  <2>3. ~(thread[t].at \in TaskPlaces /\ thread[t].task = thread[u].task)
    BY <2>1 DEF Fresh
  <2>4. tasks'[thread[u].task] = NoTask /\ thread[u].task \notin results'
    BY <2>1, <2>2, <2>3 DEF Fresh, Moved
  <2>5. thread'[t].at \in TaskPlaces => thread'[t].task # thread[u].task
    BY <2>1, <2>2, <2>3 DEF Fresh, Arrived
  <2>6. QED BY <2>1, <2>4, <2>5 DEF Fresh, Moved
<1>4. \A u \in Threads : thread'[u].at = "insert" => Fresh(u)'
  BY <1>3 DEF Arrived
<1>5. \A u \in Threads : thread'[u].at = "save" /\ thread'[u].why = "complete" =>
        thread'[u].row.metrics = "engine"
  BY DEF Moved, Arrived
<1>6. overlap' \in BOOLEAN BY DEF Moved
<1>7. QED BY <1>2, <1>4, <1>5, <1>6

\* A request that only moves on.
LEMMA MovesAlone ==
  ASSUME MCInv, IInv', NEW t \in Threads, Moved(t), Arrived(t),
         UNCHANGED <<tasks, strategies>>, results' \subseteq results, ~overlap => HeldFits(t)'
  PROVE  Good
<1>1. AlwaysInv' BY AlwaysKept
<1>2. ASSUME ~overlap' PROVE AllApart' /\ (\A u \in Threads : HeldFits(u)') /\ SerialResults'
  <2>1. ~overlap /\ AllApart' /\ (\A u \in Threads : HeldFits(u)) /\ SerialResults
    BY <1>2 DEF Moved, MCInv, SerialInv
  <2>2. \A u \in Threads \ {t} : HeldFits(u)'
    BY <2>1, HeldKept DEF Moved
  <2>3. SerialResults'
    BY <2>1 DEF SerialResults
  <2>4. QED BY <2>1, <2>2, <2>3
<1>3. RowStep BY DEF RowStep
<1>4. QED BY <1>1, <1>2, <1>3 DEF Good, SerialInv

\* The flag is kept up to date.
Watched == overlap' = (overlap \/ \E t \in Threads : \E u \in Threads \ {t} : Contend(t, u))

\* Places at which a request relies on no row.
Loose == {"idle", "submit", "execute", "engine", "transition", "forget"}

\* A request that goes where it relies on no row, with the id it had or none.
LEMMA GoesOn ==
  ASSUME MCInv, IInv', Watched, NEW t \in Threads, NEW r, Goto(t, r),
         UNCHANGED <<tasks, strategies, spent>>, results' \subseteq results, r.at \in Loose,
         r.at \in TaskPlaces => thread[t].at \in TaskPlaces /\ r.task = thread[t].task
  PROVE  Good
<1>1. overlap' \in BOOLEAN /\ (~overlap' => ~overlap /\ AllApart')
  BY OverlapTells DEF Watched, MCInv, AlwaysInv
<1>2. thread'[t] = r /\ \A u \in Threads \ {t} : thread'[u] = thread[u]
  BY GotoMoves DEF MCInv
<1>3. Moved(t)
  BY <1>1, <1>2 DEF Moved
<1>4. Arrived(t)
  <2>1. r.at \in TaskPlaces => r.task \in spent
    BY DEF MCInv, AlwaysInv, SpentIds
  <2>2. r.at # "insert" /\ r.at # "save" /\ r.at \notin StrategyPlaces
    BY DEF Loose, StrategyPlaces
  <2>3. QED BY <1>2, <2>1, <2>2 DEF Arrived
<1>5. HeldFits(t)'
  BY <1>2 DEF HeldFits, Loose
<1>6. QED BY <1>3, <1>4, <1>5, MovesAlone

\* A request that changes no row and ends.
LEMMA EndsWell ==
  ASSUME MCInv, IInv', Watched, NEW t \in Threads, Done(t),
         UNCHANGED <<tasks, strategies, spent>>, results' \subseteq results
  PROVE  Good
BY GoesOn DEF Done, Idle, Loose, TaskPlaces

\* A request that loads a row and goes on to change it.
LEMMA Loads ==
  ASSUME MCInv, IInv', Watched, NEW t \in Threads, NEW r, Goto(t, r),
         UNCHANGED <<tasks, strategies, spent, results>>,
         r.at # "insert",
         r.at \in TaskPlaces => r.task \in TaskIds /\ tasks[r.task] # NoTask,
         r.at \in StrategyPlaces => r.strategy \in spent,
         r.at = "save" /\ r.why = "complete" => r.row.metrics = "engine",
         r.at = "save" => r.row = tasks[r.task] \/ r.row.status \in BacktestTransitions[tasks[r.task].status],
         r.at = "remove" => tasks[r.task].status \in Terminal,
         r.at # "result",
         r.at = "strategy" => /\ strategies[r.strategy] # NoStrategy
                              /\ \/ r.copy = strategies[r.strategy]
                                 \/ r.copy.status \in StrategyTransitions[strategies[r.strategy].status],
         r.at = "drop" => ActiveBacktests(r.strategy) = {}
  PROVE  Good
<1>1. overlap' \in BOOLEAN /\ (~overlap' => ~overlap /\ AllApart')
  BY OverlapTells DEF Watched, MCInv, AlwaysInv
<1>2. thread'[t] = r /\ \A u \in Threads \ {t} : thread'[u] = thread[u]
  BY GotoMoves DEF MCInv
<1>3. Moved(t)
  BY <1>1, <1>2 DEF Moved
<1>4. Arrived(t)
  BY <1>2 DEF Arrived, MCInv, AlwaysInv, SpentIds
<1>5. HeldFits(t)'
  <2>1. r.at \in {"save", "remove"} => tasks[r.task] # NoTask
    BY DEF TaskPlaces
  <2>2. ActiveBacktests(r.strategy)' = ActiveBacktests(r.strategy)
    BY DEF ActiveBacktests, Kept
  <2>3. r.at = "drop" => ActiveBacktests(thread[t].strategy)' = {}
    BY <1>2, <2>2 DEF ActiveBacktests, Kept
  <2>4. QED BY <1>2, <2>1, <2>3 DEF HeldFits
<1>6. QED BY <1>3, <1>4, <1>5, MovesAlone

-----------------------------------------------------------------------------
(* Steps that write a row                                                  *)

\* A row is written and the request of another one does not notice.
LEMMA TaskWritten ==
  ASSUME IInv, NEW u \in Threads, HeldFits(u), thread'[u] = thread[u], UNCHANGED strategies,
         NEW i \in TaskIds, NEW v, tasks' = [tasks EXCEPT ![i] = v],
         thread[u].at \in {"save", "remove"} => thread[u].task # i,
         thread[u].at = "result" /\ thread[u].task = i => v = NoTask \/ v.metrics = "engine",
         thread[u].at \in {"count", "drop"} => v = NoTask \/ v.strategy # thread[u].strategy
  PROVE  HeldFits(u)'
<1>1. tasks \in [TaskIds -> Task \cup {NoTask}]
  BY DEF IInv, RowsInv
<1>2. tasks'[i] = v /\ \A j \in TaskIds \ {i} : tasks'[j] = tasks[j]
  BY <1>1
<1>3. thread[u].at \in {"save", "remove", "result"} => thread[u].task \in TaskIds
  BY DEF IInv, ThreadInv, Formed
<1>4. thread[u].at = "save" => tasks'[thread[u].task] = tasks[thread[u].task]
  BY <1>2, <1>3
<1>5. thread[u].at = "remove" => tasks'[thread[u].task] = tasks[thread[u].task]
  BY <1>2, <1>3
<1>6. thread[u].at = "result" =>
        tasks'[thread[u].task] = NoTask \/ tasks'[thread[u].task].metrics = "engine"
  BY <1>2, <1>3 DEF HeldFits
<1>7. thread[u].at = "drop" =>
        \A j \in TaskIds : tasks'[j] # NoTask /\ tasks'[j].strategy = thread[u].strategy =>
          tasks'[j].status \notin Active
  <2> SUFFICES ASSUME thread[u].at = "drop", NEW j \in TaskIds, tasks'[j] # NoTask,
                      tasks'[j].strategy = thread[u].strategy
               PROVE  tasks'[j].status \notin Active
    OBVIOUS
  <2>1. j # i /\ tasks'[j] = tasks[j] BY <1>2
  <2>2. QED BY <2>1 DEF HeldFits, ActiveBacktests, Kept
<1>8. thread[u].at = "drop" => ActiveBacktests(thread[u].strategy)' = {}
  BY <1>7 DEF ActiveBacktests, Kept
<1>9. QED BY <1>4, <1>5, <1>6, <1>8 DEF HeldFits

\* A save over a completed task saves its metrics.
LEMMA SaveKeepsEngine ==
  ASSUME IInv, NEW t \in Threads, HeldFits(t), thread[t].at = "save",
         tasks[thread[t].task] = NoTask \/ tasks[thread[t].task].metrics = "engine"
  PROVE  thread[t].row.metrics = "engine"
<1>1. thread[t].task \in TaskIds
  BY DEF IInv, ThreadInv, Formed
<1>2. tasks[thread[t].task] # NoTask /\ tasks[thread[t].task].metrics = "engine"
  BY DEF HeldFits
<1>3. tasks[thread[t].task].status = "completed"
  BY <1>1, <1>2 DEF IInv, RowsInv, MetricsOfCompleted, Kept
<1>4. BacktestTransitions[tasks[thread[t].task].status] = {}
  BY <1>3 DEF BacktestTransitions, Statuses
<1>5. thread[t].row = tasks[thread[t].task]
  BY <1>4 DEF HeldFits
<1>6. QED BY <1>2, <1>5

\* A request that is about to save or remove a row is the only one, and one
\* that inserts or saves does so for no strategy about to be deleted.
LEMMA WritesAlone ==
  ASSUME AllApart, NEW t \in Threads, NEW u \in Threads \ {t}
  PROVE  /\ thread[t].at \in {"save", "remove"} /\ thread[u].at \in {"save", "remove"} =>
              thread[u].task # thread[t].task
         /\ thread[t].at \in {"insert", "save"} /\ thread[u].at \in {"count", "drop"} =>
              thread[t].row.strategy # thread[u].strategy
         /\ thread[t].at \in {"strategy", "drop"} /\ thread[u].at \in {"strategy", "count", "drop"} =>
              thread[u].strategy # thread[t].strategy
<1>1. Apart(t, u) /\ Apart(u, t)
  BY DEF AllApart
<1>2. QED BY <1>1 DEF Apart

\* What a request does with the row it inserts, saves or removes.
LEMMA WritesTask ==
  ASSUME MCInv, IInv', Watched, NEW t \in Threads, NEW r, Goto(t, r),
         UNCHANGED <<strategies, spent, results>>,
         thread[t].at \in {"insert", "save", "remove"},
         NEW v, tasks' = [tasks EXCEPT ![thread[t].task] = v],
         thread[t].at \in {"insert", "save"} => v = thread[t].row,
         thread[t].at = "remove" => v = NoTask,
         r.at \in Loose \cup {"result"},
         r.at \in TaskPlaces => r.task = thread[t].task,
         r.at = "result" => thread[t].at = "save" /\ thread[t].why = "complete"
  PROVE  Good
<1>1. overlap' \in BOOLEAN /\ (~overlap' => ~overlap /\ AllApart')
  BY OverlapTells DEF Watched, MCInv, AlwaysInv
<1>2. thread'[t] = r /\ \A u \in Threads \ {t} : thread'[u] = thread[u]
  BY GotoMoves DEF MCInv
<1>i. thread[t].task \in TaskIds /\ thread[t].at \in TaskPlaces
  BY DEF MCInv, IInv, ThreadInv, Formed, TaskPlaces
<1>3. PICK i \in TaskIds : i = thread[t].task
  BY <1>i
<1>4. tasks \in [TaskIds -> Task \cup {NoTask}] /\ tasks' = [tasks EXCEPT ![i] = v]
  BY <1>3 DEF MCInv, IInv, RowsInv
<1>5. tasks'[i] = v /\ \A j \in TaskIds \ {i} : tasks'[j] = tasks[j]
  BY <1>4
<1>6. Moved(t)
  BY <1>1, <1>2, <1>i, <1>3, <1>5 DEF Moved
<1>7. Arrived(t)
  <2>1. r.at # "insert" /\ r.at # "save" /\ r.at \notin StrategyPlaces
    BY DEF Loose, StrategyPlaces
  <2>2. thread[t].task \in spent BY <1>i DEF MCInv, AlwaysInv, SpentIds
  <2>3. QED BY <1>2, <1>i, <2>1, <2>2 DEF Arrived
<1>8. AlwaysInv' BY <1>6, <1>7, AlwaysKept
<1>s. (strategies' = strategies) /\ results' = results OBVIOUS
<1>9. ASSUME ~overlap'
      PROVE  AllApart' /\ (\A u \in Threads : HeldFits(u)') /\ SerialResults'
  <2>1. ~overlap /\ AllApart /\ AllApart' /\ (\A u \in Threads : HeldFits(u)) /\ SerialResults
    BY <1>1, <1>9 DEF MCInv, SerialInv
  <2>2. thread[t].at = "save" /\ (tasks[i] = NoTask \/ tasks[i].metrics = "engine") =>
          v.metrics = "engine"
    BY <1>3, <2>1, SaveKeepsEngine DEF MCInv
  <2>3. thread[t].at = "insert" => i \notin results /\ Fresh(t)
    BY <1>3 DEF MCInv, AlwaysInv, Fresh
  <2>4. ASSUME NEW u \in Threads \ {t} PROVE HeldFits(u)'
    <3>1. thread[u].at \in {"save", "remove"} => thread[u].task # i
      BY <1>3, <2>1, <2>3, WritesAlone DEF Fresh, TaskPlaces
    <3>2. thread[u].at = "result" /\ thread[u].task = i => v = NoTask \/ v.metrics = "engine"
      BY <1>3, <2>1, <2>2, <2>3 DEF Fresh, TaskPlaces, HeldFits
    <3>3. thread[u].at \in {"count", "drop"} => v = NoTask \/ v.strategy # thread[u].strategy
      BY <2>1, WritesAlone
    <3>4. QED BY <1>2, <1>4, <1>s, <2>1, <3>1, <3>2, <3>3, TaskWritten DEF MCInv
  <2>5. HeldFits(t)'
    <3>1. r.at = "result" => v.metrics = "engine" /\ tasks'[r.task] = v
      BY <1>3, <1>5 DEF MCInv, AlwaysInv, TaskPlaces
    <3>2. QED BY <1>2, <3>1 DEF HeldFits, Loose
  <2>6. SerialResults'
    <3>1. SUFFICES ASSUME NEW j \in results PROVE tasks'[j] = NoTask \/ tasks'[j].metrics = "engine"
      BY <1>s DEF SerialResults
    <3>2. j \in TaskIds /\ (tasks[j] = NoTask \/ tasks[j].metrics = "engine")
      BY <2>1 DEF SerialResults, MCInv, IInv, RestOK
    <3>3. QED BY <1>5, <2>2, <2>3, <3>2
  <2>7. QED BY <2>1, <2>4, <2>5, <2>6
<1>10. RowStep
  <2>1. ASSUME ~overlap', NEW j \in TaskIds, tasks'[j] # tasks[j]
        PROVE  \/ tasks[j] = NoTask /\ tasks'[j].status = "pending"
               \/ tasks'[j] = NoTask /\ tasks[j].status \in Terminal
               \/ /\ tasks[j] # NoTask /\ tasks'[j] # NoTask
                  /\ tasks'[j].status \in BacktestTransitions[tasks[j].status]
    <3>1. j = thread[t].task /\ tasks'[j] = v BY <1>3, <1>5, <2>1
    <3>2. HeldFits(t) BY <1>1, <2>1 DEF MCInv, SerialInv
    <3>3. CASE thread[t].at = "insert"
      BY <3>1, <3>3 DEF MCInv, AlwaysInv, Fresh
    <3>4. CASE thread[t].at = "remove"
      BY <3>1, <3>2, <3>4 DEF HeldFits
    <3>5. CASE thread[t].at = "save"
      <4>1. v # NoTask
        BY <3>5, NoTaskAssumption DEF MCInv, IInv, ThreadInv, Formed, Fits
      <4>2. QED BY <2>1, <3>1, <3>2, <3>5, <4>1 DEF HeldFits
    <3>6. QED BY <3>3, <3>4, <3>5
  <2>2. QED BY <2>1, <1>s DEF RowStep
<1>11. QED BY <1>8, <1>9, <1>10 DEF Good, SerialInv

\* A strategy is written and the request of another one does not notice.
LEMMA StrategyWritten ==
  ASSUME NEW u \in Threads, HeldFits(u), thread'[u] = thread[u], UNCHANGED tasks,
         thread[u].at = "strategy" => strategies'[thread[u].strategy] = strategies[thread[u].strategy]
  PROVE  HeldFits(u)'
BY DEF HeldFits, ActiveBacktests, Kept

\* What a request does with the strategy it saves or drops.
LEMMA WritesStrategy ==
  ASSUME MCInv, IInv', Watched, NEW t \in Threads, Done(t),
         UNCHANGED <<tasks, spent, results>>, thread[t].at \in {"strategy", "drop"},
         NEW v, strategies' = [strategies EXCEPT ![thread[t].strategy] = v],
         thread[t].at = "strategy" => v = thread[t].copy,
         thread[t].at = "drop" => v = NoStrategy
  PROVE  Good
<1>1. overlap' \in BOOLEAN /\ (~overlap' => ~overlap /\ AllApart')
  BY OverlapTells DEF Watched, MCInv, AlwaysInv
<1>2. thread'[t] = Idle /\ \A u \in Threads \ {t} : thread'[u] = thread[u]
  BY GotoMoves DEF MCInv, Done
<1>3. PICK s \in StrategyIds : s = thread[t].strategy
  BY DEF MCInv, IInv, ThreadInv, Formed
<1>4. strategies \in [StrategyIds -> Strategy \cup {NoStrategy}]
  BY DEF MCInv, IInv, RestOK
<1>5. strategies'[s] = v /\ \A q \in StrategyIds \ {s} : strategies'[q] = strategies[q]
  BY <1>3, <1>4
<1>t. (tasks' = tasks) /\ results' = results /\ spent' = spent OBVIOUS
<1>6. Moved(t)
  <2>1. s \in spent
    BY <1>3 DEF MCInv, AlwaysInv, SpentIds, StrategyPlaces
  <2>2. QED BY <1>1, <1>2, <1>t, <1>5, <2>1 DEF Moved
<1>7. Arrived(t)
  BY <1>2 DEF Arrived, Idle, TaskPlaces, StrategyPlaces
<1>8. AlwaysInv' BY <1>6, <1>7, AlwaysKept
<1>9. ASSUME ~overlap'
      PROVE  AllApart' /\ (\A u \in Threads : HeldFits(u)') /\ SerialResults'
  <2>1. ~overlap /\ AllApart /\ AllApart' /\ (\A u \in Threads : HeldFits(u)) /\ SerialResults
    BY <1>1, <1>9 DEF MCInv, SerialInv
  <2>2. ASSUME NEW u \in Threads \ {t} PROVE HeldFits(u)'
    <3>1. thread[u].at = "strategy" => thread[u].strategy # s
      BY <1>3, <2>1, WritesAlone
    <3>2. thread[u].at = "strategy" => thread[u].strategy \in StrategyIds
      BY DEF MCInv, IInv, ThreadInv, Formed
    <3>3. QED BY <1>2, <1>5, <2>1, <3>1, <3>2, StrategyWritten
  <2>3. HeldFits(t)' BY <1>2 DEF HeldFits, Idle
  <2>4. SerialResults' BY <1>t, <2>1 DEF SerialResults
  <2>5. QED BY <2>1, <2>2, <2>3, <2>4
<1>10. RowStep
  <2>1. ASSUME ~overlap', NEW q \in StrategyIds, strategies[q] # NoStrategy,
               strategies'[q] \notin {strategies[q], NoStrategy}
        PROVE  strategies'[q].status \in StrategyTransitions[strategies[q].status]
    <3>1. q = thread[t].strategy /\ strategies'[q] = v BY <1>3, <1>5, <2>1
    <3>2. HeldFits(t) BY <1>1, <2>1 DEF MCInv, SerialInv
    <3>3. thread[t].at = "strategy" /\ v = thread[t].copy BY <2>1, <3>1
    <3>4. QED BY <2>1, <3>1, <3>2, <3>3 DEF HeldFits
  <2>2. ASSUME ~overlap', NEW q \in StrategyIds, strategies[q] # NoStrategy,
               strategies'[q] = NoStrategy
        PROVE  \A i \in Kept : tasks[i].strategy = q => tasks[i].status \notin {"pending", "running"}
    <3>1. q = thread[t].strategy /\ v = NoStrategy BY <1>3, <1>5, <2>2
    <3>2. HeldFits(t) BY <1>1, <2>2 DEF MCInv, SerialInv
    <3>3. thread[t].at = "strategy" => v \in Strategy
      BY DEF MCInv, IInv, ThreadInv, Formed
    <3>4. thread[t].at = "drop"
      BY <3>1, <3>3, NoStrategyAssumption
    <3>5. ActiveBacktests(q) = {} BY <3>1, <3>2, <3>4 DEF HeldFits
    <3>6. QED BY <3>5 DEF ActiveBacktests, Active, Kept
  <2>3. QED BY <1>t, <2>1, <2>2 DEF RowStep
<1>11. QED BY <1>8, <1>9, <1>10 DEF Good, SerialInv

-----------------------------------------------------------------------------
(* The routes, while the flag is kept up to date                           *)

LEMMA StrategyGood ==
  ASSUME MCInv, IInv', Watched, NEW t \in Threads, StrategyRoutes(t)
  PROVE  Good
<1>1. ASSUME NEW u \in Users, NEW s \in StrategyIds, CreateStrategy(t, u, s)
      PROVE  Good
  <2>1. overlap' \in BOOLEAN /\ (~overlap' => ~overlap /\ AllApart')
    BY OverlapTells DEF Watched, MCInv, AlwaysInv
  <2>2. strategies \in [StrategyIds -> Strategy \cup {NoStrategy}]
    BY DEF MCInv, IInv, RestOK
  <2>3. /\ s \in spent' /\ strategies[s] = NoStrategy /\ s \notin spent
        /\ \A q \in StrategyIds \ {s} : strategies'[q] = strategies[q]
    BY <1>1, <2>2 DEF CreateStrategy, MCInv, AlwaysInv, SpentIds
  <2>4. (tasks' = tasks) /\ results' = results /\ thread' = thread /\ spent \subseteq spent'
    BY <1>1 DEF CreateStrategy
  <2>5. Moved(t)
    BY <2>1, <2>3, <2>4 DEF Moved
  <2>6. Arrived(t)
    BY <1>1, <2>4 DEF Arrived, CreateStrategy, At, TaskPlaces, StrategyPlaces
  <2>7. ASSUME ~overlap'
        PROVE  AllApart' /\ (\A u2 \in Threads : HeldFits(u2)') /\ SerialResults'
    <3>1. ~overlap /\ AllApart' /\ (\A u2 \in Threads : HeldFits(u2)) /\ SerialResults
      BY <2>1, <2>7 DEF MCInv, SerialInv
    <3>2. ASSUME NEW u2 \in Threads PROVE HeldFits(u2)'
      <4>1. thread[u2].at = "strategy" => thread[u2].strategy \in StrategyIds \ {s}
        BY <2>3, <3>1 DEF MCInv, IInv, ThreadInv, Formed, HeldFits
      <4>2. QED BY <2>3, <2>4, <3>1, <4>1, StrategyWritten
    <3>3. SerialResults' BY <2>4, <3>1 DEF SerialResults
    <3>4. QED BY <3>1, <3>2, <3>3
  <2>8. RowStep
    BY <2>3, <2>4 DEF RowStep
  <2>9. AlwaysInv' BY <2>5, <2>6, AlwaysKept
  <2>10. QED BY <2>7, <2>8, <2>9 DEF Good, SerialInv
<1>2. ASSUME NEW u \in Users, NEW s \in StrategyIds, NEW to \in {"active", "inactive", "archived"},
             MoveStrategy(t, u, s, to)
      PROVE  Good
  <2> DEFINE r == [Idle EXCEPT !.at = "strategy", !.strategy = s,
                               !.copy = [strategies[s] EXCEPT !.status = to]]
  <2>1. strategies[s] \in Strategy /\ s \in spent
    BY <1>2 DEF MoveStrategy, OwnsStrategy, MCInv, IInv, RestOK, AlwaysInv, SpentIds
  <2>2. r.copy.status = to BY <2>1 DEF Strategy, Idle
  <2>3. /\ r.at = "strategy" /\ r.strategy = s /\ Goto(t, r)
        /\ to \in StrategyTransitions[strategies[s].status] /\ strategies[s] # NoStrategy
    BY <1>2 DEF Idle, MoveStrategy, OwnsStrategy, CanMove
  <2> HIDE DEF r
  <2>4. QED BY <1>2, <2>1, <2>2, <2>3, Loads DEF MoveStrategy, TaskPlaces
<1>3. ASSUME NEW u \in Users, NEW s \in StrategyIds, UpdateStrategy(t, u, s)
      PROVE  Good
  <2> DEFINE r == [Idle EXCEPT !.at = "strategy", !.strategy = s, !.copy = strategies[s]]
  <2>1. s \in spent
    BY <1>3 DEF UpdateStrategy, OwnsStrategy, MCInv, AlwaysInv, SpentIds
  <2>2. /\ r.at = "strategy" /\ r.strategy = s /\ r.copy = strategies[s] /\ Goto(t, r)
        /\ strategies[s] # NoStrategy
    BY <1>3 DEF Idle, UpdateStrategy, OwnsStrategy
  <2> HIDE DEF r
  <2>3. QED BY <1>3, <2>1, <2>2, Loads DEF UpdateStrategy, TaskPlaces
<1>4. CASE SaveStrategy(t)
  BY <1>4, WritesStrategy DEF SaveStrategy, At
<1>5. ASSUME NEW u \in Users, NEW s \in StrategyIds, DeleteStrategy(t, u, s)
      PROVE  Good
  <2> DEFINE r == [Idle EXCEPT !.at = "count", !.strategy = s]
  <2>1. s \in spent
    BY <1>5 DEF DeleteStrategy, OwnsStrategy, MCInv, AlwaysInv, SpentIds
  <2>2. r.at = "count" /\ r.strategy = s /\ Goto(t, r)
    BY <1>5 DEF Idle, DeleteStrategy
  <2> HIDE DEF r
  <2>3. QED BY <1>5, <2>1, <2>2, Loads DEF DeleteStrategy, TaskPlaces
<1>6. CASE CountActive(t)
  <2> DEFINE r == [thread[t] EXCEPT !.at = "drop"]
  <2>1. CASE ActiveBacktests(thread[t].strategy) = {}
    <3>1. thread[t].strategy \in spent
      BY <1>6 DEF CountActive, At, MCInv, AlwaysInv, SpentIds, StrategyPlaces
    <3>2. r.at = "drop" /\ r.strategy = thread[t].strategy /\ Goto(t, r)
      BY <1>6, <2>1 DEF CountActive, MCInv, IInv, RestOK, Request
    <3> HIDE DEF r
    <3>3. QED BY <1>6, <2>1, <3>1, <3>2, Loads DEF CountActive, TaskPlaces
  <2>2. CASE ActiveBacktests(thread[t].strategy) # {}
    BY <1>6, <2>2, EndsWell DEF CountActive
  <2>3. QED BY <2>1, <2>2
<1>7. CASE DropStrategy(t)
  BY <1>7, WritesStrategy DEF DropStrategy, At
<1>8. QED BY <1>1, <1>2, <1>3, <1>4, <1>5, <1>6, <1>7 DEF StrategyRoutes

LEMMA TaskGood ==
  ASSUME MCInv, IInv', Watched, NEW t \in Threads, TaskRoutes(t)
  PROVE  Good
<1>f. thread[t] \in Request
  BY DEF MCInv, IInv, RestOK
<1>1. ASSUME NEW u \in Users, NEW s \in StrategyIds, NEW k \in Keys \cup {NoKey},
             NEW run \in BOOLEAN, CreateTask(t, u, s, k, run)
      PROVE  Good
  <2> DEFINE c == [user |-> u, strategy |-> s, key |-> k, status |-> "pending",
                   metrics |-> "none"]
  <2>1. PICK i \in TaskIds \ spent :
          /\ spent' = spent \cup {i}
          /\ Goto(t, [Idle EXCEPT !.at = "insert", !.task = i, !.row = c, !.run = run])
    BY <1>1 DEF CreateTask
  <2> DEFINE r == [Idle EXCEPT !.at = "insert", !.task = i, !.row = c, !.run = run]
  <2>2. Goto(t, r) /\ r.at = "insert" /\ r.task = i /\ r.row = c /\ c.status = "pending"
    BY <2>1 DEF Idle
  <2> HIDE DEF r, c
  <2>3. overlap' \in BOOLEAN /\ (~overlap' => ~overlap /\ AllApart')
    BY OverlapTells DEF Watched, MCInv, AlwaysInv
  <2>4. thread'[t] = r /\ \A v \in Threads \ {t} : thread'[v] = thread[v]
    BY <2>2, GotoMoves DEF MCInv
  <2>5. UNCHANGED <<tasks, strategies, results>>
    BY <1>1 DEF CreateTask
  <2>6. Moved(t)
    BY <2>1, <2>3, <2>4, <2>5 DEF Moved
  <2>7. tasks[i] = NoTask /\ i \notin results
    BY <2>1 DEF MCInv, AlwaysInv, SpentIds
  <2>8. ASSUME NEW v \in Threads \ {t}, thread[v].at \in TaskPlaces PROVE thread[v].task # i
    BY <2>1, <2>8 DEF MCInv, AlwaysInv, SpentIds
  <2>9. Fresh(t)'
    BY <2>2, <2>4, <2>5, <2>7, <2>8 DEF Fresh
  <2>10. Arrived(t)
    BY <2>1, <2>2, <2>4, <2>9 DEF Arrived, StrategyPlaces
  <2>11. HeldFits(t)'
    BY <2>2, <2>4 DEF HeldFits
  <2>12. QED BY <2>5, <2>6, <2>10, <2>11, MovesAlone
<1>2. ASSUME NEW u \in Users, NEW i \in TaskIds, RenameTask(t, u, i)
      PROVE  Good
  <2> DEFINE r == [Idle EXCEPT !.at = "save", !.task = i, !.row = tasks[i]]
  <2>1. /\ r.at = "save" /\ r.task = i /\ r.row = tasks[i] /\ r.why = "user"
        /\ Goto(t, r) /\ tasks[i] # NoTask
    BY <1>2 DEF Idle, RenameTask, OwnsTask, Kept
  <2> HIDE DEF r
  <2>2. QED BY <1>2, <2>1, Loads DEF RenameTask, StrategyPlaces
<1>3. ASSUME NEW u \in Users, NEW i \in TaskIds, DeleteTask(t, u, i)
      PROVE  Good
  <2> DEFINE r == [Idle EXCEPT !.at = "remove", !.task = i]
  <2>1. /\ r.at = "remove" /\ r.task = i /\ Goto(t, r)
        /\ tasks[i] # NoTask /\ tasks[i].status \in Terminal
    BY <1>3 DEF Idle, DeleteTask, OwnsTask, Kept
  <2> HIDE DEF r
  <2>2. QED BY <1>3, <2>1, Loads DEF DeleteTask, StrategyPlaces
<1>4. ASSUME NEW u \in Users, NEW i \in TaskIds, NEW to \in Statuses, ChangeTask(t, u, i, to)
      PROVE  Good
  <2> DEFINE c == TransitionTo(tasks[i], to, "client")
             r == [Idle EXCEPT !.at = "save", !.task = i, !.row = c]
  <2>1. tasks[i] # NoTask /\ to \in BacktestTransitions[tasks[i].status] /\ Goto(t, r)
    BY <1>4 DEF ChangeTask, OwnsTask, Kept, CanTransition
  <2>2. tasks[i] \in Task
    BY <2>1 DEF MCInv, IInv, RowsInv
  <2>3. c.status = to
    BY <2>2 DEF TransitionTo, Task
  <2> HIDE DEF c
  <2>4. r.at = "save" /\ r.task = i /\ r.row = c /\ r.why = "user"
    BY DEF Idle
  <2> HIDE DEF r
  <2>5. QED BY <1>4, <2>1, <2>3, <2>4, Loads DEF ChangeTask, StrategyPlaces
<1>5. CASE InsertTask(t)
  <2>1. CASE KeyTaken(thread[t].task, thread[t].row)
    BY <1>5, <2>1, EndsWell DEF InsertTask
  <2>2. CASE ~KeyTaken(thread[t].task, thread[t].row)
    <3> DEFINE r == IF thread[t].run THEN [thread[t] EXCEPT !.at = "submit"] ELSE Idle
    <3>1. /\ Goto(t, r) /\ r.at \in Loose
          /\ r.at \in TaskPlaces => r.task = thread[t].task
      BY <1>5, <1>f, <2>2 DEF InsertTask, Done, Idle, Loose, Request, TaskPlaces
    <3>2. tasks' = [tasks EXCEPT ![thread[t].task] = thread[t].row] /\ thread[t].at = "insert"
      BY <1>5, <2>2 DEF InsertTask, At
    <3>3. UNCHANGED <<strategies, spent, results>>
      BY <1>5 DEF InsertTask
    <3> HIDE DEF r
    <3>4. r.at # "result" BY <3>1 DEF Loose
    <3>5. QED BY <3>1, <3>2, <3>3, <3>4, WritesTask
  <2>3. QED BY <2>1, <2>2
<1>6. CASE RemoveTask(t)
  <2> DEFINE r == IF thread[t].task \in Kept THEN [thread[t] EXCEPT !.at = "forget"] ELSE Idle
  <2>1. /\ Goto(t, r) /\ r.at \in Loose
        /\ r.at \in TaskPlaces => r.task = thread[t].task
    BY <1>6, <1>f DEF RemoveTask, Done, Idle, Loose, Request, TaskPlaces
  <2>2. tasks' = [tasks EXCEPT ![thread[t].task] = NoTask] /\ thread[t].at = "remove"
    BY <1>6 DEF RemoveTask, At
  <2>3. UNCHANGED <<strategies, spent, results>>
    BY <1>6 DEF RemoveTask
  <2> HIDE DEF r
  <2>4. r.at # "result" BY <2>1 DEF Loose
  <2>5. QED BY <2>1, <2>2, <2>3, <2>4, WritesTask
<1>7. CASE ForgetResult(t)
  <2>1. results' \subseteq results BY <1>7 DEF ForgetResult
  <2>2. QED BY <1>7, <2>1, EndsWell DEF ForgetResult
<1>8. QED BY <1>1, <1>2, <1>3, <1>4, <1>5, <1>6, <1>7 DEF TaskRoutes

LEMMA ExecutionGood ==
  ASSUME MCInv, IInv', Watched, NEW t \in Threads, Execution(t)
  PROVE  Good
<1>f. thread[t] \in Request
  BY DEF MCInv, IInv, RestOK
<1>g. ASSUME NEW p \in {"execute", "engine", "transition"}, thread[t].at \in TaskPlaces,
             UNCHANGED <<tasks, strategies, spent, results>>,
             \/ Goto(t, [thread[t] EXCEPT !.at = p])
             \/ \E w \in {"start", "complete", "fail"} : Goto(t, [thread[t] EXCEPT !.at = p, !.why = w])
      PROVE  Good
  <2>1. CASE Goto(t, [thread[t] EXCEPT !.at = p])
    <3> DEFINE r == [thread[t] EXCEPT !.at = p]
    <3>1. r.at = p /\ r.task = thread[t].task /\ Goto(t, r) BY <1>f, <2>1 DEF Request
    <3> HIDE DEF r
    <3>2. QED BY <1>g, <3>1, GoesOn DEF Loose
  <2>2. ASSUME NEW w \in {"start", "complete", "fail"}, Goto(t, [thread[t] EXCEPT !.at = p, !.why = w])
        PROVE  Good
    <3> DEFINE r == [thread[t] EXCEPT !.at = p, !.why = w]
    <3>1. r.at = p /\ r.task = thread[t].task /\ Goto(t, r) BY <1>f, <2>2 DEF Request
    <3> HIDE DEF r
    <3>2. QED BY <1>g, <3>1, GoesOn DEF Loose
  <2>3. QED BY <1>g, <2>1, <2>2
<1>r. ASSUME Raised(t), thread[t].at \in TaskPlaces, UNCHANGED <<tasks, strategies, spent, results>>
      PROVE  Good
  BY <1>r, <1>g, EndsWell DEF Raised
<1>1. CASE SubmitTask(t)
  <2>1. thread[t].at \in TaskPlaces BY <1>1 DEF SubmitTask, At, TaskPlaces
  <2>2. QED BY <1>1, <1>g, <2>1, EndsWell DEF SubmitTask
<1>2. CASE ExecuteTask(t)
  <2>1. thread[t].at \in TaskPlaces BY <1>2 DEF ExecuteTask, At, TaskPlaces
  <2>2. \/ Done(t)
        \/ Goto(t, [thread[t] EXCEPT !.at = "engine"])
        \/ Goto(t, [thread[t] EXCEPT !.at = "transition", !.why = "start"])
    BY <1>2 DEF ExecuteTask
  <2>3. QED BY <1>2, <1>g, <2>1, <2>2, EndsWell DEF ExecuteTask
<1>3. CASE TransitionTask(t)
  <2> DEFINE old == tasks[thread[t].task]
             to  == Target(thread[t].why)
             c   == TransitionTo(old, to, "engine")
             r   == [thread[t] EXCEPT !.at = "save", !.row = c]
  <2>1. thread[t].at \in TaskPlaces /\ thread[t].task \in TaskIds
    BY <1>3 DEF TransitionTask, At, TaskPlaces, MCInv, IInv, ThreadInv, Formed
  <2>2. CASE old # NoTask /\ CanTransition(old, to)
    <3>1. Goto(t, r) BY <1>3, <2>2 DEF TransitionTask
    <3>2. old \in Task BY <2>1, <2>2 DEF MCInv, IInv, RowsInv
    <3>3. c.status = to /\ (thread[t].why = "complete" => c.metrics = "engine")
      BY <3>2 DEF TransitionTo, Task, Target
    <3>4. c.status \in BacktestTransitions[old.status] BY <2>2, <3>3 DEF CanTransition
    <3> HIDE DEF c
    <3>5. r.at = "save" /\ r.task = thread[t].task /\ r.row = c /\ r.why = thread[t].why
      BY <1>f DEF Request
    <3> HIDE DEF r
    <3>6. QED BY <1>3, <2>1, <2>2, <3>1, <3>3, <3>4, <3>5, Loads DEF TransitionTask, StrategyPlaces
  <2>3. CASE ~(old # NoTask /\ CanTransition(old, to))
    BY <1>3, <1>r, <2>1, <2>3 DEF TransitionTask
  <2>4. QED BY <2>2, <2>3
<1>4. CASE SaveTask(t)
  <2>1. thread[t].at = "save" BY <1>4 DEF SaveTask, At
  <2>2. CASE KeyTaken(thread[t].task, thread[t].row)
    BY <1>4, <1>r, <2>1, <2>2 DEF SaveTask, TaskPlaces
  <2>3. CASE ~KeyTaken(thread[t].task, thread[t].row)
    <3> DEFINE r == CASE thread[t].why = "start"    -> [thread[t] EXCEPT !.at = "engine"]
                      [] thread[t].why = "complete" -> [thread[t] EXCEPT !.at = "result"]
                      [] OTHER                      -> Idle
    <3>1. /\ Goto(t, r) /\ r.at \in Loose \cup {"result"}
          /\ r.at \in TaskPlaces => r.task = thread[t].task
          /\ r.at = "result" => thread[t].why = "complete"
      BY <1>4, <1>f, <2>3 DEF SaveTask, Done, Idle, Loose, Request, TaskPlaces
    <3>2. tasks' = [tasks EXCEPT ![thread[t].task] = thread[t].row]
      BY <1>4, <2>3 DEF SaveTask
    <3>3. UNCHANGED <<strategies, spent, results>>
      BY <1>4 DEF SaveTask
    <3> HIDE DEF r
    <3>4. QED BY <2>1, <3>1, <3>2, <3>3, WritesTask
  <2>4. QED BY <2>2, <2>3
<1>5. CASE RunEngine(t)
  <2>1. thread[t].at \in TaskPlaces BY <1>5 DEF RunEngine, At, TaskPlaces
  <2>2. \E w \in {"start", "complete", "fail"} :
          Goto(t, [thread[t] EXCEPT !.at = "transition", !.why = w])
    BY <1>5 DEF RunEngine
  <2>3. QED BY <1>5, <1>g, <2>1, <2>2 DEF RunEngine
<1>6. CASE SaveResult(t)
  <2>1. overlap' \in BOOLEAN /\ (~overlap' => ~overlap /\ AllApart')
    BY OverlapTells DEF Watched, MCInv, AlwaysInv
  <2>2. thread'[t] = Idle /\ \A v \in Threads \ {t} : thread'[v] = thread[v]
    BY <1>6, GotoMoves DEF SaveResult, Done, MCInv
  <2>3. /\ UNCHANGED <<tasks, strategies, spent>> /\ results' = results \cup {thread[t].task}
        /\ thread[t].at = "result"
    BY <1>6 DEF SaveResult, At
  <2>4. Moved(t)
    BY <2>1, <2>2, <2>3 DEF Moved, TaskPlaces
  <2>5. Arrived(t)
    BY <2>2 DEF Arrived, Idle, TaskPlaces, StrategyPlaces
  <2>6. AlwaysInv' BY <2>4, <2>5, AlwaysKept
  <2>7. ASSUME ~overlap'
        PROVE  AllApart' /\ (\A u \in Threads : HeldFits(u)') /\ SerialResults'
    <3>1. ~overlap /\ AllApart' /\ (\A u \in Threads : HeldFits(u)) /\ SerialResults
      BY <2>1, <2>7 DEF MCInv, SerialInv
    <3>2. \A u \in Threads \ {t} : HeldFits(u)' BY <2>2, <2>3, <3>1, HeldKept
    <3>3. HeldFits(t)' BY <2>2 DEF HeldFits, Idle
    <3>4. SerialResults' BY <2>3, <3>1 DEF SerialResults, HeldFits
    <3>5. QED BY <3>1, <3>2, <3>3, <3>4
  <2>8. RowStep BY <2>3 DEF RowStep
  <2>9. QED BY <2>6, <2>7, <2>8 DEF Good, SerialInv
<1>7. QED BY <1>1, <1>2, <1>3, <1>4, <1>5, <1>6 DEF Execution

\* A crash leaves no request that holds anything.
LEMMA CrashGood ==
  ASSUME MCInv, IInv', Watched, Crash
  PROVE  Good
<1>1. overlap' \in BOOLEAN /\ (~overlap' => ~overlap /\ AllApart')
  BY OverlapTells DEF Watched, MCInv, AlwaysInv
<1>2. \A t \in Threads : thread'[t] = Idle
  BY DEF Crash
<1>3. UNCHANGED <<tasks, strategies, results, spent>>
  BY DEF Crash
<1>4. SpentIds'
  BY <1>2, <1>3 DEF SpentIds, MCInv, AlwaysInv, Idle, TaskPlaces, StrategyPlaces
<1>5. AlwaysInv'
  BY <1>1, <1>2, <1>4 DEF AlwaysInv, Idle
<1>6. \A t \in Threads : HeldFits(t)'
  BY <1>2 DEF HeldFits, Idle
<1>7. ~overlap' => SerialResults'
  BY <1>1, <1>3 DEF MCInv, SerialInv, SerialResults
<1>8. RowStep BY <1>3 DEF RowStep
<1>9. QED BY <1>1, <1>5, <1>6, <1>7, <1>8 DEF Good, SerialInv

-----------------------------------------------------------------------------
(* Backtests beside the other parts                                        *)

\* Whatever part a behaviour is about, its rows behave as Spec says.
THEOREM RowsRefine == MCSpec => Spec
<1>1. MCInit => Init
  BY DEF MCInit
<1>2. [MCNext]_mcvars => [Next]_vars
  BY DEF MCNext, BacktestsNext, PortfoliosNext, ResearchNext, mcvars, vars
<1>3. QED BY <1>1, <1>2, PTL DEF MCSpec, Spec

\* A step of the instance keeps the invariant, and is a step the state
\* machines allow while no two requests contend for a row.
LEMMA MCStep == MCInv /\ [MCNext]_mcvars => MCInv' /\ RowStep
<1> SUFFICES ASSUME MCInv, [MCNext]_mcvars PROVE MCInv' /\ RowStep
  OBVIOUS
<1>1. CASE BacktestsNext
  <2>1. Next /\ Watched BY <1>1 DEF BacktestsNext, Watched
  <2>2. IInv' BY <2>1, RowsStep DEF MCInv
  <2>3. Good
    BY <2>1, <2>2, StrategyGood, TaskGood, ExecutionGood, CrashGood DEF Next
  <2>4. QED BY <2>2, <2>3 DEF Good, MCInv
<1>2. CASE ~BacktestsNext
  <2>1. UNCHANGED vars
    BY <1>2 DEF MCNext, PortfoliosNext, ResearchNext, mcvars
  <2>2. overlap' \in BOOLEAN /\ (~overlap' => ~overlap)
    <3>1. overlap \in BOOLEAN BY DEF MCInv, AlwaysInv
    <3>2. CASE UNCHANGED overlap BY <3>1, <3>2
    <3>3. CASE PortfoliosNext
      <4>1. (\E t \in Threads : \E u \in Threads \ {t} :
               worker'[t].of = worker'[u].of /\ worker'[t].of # NoPortfolio) \in BOOLEAN
        OBVIOUS
      <4>2. QED BY <3>1, <3>3, <4>1 DEF PortfoliosNext
    <3>4. QED BY <1>2, <3>2, <3>3 DEF MCNext, ResearchNext, mcvars
  <2>3. IInv'
    BY <2>1, RowsStep DEF MCInv
  <2>4. AlwaysInv'
    BY <2>1, <2>2 DEF vars, MCInv, AlwaysInv, SpentIds, Fresh
  <2>5. SerialInv'
    BY <2>1, <2>2 DEF vars, MCInv, SerialInv, AllApart, Apart, HeldFits, ActiveBacktests, Kept,
       SerialResults
  <2>6. RowStep
    BY <2>1 DEF vars, RowStep
  <2>7. QED BY <2>3, <2>4, <2>5, <2>6 DEF MCInv
<1>3. QED BY <1>1, <1>2

\* What the requests hold, and what they may rely on while they share nothing.
THEOREM MCInvariant == MCSpec => []MCInv /\ [][RowStep]_mcvars
<1>1. MCInit => MCInv
  <2> SUFFICES ASSUME MCInit PROVE MCInv
    OBVIOUS
  <2>1. Init /\ overlap = FALSE BY DEF MCInit
  <2>2. IInv BY <2>1, RowsInit
  <2>3. AlwaysInv /\ SerialInv
    BY <2>1 DEF Init, AlwaysInv, SpentIds, SerialInv, AllApart, Apart, HeldFits, SerialResults, Idle,
       TaskPlaces, StrategyPlaces
  <2>4. QED BY <2>2, <2>3 DEF MCInv
<1>2. QED BY <1>1, MCStep, PTL DEF MCSpec

\* Every reachable state of the rows and requests of the instance is well
\* formed, its rows coherent and its keys unique.
THEOREM RowsCorrect == MCSpec => [](TypeOK /\ MetricsOfCompleted /\ KeysUnique)
BY RowsRefine, TypeCorrect, MetricsCorrect, KeysCorrect, PTL

\* While no two requests contend for a row, rows follow their state machines,
\* strategies are deleted only when unused, and results are those of their
\* tasks (transition, execute_task, delete_task, delete_strategy).
THEOREM SerialCorrect == MCSpec => SerialRows
<1>1. RowStep => \A i \in TaskIds : ~overlap' /\ tasks'[i] # tasks[i] =>
        \/ tasks[i] = NoTask /\ tasks'[i].status = "pending"
        \/ tasks'[i] = NoTask /\ tasks[i].status \in Terminal
        \/ /\ tasks[i] # NoTask /\ tasks'[i] # NoTask
           /\ tasks'[i].status \in BacktestTransitions[tasks[i].status]
  BY DEF RowStep
<1>2. RowStep => \A s \in StrategyIds :
        ~overlap' /\ strategies[s] # NoStrategy /\ strategies'[s] \notin {strategies[s], NoStrategy} =>
          strategies'[s].status \in StrategyTransitions[strategies[s].status]
  BY DEF RowStep
<1>3. RowStep => \A s \in StrategyIds :
        ~overlap' /\ strategies[s] # NoStrategy /\ strategies'[s] = NoStrategy =>
          \A i \in Kept : tasks[i].strategy = s => tasks[i].status \notin {"pending", "running"}
  BY DEF RowStep
<1>4. MCInv => SerialResults
  BY DEF MCInv, SerialInv, SerialResults
<1>5. QED BY <1>1, <1>2, <1>3, <1>4, MCInvariant, PTL
          DEF SerialRows, SerialTasks, SerialStrategies, SerialDeletion

-----------------------------------------------------------------------------
(* Sums over finite sets. The folds of the community modules take the      *)
(* elements of a set in an order CHOOSE fixes; that a sum does not depend  *)
(* on it is shown by way of a smallest counterexample.                     *)

First(S) == CHOOSE x \in S : TRUE

\* F gives the sum of g over each subset of S, an element of it being taken
\* away at a time.
Sums(F, g, S) ==
  /\ F \in [SUBSET S -> Int]
  /\ F[{}] = 0
  /\ \A T \in SUBSET S : T # {} => F[T] = F[T \ {First(T)}] + g[First(T)]

\* The same of a function that may have other values than integers.
Adds(G, g, S) ==
  /\ G[{}] = 0
  /\ \A T \in SUBSET S : T # {} /\ G[T \ {First(T)}] \in Int =>
       G[T] = G[T \ {First(T)}] + g[First(T)]

Sum(g, S) == (CHOOSE F : Sums(F, g, S))[S]

\* Among some subsets of a finite set there is one without a smaller one.
LEMMA SmallestSubset ==
  ASSUME NEW S, IsFiniteSet(S), NEW B \in SUBSET SUBSET S, B # {}
  PROVE  \E T \in B : \A U \in SUBSET T : U # T => U \notin B
<1>1. B \subseteq FiniteSubsetsOf(S)
  BY FS_Subset DEF FiniteSubsetsOf
<1>2. PICK T \in B : \A U \in B : ~(<<U, T>> \in StrictSubsetOrdering(S))
  BY <1>1, FS_StrictSubsetOrderingWellFounded, WFMin, Zenon
<1>3. ASSUME NEW U \in SUBSET T, U # T PROVE U \notin B
  BY <1>2, <1>3 DEF StrictSubsetOrdering
<1>4. QED BY <1>2, <1>3

LEMMA FirstIn ==
  ASSUME NEW S, S # {}
  PROVE  First(S) \in S
BY DEF First

\* The values on S are integers.
Whole(g, S) == \A x \in S : g[x] \in Int

Same(g, h, S) == \A x \in S : g[x] = h[x]

\* A function that adds up as Sums says gives the same sums.
LEMMA SumsAgree ==
  ASSUME NEW S, IsFiniteSet(S), NEW T \in SUBSET S,
         NEW F, NEW G, NEW g, NEW h, Sums(F, g, T), Adds(G, h, S),
         Same(g, h, T)
  PROVE  \A U \in SUBSET T : F[U] = G[U]
<1> DEFINE B == {U \in SUBSET T : F[U] # G[U]}
<1>1. SUFFICES ASSUME B # {} PROVE FALSE
  OBVIOUS
<1>b. B \in SUBSET SUBSET S OBVIOUS
<1>c. \A U \in B : U \in SUBSET T /\ F[U] # G[U] OBVIOUS
<1>d. \A U \in SUBSET T : U \notin B => F[U] = G[U] OBVIOUS
<1> HIDE DEF B
<1>2. PICK U \in B : \A V \in SUBSET U : V # U => V \notin B
  BY <1>1, <1>b, SmallestSubset
<1>3. U \in SUBSET T /\ F[U] # G[U] BY <1>c
<1>4. U # {} BY <1>3 DEF Sums, Adds
<1>5. First(U) \in U BY <1>4, FirstIn
<1>6. F[U \ {First(U)}] = G[U \ {First(U)}] BY <1>2, <1>3, <1>5, <1>d
<1>7. F[U] = F[U \ {First(U)}] + g[First(U)] /\ F[U \ {First(U)}] \in Int
  BY <1>3, <1>4 DEF Sums
<1>8. G[U] = G[U \ {First(U)}] + h[First(U)]
  BY <1>3, <1>4, <1>6, <1>7 DEF Adds
<1>9. QED BY <1>3, <1>5, <1>6, <1>7, <1>8 DEF Same

\* There is such a function.
LEMMA SumsExist ==
  ASSUME NEW S, IsFiniteSet(S), NEW g, \A x \in S : g[x] \in Int
  PROVE  \E F : Sums(F, g, S)
<1> DEFINE B == {T \in SUBSET S : ~\E F : Sums(F, g, T)}
<1>1. SUFFICES ASSUME B # {} PROVE FALSE
  OBVIOUS
<1>b. B \in SUBSET SUBSET S OBVIOUS
<1>c. \A T \in SUBSET S : T \in B <=> ~\E F : Sums(F, g, T) OBVIOUS
<1> HIDE DEF B
<1>2. PICK T \in B : \A U \in SUBSET T : U # T => U \notin B
  BY <1>1, <1>b, SmallestSubset
<1>t. T \in SUBSET S /\ IsFiniteSet(T) BY <1>b, FS_Subset
<1>3. ASSUME NEW U \in SUBSET T, U # T PROVE \E F : Sums(F, g, U)
  BY <1>2, <1>3, <1>c, <1>t
<1> DEFINE G(U) == CHOOSE F : Sums(F, g, U)
           p == First(T)
           F == [U \in SUBSET T |-> IF U = {} THEN 0
                                    ELSE IF U # T THEN G(U)[U]
                                    ELSE G(T \ {p})[T \ {p}] + g[p]]
<1>4. \A U \in SUBSET T : U # T => Sums(G(U), g, U)
  BY <1>3
<1> HIDE DEF G
<1>5. T # {}
  <2> SUFFICES ASSUME T = {} PROVE FALSE
    OBVIOUS
  <2>1. Sums([U \in SUBSET {} |-> 0], g, {})
    BY DEF Sums
  <2>2. QED BY <1>c, <1>t, <2>1
<1>6. p \in T /\ g[p] \in Int BY <1>5, <1>t, FirstIn
<1> HIDE DEF p
<1>7. \A U, V \in SUBSET T : U # T /\ V \subseteq U => G(U)[V] = G(V)[V]
  <2> SUFFICES ASSUME NEW U \in SUBSET T, NEW V \in SUBSET U, U # T PROVE G(U)[V] = G(V)[V]
    OBVIOUS
  <2>0. V \in SUBSET T /\ V # T /\ IsFiniteSet(U)
    BY <1>t, FS_Subset
  <2>a. Sums(G(U), g, U) BY <1>4
  <2>b. Sums(G(V), g, V) BY <1>4, <2>0
  <2>1. Sums(G(U), g, U) /\ Sums(G(V), g, V) /\ IsFiniteSet(U)
    BY <2>0, <2>a, <2>b
  <2>2. Adds(G(U), g, U)
    BY <2>1 DEF Sums, Adds
  <2>3. PICK H : H = G(U) OBVIOUS
  <2>4. PICK K : K = G(V) OBVIOUS
  <2>5. Sums(K, g, V) /\ Adds(H, g, U)
    BY <2>1, <2>2, <2>3, <2>4
  <2>6. Same(g, g, V) BY DEF Same
  <2>7. \A W \in SUBSET V : K[W] = H[W]
    BY <2>1, <2>5, <2>6, SumsAgree
  <2>8. QED BY <2>3, <2>4, <2>7
<1>8. F \in [SUBSET T -> Int]
  <2>1. ASSUME NEW U \in SUBSET T, U # T PROVE G(U)[U] \in Int
    BY <1>4, <2>1 DEF Sums
  <2>2. G(T \ {p})[T \ {p}] + g[p] \in Int
    BY <1>6, <2>1
  <2>3. QED BY <2>1, <2>2
<1>9. ASSUME NEW U \in SUBSET T, U # {} PROVE F[U] = F[U \ {First(U)}] + g[First(U)]
  <2>1. First(U) \in U BY <1>9, FirstIn
  <2> DEFINE V == U \ {First(U)}
  <2>2. V \in SUBSET T /\ V # T /\ V # U BY <2>1
  <2>3. F[V] = G(V)[V]
    BY <1>4, <2>2 DEF Sums
  <2>4. CASE U = T
    BY <1>5, <2>3, <2>4 DEF p
  <2>5. CASE U # T
    <3>1. F[U] = G(U)[U] BY <1>9, <2>5
    <3>2. G(U)[U] = G(U)[V] + g[First(U)] BY <1>4, <1>9, <2>5 DEF Sums
    <3>3. G(U)[V] = G(V)[V] BY <1>7, <2>2, <2>5
    <3>4. QED BY <2>3, <3>1, <3>2, <3>3
  <2>6. QED BY <2>4, <2>5
<1>10. Sums(F, g, T)
  BY <1>8, <1>9 DEF Sums
<1>11. QED BY <1>c, <1>t, <1>10

\* Any element may be taken away first.
LEMMA SumsAny ==
  ASSUME NEW S, IsFiniteSet(S), NEW g, \A x \in S : g[x] \in Int, NEW F, Sums(F, g, S)
  PROVE  \A T \in SUBSET S : \A x \in T : F[T] = F[T \ {x}] + g[x]
<1> DEFINE B == {T \in SUBSET S : \E x \in T : F[T] # F[T \ {x}] + g[x]}
<1>1. SUFFICES ASSUME B # {} PROVE FALSE
  OBVIOUS
<1>2. B \in SUBSET SUBSET S OBVIOUS
<1>3. \A T \in SUBSET S : T \in B <=> \E x \in T : F[T] # F[T \ {x}] + g[x] OBVIOUS
<1> HIDE DEF B
<1>4. PICK T \in B : \A U \in SUBSET T : U # T => U \notin B
  BY <1>1, <1>2, SmallestSubset
<1>5. T \in SUBSET S BY <1>2
<1>6. PICK x \in T : F[T] # F[T \ {x}] + g[x]
  BY <1>3, <1>5
<1>7. PICK y \in T : y = First(T)
  BY FirstIn
<1>8. F[T] = F[T \ {y}] + g[y]
  BY <1>5, <1>7 DEF Sums
<1>9. x # y BY <1>6, <1>8
<1>10. \A U \in SUBSET T : U # T => \A z \in U : F[U] = F[U \ {z}] + g[z]
  BY <1>3, <1>4, <1>5
<1> DEFINE V == T \ {x, y}
<1>11. F[T \ {y}] = F[V] + g[x]
  <2>1. x \in T \ {y} /\ (T \ {y}) \ {x} = V BY <1>9
  <2>2. QED BY <1>10, <2>1
<1>12. F[T \ {x}] = F[V] + g[y]
  <2>1. y \in T \ {x} /\ (T \ {x}) \ {y} = V BY <1>9
  <2>2. QED BY <1>10, <2>1
<1>13. F[V] \in Int /\ g[x] \in Int /\ g[y] \in Int
  BY <1>5 DEF Sums
<1>14. QED BY <1>6, <1>8, <1>11, <1>12, <1>13

\* The sum of nothing is 0.
LEMMA SumEmpty ==
  ASSUME NEW g
  PROVE  Sum(g, {}) = 0
<1>1. \E F : Sums(F, g, {})
  BY SumsExist, FS_EmptySet
<1>2. QED BY <1>1 DEF Sum, Sums

\* A sum of integers is one, that of a smaller set and what it leaves out.
LEMMA SumRemove ==
  ASSUME NEW S, IsFiniteSet(S), NEW g, \A x \in S : g[x] \in Int
  PROVE  Sum(g, S) \in Int /\ \A x \in S : Sum(g, S) = Sum(g, S \ {x}) + g[x]
<1>1. PICK F : F = CHOOSE G : Sums(G, g, S) OBVIOUS
<1>2. Sums(F, g, S) /\ Sum(g, S) = F[S]
  BY <1>1, SumsExist DEF Sum
<1>3. Sum(g, S) \in Int BY <1>2 DEF Sums
<1>4. ASSUME NEW x \in S PROVE Sum(g, S) = Sum(g, S \ {x}) + g[x]
  <2>1. PICK T \in SUBSET S : T = S \ {x} OBVIOUS
  <2>2. IsFiniteSet(T) /\ \A y \in T : g[y] \in Int BY FS_Subset
  <2>3. PICK G : G = CHOOSE H : Sums(H, g, T) OBVIOUS
  <2>4. Sums(G, g, T) /\ Sum(g, T) = G[T]
    BY <2>2, <2>3, SumsExist DEF Sum
  <2>5. Adds(F, g, S) BY <1>2 DEF Sums, Adds
  <2>6. Same(g, g, T) BY DEF Same
  <2>7. \A U \in SUBSET T : G[U] = F[U] BY <2>4, <2>5, <2>6, SumsAgree
  <2>8. F[S] = F[S \ {x}] + g[x] BY <1>2, SumsAny
  <2>9. QED BY <1>2, <2>1, <2>4, <2>7, <2>8
<1>5. QED BY <1>3, <1>4

\* A function that adds up gives the sum, of whatever has the same values.
LEMMA AddsSum ==
  ASSUME NEW S, IsFiniteSet(S), NEW g, \A x \in S : g[x] \in Int,
         NEW G, NEW h, Adds(G, h, S), Same(g, h, S)
  PROVE  G[S] = Sum(g, S)
<1>1. PICK F : F = CHOOSE H : Sums(H, g, S) OBVIOUS
<1>2. Sums(F, g, S) /\ Sum(g, S) = F[S]
  BY <1>1, SumsExist DEF Sum
<1>3. \A U \in SUBSET S : F[U] = G[U]
  BY <1>2, SumsAgree
<1>4. QED BY <1>2, <1>3

\* Functions with the same values on a set have the same sum over it.
LEMMA SumSame ==
  ASSUME NEW S, IsFiniteSet(S), NEW g, NEW h, \A x \in S : h[x] \in Int, Same(g, h, S)
  PROVE  Sum(g, S) = Sum(h, S)
<1>1. \A x \in S : g[x] \in Int BY DEF Same
<1>2. PICK G : G = CHOOSE H : Sums(H, h, S) OBVIOUS
<1>3. Sums(G, h, S) /\ Sum(h, S) = G[S]
  BY <1>2, SumsExist DEF Sum
<1>4. Adds(G, h, S) BY <1>3 DEF Sums, Adds
<1>5. QED BY <1>1, <1>3, <1>4, AddsSum

\* Every smaller sum of naturals is smaller.
LEMMA SumPart ==
  ASSUME NEW S, IsFiniteSet(S), NEW T \in SUBSET S, NEW g, \A x \in S : g[x] \in Nat
  PROVE  Sum(g, T) \in Nat /\ Sum(g, S) \in Nat /\ Sum(g, T) <= Sum(g, S)
<1> DEFINE Bad(U) == ~(Sum(g, U) \in Nat /\ Sum(g, T \cap U) \in Nat /\ Sum(g, T \cap U) <= Sum(g, U))
           B == {U \in SUBSET S : Bad(U)}
<1>1. SUFFICES ASSUME B # {} PROVE FALSE
  <2>1. T \cap S = T OBVIOUS
  <2>2. QED BY <2>1
<1>b. B \in SUBSET SUBSET S OBVIOUS
<1>2. PICK U \in B : \A V \in SUBSET U : V # U => V \notin B
  <2> HIDE DEF B
  <2>1. QED BY <1>1, <1>b, SmallestSubset
<1>3. U \in SUBSET S /\ IsFiniteSet(U) /\ IsFiniteSet(T \cap U) BY FS_Subset
<1>4. U # {}
  <2>1. Sum(g, {}) = 0 BY SumEmpty
  <2>2. \A V : V = {} => ~Bad(V) BY <2>1
  <2>3. QED BY <2>2
<1>5. PICK x \in U : TRUE BY <1>4
<1>6. PICK V \in SUBSET S : V = U \ {x} BY <1>3
<1>7. ~Bad(V) BY <1>2, <1>5, <1>6
<1>8. g[x] \in Nat /\ (\A y \in U : g[y] \in Int) BY <1>3, <1>5
<1>9. Sum(g, U) = Sum(g, V) + g[x] BY <1>3, <1>5, <1>6, <1>8, SumRemove
<1>10. CASE x \in T
  <2>1. (T \cap U) \ {x} = T \cap V /\ x \in T \cap U BY <1>5, <1>6, <1>10
  <2>2. Sum(g, T \cap U) = Sum(g, T \cap V) + g[x] BY <1>3, <1>8, <2>1, SumRemove
  <2>3. ~Bad(U) BY <1>7, <1>8, <1>9, <2>2
  <2>4. QED BY <2>3
<1>11. CASE x \notin T
  <2>1. T \cap U = T \cap V BY <1>5, <1>6, <1>11
  <2>2. ~Bad(U) BY <1>7, <1>8, <1>9, <2>1
  <2>3. QED BY <2>2
<1>12. QED BY <1>10, <1>11

Plus(h, f, g, S) == \A x \in S : h[x] = f[x] + g[x]

\* The sum of sums.
LEMMA SumPlus ==
  ASSUME NEW S, IsFiniteSet(S), NEW f, NEW g, NEW h, Whole(f, S), Whole(g, S), Plus(h, f, g, S)
  PROVE  Sum(h, S) = Sum(f, S) + Sum(g, S)
<1> DEFINE B == {U \in SUBSET S : Sum(h, U) # Sum(f, U) + Sum(g, U)}
<1>1. SUFFICES ASSUME B # {} PROVE FALSE
  OBVIOUS
<1>b. B \in SUBSET SUBSET S OBVIOUS
<1>2. PICK U \in B : \A V \in SUBSET U : V # U => V \notin B
  <2> HIDE DEF B
  <2>1. QED BY <1>1, <1>b, SmallestSubset
<1>3. U \in SUBSET S /\ IsFiniteSet(U) /\ Sum(h, U) # Sum(f, U) + Sum(g, U) BY FS_Subset
<1>4. U # {} BY <1>3, SumEmpty
<1>5. PICK x \in U : TRUE BY <1>4
<1>6. PICK V \in SUBSET S : V = U \ {x} BY <1>3
<1>7. Sum(h, V) = Sum(f, V) + Sum(g, V) BY <1>2, <1>5, <1>6
<1>8. \A y \in U : f[y] \in Int /\ g[y] \in Int /\ h[y] = f[y] + g[y] /\ h[y] \in Int
  BY <1>3 DEF Whole, Plus
<1>9. Sum(h, U) = Sum(h, V) + h[x] /\ Sum(f, U) = Sum(f, V) + f[x] /\ Sum(g, U) = Sum(g, V) + g[x]
  BY <1>3, <1>5, <1>6, <1>8, SumRemove
<1>10. IsFiniteSet(V) /\ (\A y \in V : f[y] \in Int /\ g[y] \in Int)
  BY <1>3, <1>6, <1>8, FS_Subset
<1>11. Sum(f, V) \in Int /\ Sum(g, V) \in Int BY <1>10, SumRemove
<1>12. QED BY <1>3, <1>5, <1>7, <1>8, <1>9, <1>11

Scaled(h, k, g, S) == \A x \in S : h[x] = k * g[x]

\* The sum of products with k.
LEMMA SumScaled ==
  ASSUME NEW S, IsFiniteSet(S), NEW k \in Int, NEW g, NEW h, Whole(g, S), Scaled(h, k, g, S)
  PROVE  Sum(h, S) = k * Sum(g, S)
<1> DEFINE B == {U \in SUBSET S : Sum(h, U) # k * Sum(g, U)}
<1>1. SUFFICES ASSUME B # {} PROVE FALSE
  OBVIOUS
<1>b. B \in SUBSET SUBSET S OBVIOUS
<1>2. PICK U \in B : \A V \in SUBSET U : V # U => V \notin B
  <2> HIDE DEF B
  <2>1. QED BY <1>1, <1>b, SmallestSubset
<1>3. U \in SUBSET S /\ IsFiniteSet(U) /\ Sum(h, U) # k * Sum(g, U) BY FS_Subset
<1>4. U # {} BY <1>3, SumEmpty
<1>5. PICK x \in U : TRUE BY <1>4
<1>6. PICK V \in SUBSET S : V = U \ {x} BY <1>3
<1>7. Sum(h, V) = k * Sum(g, V) BY <1>2, <1>5, <1>6
<1>8. \A y \in U : g[y] \in Int /\ h[y] = k * g[y] /\ h[y] \in Int
  BY <1>3 DEF Whole, Scaled
<1>9. Sum(h, U) = Sum(h, V) + h[x] /\ Sum(g, U) = Sum(g, V) + g[x]
  BY <1>3, <1>5, <1>6, <1>8, SumRemove
<1>10. IsFiniteSet(V) /\ (\A y \in V : g[y] \in Int)
  BY <1>3, <1>6, <1>8, FS_Subset
<1>11. Sum(g, V) \in Int BY <1>10, SumRemove
<1>12. \A m, n \in Int : k * (m + n) = k * m + k * n OBVIOUS
<1>13. k * (Sum(g, V) + g[x]) = k * Sum(g, V) + k * g[x] BY <1>5, <1>8, <1>11, <1>12
<1>14. QED BY <1>3, <1>5, <1>7, <1>8, <1>9, <1>13

Constant(h, k, S) == \A x \in S : h[x] = k

\* The sum of the same number.
LEMMA SumConstant ==
  ASSUME NEW S, IsFiniteSet(S), NEW k \in Int, NEW h, Constant(h, k, S)
  PROVE  Sum(h, S) = k * Cardinality(S)
<1> DEFINE B == {U \in SUBSET S : Sum(h, U) # k * Cardinality(U)}
<1>1. SUFFICES ASSUME B # {} PROVE FALSE
  OBVIOUS
<1>b. B \in SUBSET SUBSET S OBVIOUS
<1>2. PICK U \in B : \A V \in SUBSET U : V # U => V \notin B
  <2> HIDE DEF B
  <2>1. QED BY <1>1, <1>b, SmallestSubset
<1>3. U \in SUBSET S /\ IsFiniteSet(U) /\ Sum(h, U) # k * Cardinality(U) BY FS_Subset
<1>4. U # {} BY <1>3, SumEmpty, FS_EmptySet
<1>5. PICK x \in U : TRUE BY <1>4
<1>6. PICK V \in SUBSET S : V = U \ {x} BY <1>3
<1>7. Sum(h, V) = k * Cardinality(V) BY <1>2, <1>5, <1>6
<1>8. \A y \in U : h[y] = k /\ h[y] \in Int
  BY <1>3 DEF Constant
<1>9. Sum(h, U) = Sum(h, V) + k
  BY <1>3, <1>5, <1>6, <1>8, SumRemove
<1>10. Cardinality(U) = Cardinality(V) + 1 /\ Cardinality(V) \in Nat
  <2>1. IsFiniteSet(V) BY <1>3, <1>6, FS_Subset
  <2>2. Cardinality(V) = Cardinality(U) - 1 /\ Cardinality(V) \in Nat /\ Cardinality(U) \in Nat
    BY <1>3, <1>5, <1>6, <2>1, FS_RemoveElement, FS_CardinalityType
  <2>3. QED BY <2>2
<1>11. \A n \in Int : k * (n + 1) = k * n + k OBVIOUS
<1>12. k * Cardinality(U) = k * Cardinality(V) + k BY <1>10, <1>11
<1>13. QED BY <1>3, <1>7, <1>9, <1>12

\* A finite set of numbers has a last one.
LEMMA HasLast ==
  ASSUME NEW S \in SUBSET Int, IsFiniteSet(S), S # {}
  PROVE  \E m \in S : \A x \in S : x <= m
<1> DEFINE Bad(U) == U # {} /\ ~\E m \in U : \A x \in U : x <= m
           B == {U \in SUBSET S : Bad(U)}
<1>1. SUFFICES ASSUME B # {} PROVE FALSE
  OBVIOUS
<1>b. B \in SUBSET SUBSET S OBVIOUS
<1>2. PICK U \in B : \A V \in SUBSET U : V # U => V \notin B
  <2> HIDE DEF B
  <2>1. QED BY <1>1, <1>b, SmallestSubset
<1>3. U \in SUBSET S /\ Bad(U) OBVIOUS
<1>4. PICK x \in U : TRUE BY <1>3
<1>5. PICK V \in SUBSET S : V = U \ {x} BY <1>3
<1>6. ~Bad(V) BY <1>2, <1>4, <1>5
<1>7. CASE V = {}
  <2>1. \A y \in U : y <= x BY <1>3, <1>4, <1>5, <1>7
  <2>2. QED BY <1>3, <1>4, <2>1
<1>8. CASE V # {}
  <2>1. PICK m \in V : \A y \in V : y <= m BY <1>6, <1>8
  <2>2. m \in U /\ x \in Int /\ m \in Int /\ U \subseteq V \cup {x} BY <1>3, <1>4, <1>5
  <2>3. CASE x <= m
    <3>1. \A y \in U : y <= m BY <2>1, <2>2, <2>3
    <3>2. QED BY <1>3, <2>2, <3>1
  <2>4. CASE ~(x <= m)
    <3>1. \A y \in U : y <= x
      <4> SUFFICES ASSUME NEW y \in U PROVE y <= x
        OBVIOUS
      <4>1. y \in Int BY <1>3
      <4>2. CASE y \in V BY <2>1, <2>2, <2>4, <4>1, <4>2
      <4>3. CASE y = x BY <4>1, <4>3
      <4>4. QED BY <2>2, <4>2, <4>3
    <3>2. QED BY <1>3, <1>4, <3>1
  <2>5. QED BY <2>3, <2>4
<1>9. QED BY <1>7, <1>8

-----------------------------------------------------------------------------
(* What a rebalance gives out                                              *)

Less(a, b) == IF a <= b THEN a ELSE b

\* The sums of the portfolios are sums.
LEMMA SumOverIsSum ==
  ASSUME NEW S, IsFiniteSet(S), NEW g, Whole(g, S)
  PROVE  Shared!SumOver(g, S) = Sum(g, S)
<1> USE DEF Whole
<1> DEFINE body(F) == [T \in SUBSET S |->
             IF T = {} THEN 0
             ELSE g[CHOOSE x \in T : TRUE] + F[T \ {CHOOSE x \in T : TRUE}]]
<1>1. Shared!SumOver(g, S) = (CHOOSE F : F = body(F))[S]
  BY DEF Shared!SumOver, Shared!MapThenSumSet, Shared!MapThenFoldSet
<1>2. \E F : F = body(F)
  <2>1. PICK F : Sums(F, g, S) BY SumsExist
  <2>2. ASSUME NEW T \in SUBSET S PROVE F[T] = body(F)[T]
    <3>1. CASE T = {} BY <2>1, <3>1 DEF Sums
    <3>2. CASE T # {}
      <4>1. First(T) \in S /\ First(T) = CHOOSE x \in T : TRUE BY <3>2, FirstIn DEF First
      <4>2. F[T] = F[T \ {First(T)}] + g[First(T)] /\ F[T \ {First(T)}] \in Int
        BY <2>1, <3>2 DEF Sums
      <4>3. QED BY <3>2, <4>1, <4>2
    <3>3. QED BY <3>1, <3>2
  <2>3. F \in [SUBSET S -> Int] BY <2>1 DEF Sums
  <2>4. F = body(F) BY <2>2, <2>3
  <2>5. QED BY <2>4
<1>3. PICK G : G = body(G) /\ Shared!SumOver(g, S) = G[S]
  BY <1>1, <1>2
<1>4. Adds(G, g, S)
  <2>1. G[{}] = 0 BY <1>3
  <2>2. ASSUME NEW T \in SUBSET S, T # {}, G[T \ {First(T)}] \in Int
        PROVE  G[T] = G[T \ {First(T)}] + g[First(T)]
    <3>1. First(T) \in S /\ First(T) = CHOOSE x \in T : TRUE BY <2>2, FirstIn DEF First
    <3>2. G[T] = g[First(T)] + G[T \ {First(T)}]
      BY <1>3, <2>2, <3>1
    <3>3. QED BY <2>2, <3>1, <3>2
  <2>3. QED BY <2>1, <2>2 DEF Adds
<1>5. Same(g, g, S) BY DEF Same
<1>6. G[S] = Sum(g, S) BY <1>4, <1>5, AddsSum
<1>7. QED BY <1>3, <1>6

\* The total of a map is the sum of its values.
LEMMA TotalIsSum ==
  ASSUME NEW w, IsFiniteSet(DOMAIN w), Whole(w, DOMAIN w)
  PROVE  Shared!Total(w) = Sum(w, DOMAIN w)
BY SumOverIsSum DEF Shared!Total

LEMMA Extremes ==
  ASSUME NEW a \in Int, NEW b \in Int
  PROVE  /\ Shared!Min({a, b}) = Less(a, b)
         /\ Shared!Max({a, b}) = IF a <= b THEN b ELSE a
<1>1. Less(a, b) \in {a, b} /\ \A y \in {a, b} : Less(a, b) <= y BY DEF Less
<1>2. Shared!Min({a, b}) \in {a, b} /\ \A y \in {a, b} : Shared!Min({a, b}) <= y
  BY <1>1 DEF Shared!Min
<1>3. (IF a <= b THEN b ELSE a) \in {a, b} /\ \A y \in {a, b} : (IF a <= b THEN b ELSE a) >= y
  OBVIOUS
<1>4. Shared!Max({a, b}) \in {a, b} /\ \A y \in {a, b} : Shared!Max({a, b}) >= y
  BY <1>3 DEF Shared!Max
<1>5. QED BY <1>2, <1>4 DEF Less

LEMMA AtLeastNothing ==
  ASSUME NEW b \in Int
  PROVE  Shared!Max({0, b}) = IF 0 <= b THEN b ELSE 0
<1>1. PICK a \in Int : a = 0 OBVIOUS
<1>2. Shared!Max({a, b}) = IF a <= b THEN b ELSE a BY Extremes
<1>3. QED BY <1>1, <1>2

LEMMA WholePart ==
  ASSUME NEW S, NEW T \in SUBSET S, NEW g, \A x \in S : g[x] \in Nat
  PROVE  Whole(g, T)
BY DEF Whole

LEMMA WholePlus ==
  ASSUME NEW S, NEW f, NEW g, NEW h, Plus(h, f, g, S), Whole(f, S), Whole(g, S)
  PROVE  Whole(h, S)
BY DEF Whole, Plus

Before(S, x) == {r \in S : r < x}

\* What x takes of the rest, when each takes what it has room for in turn.
Taken(room, left, S, x) ==
  Less(room[x], IF 0 <= left - Sum(room, Before(S, x)) THEN left - Sum(room, Before(S, x)) ELSE 0)

Takes(g, room, left, S) == \A x \in S : g[x] = Taken(room, left, S, x)

\* In turn, they take the rest or fill all the room.
LEMMA TakenInTurn ==
  ASSUME NEW S \in SUBSET Nat, IsFiniteSet(S), NEW room, \A x \in S : room[x] \in Nat,
         NEW left \in Nat, NEW g, Takes(g, room, left, S)
  PROVE  Sum(g, S) = Less(Sum(room, S), left)
<1> DEFINE Prefix(U) == \A x \in U, r \in S : r < x => r \in U
           B == {U \in SUBSET S : Prefix(U) /\ Sum(g, U) # Less(Sum(room, U), left)}
<1>1. SUFFICES ASSUME B # {} PROVE FALSE
  <2>1. Prefix(S) OBVIOUS
  <2>2. QED BY <2>1
<1>b. B \in SUBSET SUBSET S OBVIOUS
<1>2. PICK U \in B : \A V \in SUBSET U : V # U => V \notin B
  <2> HIDE DEF B
  <2>1. QED BY <1>1, <1>b, SmallestSubset
<1>3. /\ U \in SUBSET S /\ U \in SUBSET Int /\ IsFiniteSet(U) /\ Prefix(U)
      /\ Sum(g, U) # Less(Sum(room, U), left)
  <2>1. U \in SUBSET S /\ Prefix(U) /\ Sum(g, U) # Less(Sum(room, U), left) OBVIOUS
  <2>2. IsFiniteSet(U) BY <2>1, FS_Subset
  <2>3. U \in SUBSET Int BY <2>1
  <2> HIDE DEF Prefix
  <2>4. QED BY <2>1, <2>2, <2>3
<1>4. U # {} BY <1>3, SumEmpty DEF Less
<1>5. PICK m \in U : \A x \in U : x <= m BY <1>3, <1>4, HasLast
<1>6. PICK V \in SUBSET S : V = U \ {m} BY <1>3
<1>7. Prefix(V)
  <2> SUFFICES ASSUME NEW x \in V, NEW r \in S, r < x PROVE r \in V
    OBVIOUS
  <2>1. r \in U BY <1>3, <1>6
  <2>2. r # m
    <3>1. x <= m /\ x \in Int /\ m \in Int BY <1>3, <1>5, <1>6
    <3>2. QED BY <3>1
  <2>3. QED BY <1>6, <2>1, <2>2
<1>8. Sum(g, V) = Less(Sum(room, V), left) BY <1>2, <1>5, <1>6, <1>7
<1>9. Before(S, m) = V
  <2>1. ASSUME NEW r \in S, r < m PROVE r \in V BY <1>3, <1>5, <1>6, <2>1
  <2>2. ASSUME NEW r \in V PROVE r < m
    <3>1. r <= m /\ r # m /\ r \in Int /\ m \in Int BY <1>3, <1>5, <1>6
    <3>2. QED BY <3>1
  <2>3. QED BY <1>6, <2>1, <2>2 DEF Before
<1>10. \A x \in S : room[x] \in Int OBVIOUS
<1>11. /\ Sum(room, V) \in Nat /\ Sum(room, U) = Sum(room, V) + room[m]
  <2>1. Sum(room, V) \in Nat BY SumPart
  <2>2. \A x \in U : room[x] \in Int BY <1>3
  <2>3. QED BY <1>3, <1>5, <1>6, <2>1, <2>2, SumRemove
<1>12. \A x \in S : g[x] \in Int
  <2> SUFFICES ASSUME NEW x \in S PROVE g[x] \in Int
    OBVIOUS
  <2>1. Before(S, x) \in SUBSET S BY DEF Before
  <2>2. Sum(room, Before(S, x)) \in Nat BY <2>1, SumPart
  <2>3. QED BY <2>2 DEF Takes, Taken, Less
<1>13. Sum(g, U) = Sum(g, V) + g[m]
  <2>1. \A x \in U : g[x] \in Int BY <1>3, <1>12
  <2>2. QED BY <1>3, <1>5, <1>6, <2>1, SumRemove
<1>14. g[m] = Less(room[m], IF 0 <= left - Sum(room, V) THEN left - Sum(room, V) ELSE 0)
  BY <1>3, <1>5, <1>9 DEF Takes, Taken
<1>15. room[m] \in Nat BY <1>3, <1>5
<1>16. QED BY <1>3, <1>8, <1>11, <1>13, <1>14, <1>15 DEF Less

\* Without named targets all the weight the limits allow is given out: the
\* shares the scores give, cut to what a single strategy may have, and what is
\* left in turn.
LEMMA AutoGives ==
  ASSUME NEW S \in SUBSET Nat, IsFiniteSet(S), NEW limits \in [total: Nat, single: Nat],
         NEW score, \A s \in S : score[s] \in Nat
  PROVE  LET a == Shared!AutoTargets(S, limits, score) IN
         /\ a.scale \in Nat /\ DOMAIN a.target = S /\ Whole(a.target, S)
         /\ Shared!Total(a.target) = Less((limits.single * a.scale) * Cardinality(S), limits.total * a.scale)
<1>1. PICK T : T = Sum(score, S) OBVIOUS
<1>2. T \in Nat /\ Shared!SumOver(score, S) = T
  <2>1. Whole(score, S) BY DEF Whole
  <2>2. Sum(score, S) \in Nat BY SumPart
  <2>3. QED BY <1>1, <2>1, <2>2, SumOverIsSum
<1>3. PICK cap, all \in Nat : cap = limits.single * T /\ all = limits.total * T
  <2>1. limits.single \in Nat /\ limits.total \in Nat OBVIOUS
  <2>2. \A m, n \in Nat : m * n \in Nat OBVIOUS
  <2>3. QED BY <1>2, <2>1, <2>2
<1>4. PICK share : share = [s \in S |-> limits.total * score[s]] OBVIOUS
<1>5. (\A s \in S : share[s] \in Nat) /\ Sum(share, S) = all
  <2>1. limits.total \in Nat OBVIOUS
  <2>2. \A m, n \in Nat : m * n \in Nat OBVIOUS
  <2>3. \A s \in S : share[s] \in Nat BY <1>4, <2>1, <2>2
  <2>4. Scaled(share, limits.total, score, S) BY <1>4 DEF Scaled
  <2>5. Whole(score, S) BY DEF Whole
  <2>6. Sum(share, S) = limits.total * Sum(score, S) BY <2>1, <2>4, <2>5, SumScaled
  <2>7. QED BY <1>1, <1>3, <2>3, <2>6
<1>6. PICK base : base = [s \in S |-> Shared!Min({cap, share[s]})] OBVIOUS
<1>7. \A s \in S : base[s] \in Nat /\ base[s] <= cap /\ base[s] <= share[s]
  BY <1>5, <1>6, Extremes DEF Less
<1>8. PICK over, room : over = [s \in S |-> share[s] - base[s]] /\ room = [s \in S |-> cap - base[s]]
  OBVIOUS
<1>9. \A s \in S : over[s] \in Nat /\ room[s] \in Nat
  BY <1>5, <1>7, <1>8
<1>10. Sum(base, S) \in Nat /\ Sum(over, S) \in Nat /\ Sum(room, S) \in Nat
  BY <1>7, <1>9, SumPart
<1>11. Whole(base, S) /\ Whole(over, S) /\ Whole(room, S)
  BY <1>7, <1>9 DEF Whole
<1>12. all = Sum(base, S) + Sum(over, S)
  <2>1. Plus(share, base, over, S) BY <1>5, <1>7, <1>8 DEF Plus
  <2>2. QED BY <1>5, <1>11, <2>1, SumPlus
<1>13. cap * Cardinality(S) = Sum(base, S) + Sum(room, S)
  <2>1. PICK even : even = [s \in S |-> cap] OBVIOUS
  <2>2. Constant(even, cap, S) BY <2>1 DEF Constant
  <2>3. Plus(even, base, room, S) BY <1>7, <1>8, <2>1 DEF Plus
  <2>4. Sum(even, S) = Sum(base, S) + Sum(room, S) BY <1>11, <2>3, SumPlus
  <2>5. Sum(even, S) = cap * Cardinality(S) BY <2>2, SumConstant
  <2>6. QED BY <2>4, <2>5
<1>14. PICK left : left = all - Sum(base, S) OBVIOUS
<1>15. left \in Nat BY <1>10, <1>12, <1>14
<1>16. PICK taken : taken = [s \in S |-> Taken(room, left, S, s)] OBVIOUS
<1>17. Takes(taken, room, left, S) /\ Sum(taken, S) = Less(Sum(room, S), left)
  <2>1. Takes(taken, room, left, S) BY <1>16 DEF Takes
  <2>2. QED BY <1>9, <1>15, <2>1, TakenInTurn
<1>18. \A s \in S : taken[s] \in Int
                    /\ taken[s] = Shared!Min({room[s], Shared!Max({0, left - Shared!SumOver(room, Before(S, s))})})
  <2> TAKE s \in S
  <2>1. Before(S, s) \in SUBSET S BY DEF Before
  <2>2. Sum(room, Before(S, s)) \in Nat BY <1>9, <2>1, SumPart
  <2>3. Shared!SumOver(room, Before(S, s)) = Sum(room, Before(S, s))
    <3>1. IsFiniteSet(Before(S, s)) BY <2>1, FS_Subset
    <3>2. Whole(room, Before(S, s)) BY <1>9, <2>1, WholePart
    <3>3. QED BY <3>1, <3>2, SumOverIsSum
  <2>4. PICK gap : gap = left - Sum(room, Before(S, s)) OBVIOUS
  <2>5. gap \in Int BY <1>15, <2>2, <2>4
  <2>6. PICK rest : rest = IF 0 <= gap THEN gap ELSE 0 OBVIOUS
  <2>7. rest \in Int /\ Shared!Max({0, gap}) = rest
    <3>1. Shared!Max({0, gap}) = IF 0 <= gap THEN gap ELSE 0 BY <2>5, AtLeastNothing
    <3>2. QED BY <2>5, <2>6, <3>1
  <2>8. room[s] \in Int BY <1>9
  <2>9. Shared!Min({room[s], rest}) = Less(room[s], rest) BY <2>7, <2>8, Extremes
  <2>10. taken[s] = Less(room[s], rest) BY <1>16, <2>4, <2>6 DEF Taken
  <2>11. Less(room[s], rest) \in Int BY <2>7, <2>8 DEF Less
  <2>12. QED BY <2>3, <2>4, <2>7, <2>9, <2>10, <2>11
<1>19. PICK target : target = [s \in S |-> base[s] + taken[s]] OBVIOUS
<1>20. Shared!Total(base) = Sum(base, S)
  <2>1. DOMAIN base = S BY <1>6
  <2>2. QED BY <1>11, <2>1, TotalIsSum
<1>21. Shared!AutoTargets(S, limits, score) = [scale |-> T, target |-> target]
  <2>1. \A s \in S : Before(S, s) = {r \in S : r < s} BY DEF Before
  <2>2. base = [s \in S |-> Shared!Min({limits.single * T, limits.total * score[s]})]
    BY <1>3, <1>4, <1>6
  <2>3. left = limits.total * T - Shared!Total(base)
    BY <1>3, <1>14, <1>20
  <2>4. room = [s \in S |-> limits.single * T - base[s]]
    BY <1>3, <1>8
  <2>5. target = [s \in S |-> base[s] + Shared!Min({room[s], Shared!Max({0, left - Shared!SumOver(room, {r \in S : r < s})})})]
    BY <1>18, <1>19, <2>1
  <2>6. QED BY <1>2, <2>2, <2>3, <2>4, <2>5 DEF Shared!AutoTargets
<1>22. /\ Plus(target, base, taken, S) /\ Whole(taken, S)
       /\ Sum(target, S) = Sum(base, S) + Less(Sum(room, S), left)
  <2>1. Plus(target, base, taken, S) BY <1>19 DEF Plus
  <2>2. Whole(taken, S) BY <1>18 DEF Whole
  <2>3. QED BY <1>11, <1>17, <2>1, <2>2, SumPlus
<1>23. Shared!Total(target) = Sum(target, S) /\ Whole(target, S)
  <2>1. DOMAIN target = S BY <1>19
  <2>2. Whole(target, S) BY <1>11, <1>22, WholePlus
  <2>3. Shared!Total(target) = Sum(target, S) BY <2>1, <2>2, TotalIsSum
  <2>4. QED BY <2>2, <2>3
<1>24. Shared!Total(target) = Less(cap * Cardinality(S), all)
  BY <1>10, <1>12, <1>13, <1>14, <1>22, <1>23 DEF Less
<1>25. PICK a : a = Shared!AutoTargets(S, limits, score) OBVIOUS
<1>26. a.scale = T /\ a.target = target BY <1>21, <1>25
<1>27. a.scale \in Nat /\ DOMAIN a.target = S /\ Whole(a.target, S) BY <1>2, <1>19, <1>23, <1>26
<1>28. Shared!Total(a.target) = Less((limits.single * a.scale) * Cardinality(S), limits.total * a.scale)
  BY <1>3, <1>24, <1>26
<1>29. QED BY <1>25, <1>27, <1>28

-----------------------------------------------------------------------------
(* Lists of members                                                        *)

Distinct(ms) == \A i, j \in DOMAIN ms : ms[i].strategy = ms[j].strategy => i = j

\* A set of numbers has a least one.
LEMMA HasLeast ==
  ASSUME NEW S \in SUBSET Nat, S # {}
  PROVE  \E m \in S : \A x \in S : m <= x
<1>1. PICK m \in S : \A x \in S : ~(<<x, m>> \in OpToRel(<, Nat))
  BY NatLessThanWellFounded, WFMin
<1>2. \A x \in S : ~(x < m) BY <1>1 DEF OpToRel
<1>3. QED BY <1>2

LEMMA ListGrows ==
  ASSUME NEW ms \in Seq(Shared!Member), NEW m \in Shared!Member
  PROVE  /\ DOMAIN ms = 1..Len(ms) /\ Len(ms) \in Nat /\ IsFiniteSet(DOMAIN ms)
         /\ Append(ms, m) \in Seq(Shared!Member)
         /\ DOMAIN Append(ms, m) = DOMAIN ms \cup {Len(ms) + 1} /\ Len(ms) + 1 \notin DOMAIN ms
         /\ Append(ms, m)[Len(ms) + 1] = m
         /\ \A i \in DOMAIN ms : Append(ms, m)[i] = ms[i]
<1>1. DOMAIN ms = 1..Len(ms) /\ Len(ms) \in Nat OBVIOUS
<1>2. IsFiniteSet(DOMAIN ms) BY <1>1, FS_Interval
<1>3. PICK ns, e : ns = Append(ms, m) /\ e = Len(ms) + 1 OBVIOUS
<1>4. ns \in Seq(Shared!Member) /\ Len(ns) = e BY <1>3
<1>5. DOMAIN ns = 1..e BY <1>4
<1>6. DOMAIN ns = DOMAIN ms \cup {e} /\ e \notin DOMAIN ms BY <1>1, <1>3, <1>5
<1>7. ns[e] = m /\ \A i \in DOMAIN ms : ns[i] = ms[i] BY <1>1, <1>3
<1>8. QED BY <1>1, <1>2, <1>3, <1>4, <1>6, <1>7

\* The list so far, as Without makes it.
Keeps(kept, ms, s, N) ==
  /\ DOMAIN kept = 0..N /\ kept[0] = <<>>
  /\ \A n \in 1..N : kept[n] = IF ms[n].strategy = s THEN kept[n - 1] ELSE Append(kept[n - 1], ms[n])

\* The members of ns are the first n of ms without those of strategy s.
Leaves(ns, ms, s, n) ==
  /\ ns \in Seq(Shared!Member)
  /\ \A k \in DOMAIN ns : \E i \in 1..n : ns[k] = ms[i] /\ ms[i].strategy # s
  /\ \A i \in 1..n : ms[i].strategy # s => \E k \in DOMAIN ns : ns[k] = ms[i]
  /\ Distinct(ms) => Distinct(ns)

LEMMA KeepsExist ==
  ASSUME NEW ms, NEW s, NEW N \in Nat
  PROVE  \E kept : Keeps(kept, ms, s, N)
<1> DEFINE B == {n \in Nat : ~\E kept : Keeps(kept, ms, s, n)}
<1>1. SUFFICES ASSUME B # {} PROVE FALSE
  OBVIOUS
<1>2. B \in SUBSET Nat /\ \A n \in Nat : n \in B <=> ~\E kept : Keeps(kept, ms, s, n) OBVIOUS
<1> HIDE DEF B
<1>3. PICK n \in B : \A m \in B : n <= m BY <1>1, <1>2, HasLeast
<1>4. n \in Nat /\ ~\E kept : Keeps(kept, ms, s, n) BY <1>2
<1>5. n # 0
  <2>1. Keeps([k \in 0..0 |-> <<>>], ms, s, 0) BY DEF Keeps
  <2>2. QED BY <1>4, <2>1
<1>6. PICK kept : Keeps(kept, ms, s, n - 1)
  <2>1. n - 1 \in Nat /\ ~(n <= n - 1) BY <1>4, <1>5
  <2>2. QED BY <1>2, <1>3, <2>1
<1>7. PICK last : last = IF ms[n].strategy = s THEN kept[n - 1] ELSE Append(kept[n - 1], ms[n]) OBVIOUS
<1>8. PICK all : all = [k \in 0..n |-> IF k < n THEN kept[k] ELSE last] OBVIOUS
<1>9. Keeps(all, ms, s, n)
  <2>1. DOMAIN all = 0..n /\ all[0] = <<>> BY <1>4, <1>5, <1>6, <1>8 DEF Keeps
  <2>2. ASSUME NEW k \in 1..n
        PROVE  all[k] = IF ms[k].strategy = s THEN all[k - 1] ELSE Append(all[k - 1], ms[k])
    <3>1. all[k - 1] = kept[k - 1] BY <1>4, <1>8
    <3>2. CASE k = n BY <1>4, <1>7, <1>8, <3>1, <3>2
    <3>3. CASE k # n
      <4>1. k \in 1..(n - 1) /\ all[k] = kept[k] BY <1>4, <1>8, <3>3
      <4>2. QED BY <1>6, <3>1, <4>1 DEF Keeps
    <3>4. QED BY <3>2, <3>3
  <2>3. QED BY <2>1, <2>2 DEF Keeps
<1>10. QED BY <1>4, <1>9

LEMMA LeavesMore ==
  ASSUME NEW ms \in Seq(Shared!Member), NEW s, NEW n \in 1..Len(ms), NEW ns, Leaves(ns, ms, s, n - 1)
  PROVE  Leaves(IF ms[n].strategy = s THEN ns ELSE Append(ns, ms[n]), ms, s, n)
<1>1. DOMAIN ms = 1..Len(ms) /\ ms[n] \in Shared!Member /\ n \in Int OBVIOUS
<1>2. 1..n = (1..(n - 1)) \cup {n} /\ n \notin 1..(n - 1) BY <1>1
<1>3. CASE ms[n].strategy = s
  <2>1. Leaves(ns, ms, s, n) BY <1>2, <1>3 DEF Leaves
  <2>2. QED BY <1>3, <2>1
<1>4. CASE ms[n].strategy # s
  <2>1. PICK os, e : os = Append(ns, ms[n]) /\ e = Len(ns) + 1 OBVIOUS
  <2>2. ns \in Seq(Shared!Member) BY DEF Leaves
  <2>3. /\ os \in Seq(Shared!Member) /\ DOMAIN os = DOMAIN ns \cup {e} /\ e \notin DOMAIN ns
        /\ os[e] = ms[n] /\ \A k \in DOMAIN ns : os[k] = ns[k]
    BY <1>1, <2>1, <2>2, ListGrows
  <2>4. ASSUME NEW k \in DOMAIN os PROVE \E i \in 1..n : os[k] = ms[i] /\ ms[i].strategy # s
    BY <1>2, <1>4, <2>3 DEF Leaves
  <2>5. ASSUME NEW i \in 1..n, ms[i].strategy # s PROVE \E k \in DOMAIN os : os[k] = ms[i]
    BY <1>2, <2>3, <2>5 DEF Leaves
  <2>6. ASSUME Distinct(ms) PROVE Distinct(os)
    <3>1. Distinct(ns) BY <2>6 DEF Leaves
    <3>2. ASSUME NEW k \in DOMAIN ns PROVE ns[k].strategy # ms[n].strategy
      <4>1. PICK i \in 1..(n - 1) : ns[k] = ms[i] BY DEF Leaves
      <4>2. i \in DOMAIN ms /\ n \in DOMAIN ms /\ i # n BY <1>1, <1>2
      <4>3. QED BY <2>6, <4>1, <4>2 DEF Distinct
    <3>3. QED BY <2>3, <3>1, <3>2 DEF Distinct
  <2>7. Leaves(os, ms, s, n) BY <2>3, <2>4, <2>5, <2>6 DEF Leaves
  <2>8. QED BY <1>4, <2>1, <2>7
<1>5. QED BY <1>3, <1>4

LEMMA WithoutLeaves ==
  ASSUME NEW ms \in Seq(Shared!Member), NEW s
  PROVE  Leaves(Shared!Without(ms, s), ms, s, Len(ms))
<1> DEFINE N == Len(ms)
           body(f) == [n \in 0..N |-> IF n = 0 THEN <<>>
                                      ELSE IF ms[n].strategy = s THEN f[n - 1] ELSE Append(f[n - 1], ms[n])]
<1>1. N \in Nat OBVIOUS
<1>2. \E f : f = body(f)
  <2>1. PICK f : Keeps(f, ms, s, N) BY <1>1, KeepsExist
  <2>2. PICK g : g = [n \in 0..N |-> f[n]] OBVIOUS
  <2>3. ASSUME NEW n \in 0..N PROVE g[n] = body(g)[n]
    <3>1. CASE n = 0 BY <1>1, <2>1, <2>2, <3>1 DEF Keeps
    <3>2. CASE n # 0
      <4>1. n \in 1..N /\ n - 1 \in 0..N BY <1>1, <3>2
      <4>2. g[n - 1] = f[n - 1] /\ g[n] = f[n] BY <2>2, <4>1
      <4>3. f[n] = IF ms[n].strategy = s THEN f[n - 1] ELSE Append(f[n - 1], ms[n])
        BY <2>1, <4>1 DEF Keeps
      <4>4. QED BY <3>2, <4>2, <4>3
    <3>3. QED BY <3>1, <3>2
  <2>4. g = body(g) BY <2>2, <2>3
  <2>5. QED BY <2>4
<1>3. Shared!Without(ms, s) = (CHOOSE f : f = body(f))[N]
  BY DEF Shared!Without
<1>4. PICK f : f = body(f) /\ Shared!Without(ms, s) = f[N]
  BY <1>2, <1>3
<1>5. /\ f[0] = <<>>
      /\ \A n \in 1..N : f[n] = IF ms[n].strategy = s THEN f[n - 1] ELSE Append(f[n - 1], ms[n])
  <2>1. \A n \in 0..N : f[n] = IF n = 0 THEN <<>>
                              ELSE IF ms[n].strategy = s THEN f[n - 1] ELSE Append(f[n - 1], ms[n])
    BY <1>4
  <2>2. 0 \in 0..N /\ \A n \in 1..N : n \in 0..N /\ n # 0 BY <1>1
  <2>3. QED BY <2>1, <2>2
<1> HIDE DEF body
<1> DEFINE B == {n \in 0..N : ~Leaves(f[n], ms, s, n)}
<1>6. ASSUME B # {} PROVE FALSE
  <2>1. PICK n \in B : \A m \in B : n <= m
    <3>1. B \in SUBSET Nat BY <1>1
    <3> HIDE DEF B
    <3>2. QED BY <1>6, <3>1, HasLeast
  <2>2. n \in 0..N /\ ~Leaves(f[n], ms, s, n) OBVIOUS
  <2>3. n # 0
    <3>1. Leaves(<<>>, ms, s, 0)
      <4>1. \A i \in 1..0 : FALSE OBVIOUS
      <4>2. QED BY <4>1 DEF Leaves, Distinct
    <3>2. QED BY <1>5, <2>2, <3>1
  <2>4. n \in 1..N /\ n - 1 \in 0..N /\ ~(n <= n - 1) BY <1>1, <2>2, <2>3
  <2>5. Leaves(f[n - 1], ms, s, n - 1) BY <2>1, <2>4
  <2>6. PICK ns : ns = f[n - 1] OBVIOUS
  <2>7. Leaves(IF ms[n].strategy = s THEN ns ELSE Append(ns, ms[n]), ms, s, n)
    BY <2>4, <2>5, <2>6, LeavesMore
  <2>8. f[n] = IF ms[n].strategy = s THEN ns ELSE Append(ns, ms[n])
    BY <1>5, <2>4, <2>6
  <2>9. QED BY <2>2, <2>7, <2>8
<1>7. N \in 0..N BY <1>1
<1>8. Leaves(f[N], ms, s, N) BY <1>6, <1>7
<1>9. QED BY <1>4, <1>8

-----------------------------------------------------------------------------
(* Weights of members                                                      *)

\* Each strategy is a member once, and the weights are within the limits.
MembersFit(ms, limits) ==
  /\ Distinct(ms)
  /\ \A i \in DOMAIN ms : ms[i].weight \in 1..limits.single
  /\ Shared!Total(Shared!WeightMap(ms)) <= limits.total

Limit == [total: Nat, single: Nat]

\* The weights there will be with member m, as add_member computes them.
With(ms, m) ==
  [s \in Shared!Ids(ms) \cup {m.strategy} |->
     IF s = m.strategy THEN m.weight ELSE Shared!WeightMap(ms)[s]]

LEMMA MembersFinite == IsFiniteSet(Members) /\ Members \subseteq Nat
BY MCParameters DEF Shared!Parameters, Shared!IsFiniteSet, IsFiniteSet

LEMMA IdsOf ==
  ASSUME NEW ms \in Seq(Shared!Member)
  PROVE  /\ Shared!Ids(ms) \in SUBSET Members /\ Shared!Ids(ms) \in SUBSET Nat
         /\ IsFiniteSet(Shared!Ids(ms))
         /\ \A i \in DOMAIN ms : ms[i] \in Shared!Member /\ ms[i].strategy \in Shared!Ids(ms)
         /\ \A s \in Shared!Ids(ms) : \E i \in DOMAIN ms : ms[i].strategy = s
<1>1. \A i \in DOMAIN ms : ms[i] \in Shared!Member OBVIOUS
<1>2. \A i \in DOMAIN ms : ms[i].strategy \in Members BY <1>1 DEF Shared!Member
<1>3. Shared!Ids(ms) \in SUBSET Members BY <1>2 DEF Shared!Ids
<1>4. IsFiniteSet(Shared!Ids(ms)) BY <1>3, MembersFinite, FS_Subset
<1>5. Shared!Ids(ms) \in SUBSET Nat BY <1>3, MembersFinite
<1>6. QED BY <1>1, <1>3, <1>4, <1>5 DEF Shared!Ids

LEMMA WeightsOf ==
  ASSUME NEW ms \in Seq(Shared!Member), Distinct(ms)
  PROVE  /\ DOMAIN Shared!WeightMap(ms) = Shared!Ids(ms)
         /\ Shared!WeightMap(ms) = [s \in Shared!Ids(ms) |-> Shared!WeightMap(ms)[s]]
         /\ \A i \in DOMAIN ms : Shared!WeightMap(ms)[ms[i].strategy] = ms[i].weight
         /\ \A s \in Shared!Ids(ms) : Shared!WeightMap(ms)[s] \in Nat
<1>1. /\ DOMAIN Shared!WeightMap(ms) = Shared!Ids(ms)
      /\ Shared!WeightMap(ms) = [s \in Shared!Ids(ms) |-> Shared!WeightMap(ms)[s]]
  BY DEF Shared!WeightMap
<1>2. \A i \in Int : Shared!Max({i}) = i BY DEF Shared!Max
<1>3. ASSUME NEW i \in DOMAIN ms PROVE Shared!WeightMap(ms)[ms[i].strategy] = ms[i].weight
  <2>1. {j \in DOMAIN ms : ms[j].strategy = ms[i].strategy} = {i} BY DEF Distinct
  <2>2. i \in Int OBVIOUS
  <2>3. ms[i].strategy \in Shared!Ids(ms) BY IdsOf
  <2>4. QED BY <1>2, <2>1, <2>2, <2>3 DEF Shared!WeightMap
<1>4. ASSUME NEW s \in Shared!Ids(ms) PROVE Shared!WeightMap(ms)[s] \in Nat
  <2>1. PICK i \in DOMAIN ms : ms[i].strategy = s BY IdsOf
  <2>2. ms[i] \in Shared!Member BY IdsOf
  <2>3. ms[i].weight \in Nat BY <2>2 DEF Shared!Member
  <2>4. QED BY <1>3, <2>1, <2>3
<1>5. QED BY <1>1, <1>3, <1>4

\* Weights that were found valid fit.
LEMMA ValidFits ==
  ASSUME NEW ms \in Seq(Shared!Member), Distinct(ms), NEW limits \in Limit,
         Shared!Valid(Shared!WeightMap(ms), limits)
  PROVE  MembersFit(ms, limits)
<1>1. ASSUME NEW i \in DOMAIN ms PROVE ms[i].weight \in 1..limits.single
  <2>1. ms[i].strategy \in Shared!Ids(ms) /\ ms[i] \in Shared!Member BY IdsOf
  <2>2. ms[i].weight \in Nat BY <2>1 DEF Shared!Member
  <2>3. ms[i].weight > 0 /\ ms[i].weight <= limits.single BY <2>1, WeightsOf DEF Shared!Valid
  <2>4. limits.single \in Nat BY DEF Limit
  <2>5. QED BY <2>2, <2>3, <2>4
<1>2. QED BY <1>1 DEF MembersFit, Shared!Valid

\* Members whose weights are set are members.
LEMMA ReweighedMembers ==
  ASSUME NEW ms \in Seq(Shared!Member), NEW its, NEW w \in Nat
  PROVE  Shared!Reweighed(ms, its, w) \in Seq(Shared!Member)
<1>1. DOMAIN ms = 1..Len(ms) /\ Len(ms) \in Nat OBVIOUS
<1>2. ASSUME NEW i \in DOMAIN ms PROVE [ms[i] EXCEPT !.weight = w] \in Shared!Member /\ ms[i] \in Shared!Member
  <2>1. ms[i] \in Shared!Member OBVIOUS
  <2>2. QED BY <2>1 DEF Shared!Member
<1>3. Shared!Reweighed(ms, its, w) \in [1..Len(ms) -> Shared!Member] BY <1>1, <1>2 DEF Shared!Reweighed
<1>4. QED BY <1>1, <1>3

LEMMA PlacedWeights ==
  ASSUME NEW ms \in Seq(Shared!Member), Distinct(ms), NEW m \in Shared!Member,
         NEW i \in DOMAIN ms, ms[i].strategy = m.strategy, NEW ns, ns = Shared!Reweighed(ms, ms[i], m.weight)
  PROVE  /\ ns \in Seq(Shared!Member) /\ Distinct(ns)
         /\ Shared!WeightMap(ns) = With(ms, m)
<1>0. ms[i] \in Shared!Member /\ m.weight \in Nat BY IdsOf DEF Shared!Member
<1>1. ns \in Seq(Shared!Member) BY <1>0, ReweighedMembers
<1>2. /\ DOMAIN ns = DOMAIN ms /\ ns[i] = [ms[i] EXCEPT !.weight = m.weight]
      /\ \A j \in DOMAIN ms : j # i => ns[j] = ms[j]
  BY DEF Shared!Reweighed, Distinct
<1>a. ns[i].strategy = m.strategy /\ ns[i].weight = m.weight BY <1>0, <1>2 DEF Shared!Member
<1>3. \A j \in DOMAIN ms : ns[j].strategy = ms[j].strategy BY <1>2, <1>a
<1>4. Distinct(ns) BY <1>2, <1>3 DEF Distinct
<1>5. Shared!Ids(ns) = Shared!Ids(ms) BY <1>2, <1>3 DEF Shared!Ids
<1>6. m.strategy \in Shared!Ids(ms) BY IdsOf
<1>7. ASSUME NEW s \in Shared!Ids(ms) PROVE Shared!WeightMap(ns)[s] = With(ms, m)[s]
  <2>1. PICK j \in DOMAIN ms : ms[j].strategy = s BY IdsOf
  <2>2. Shared!WeightMap(ns)[s] = ns[j].weight BY <1>1, <1>2, <1>3, <1>4, <2>1, WeightsOf
  <2>3. Shared!WeightMap(ms)[s] = ms[j].weight BY <2>1, WeightsOf
  <2>4. CASE j = i BY <1>a, <2>1, <2>2, <2>4 DEF With
  <2>5. CASE j # i
    <3>1. s # m.strategy BY <2>1, <2>5 DEF Distinct
    <3>2. QED BY <1>2, <2>2, <2>3, <2>5, <3>1 DEF With
  <2>6. QED BY <2>4, <2>5
<1>8. Shared!WeightMap(ns) = [s \in Shared!Ids(ms) |-> Shared!WeightMap(ns)[s]]
  BY <1>1, <1>4, <1>5, WeightsOf
<1>9. With(ms, m) = [s \in Shared!Ids(ms) |-> With(ms, m)[s]]
  <2>1. Shared!Ids(ms) \cup {m.strategy} = Shared!Ids(ms) BY <1>6
  <2>2. QED BY <2>1 DEF With
<1>10. QED BY <1>1, <1>4, <1>7, <1>8, <1>9

LEMMA AppendedWeights ==
  ASSUME NEW ms \in Seq(Shared!Member), Distinct(ms), NEW m \in Shared!Member,
         \A i \in DOMAIN ms : ms[i].strategy # m.strategy, NEW ns, ns = Append(ms, m)
  PROVE  /\ ns \in Seq(Shared!Member) /\ Distinct(ns)
         /\ Shared!WeightMap(ns) = With(ms, m)
<1>0. PICK e : e = Len(ms) + 1 OBVIOUS
<1>1. /\ ns \in Seq(Shared!Member) /\ DOMAIN ns = DOMAIN ms \cup {e} /\ e \notin DOMAIN ms
      /\ ns[e] = m /\ \A i \in DOMAIN ms : ns[i] = ms[i]
  BY <1>0, ListGrows
<1>2. Distinct(ns) BY <1>1 DEF Distinct
<1>3. Shared!Ids(ns) = Shared!Ids(ms) \cup {m.strategy} BY <1>1 DEF Shared!Ids
<1>w. \A i \in DOMAIN ns : Shared!WeightMap(ns)[ns[i].strategy] = ns[i].weight
  <2>1. ns \in Seq(Shared!Member) /\ Distinct(ns) BY <1>1, <1>2
  <2>2. QED BY <2>1, WeightsOf
<1>4. ASSUME NEW s \in Shared!Ids(ns) PROVE Shared!WeightMap(ns)[s] = With(ms, m)[s]
  <2>1. CASE s = m.strategy
    <3>1. Shared!WeightMap(ns)[s] = m.weight
      <4>1. e \in DOMAIN ns /\ ns[e] = m BY <1>1
      <4>2. QED BY <1>w, <2>1, <4>1
    <3>2. QED BY <1>3, <2>1, <3>1 DEF With
  <2>2. CASE s # m.strategy
    <3>1. s \in Shared!Ids(ms) BY <1>3, <2>2
    <3>2. PICK j \in DOMAIN ms : ms[j].strategy = s BY <3>1, IdsOf
    <3>3. Shared!WeightMap(ns)[s] = ms[j].weight
      <4>1. j \in DOMAIN ns /\ ns[j] = ms[j] BY <1>1
      <4>2. QED BY <1>w, <3>2, <4>1
    <3>4. Shared!WeightMap(ms)[s] = ms[j].weight BY <3>2, WeightsOf
    <3>5. QED BY <1>3, <2>2, <3>1, <3>3, <3>4 DEF With
  <2>3. QED BY <2>1, <2>2
<1>5. Shared!WeightMap(ns) = [s \in Shared!Ids(ns) |-> Shared!WeightMap(ns)[s]]
  BY <1>1, <1>2, WeightsOf
<1>6. With(ms, m) = [s \in Shared!Ids(ns) |-> With(ms, m)[s]]
  BY <1>3 DEF With
<1>7. QED BY <1>1, <1>2, <1>4, <1>5, <1>6

\* The total of the weights of a list is the sum of its map.
LEMMA WeightSum ==
  ASSUME NEW ms \in Seq(Shared!Member), Distinct(ms)
  PROVE  Shared!Total(Shared!WeightMap(ms)) = Sum(Shared!WeightMap(ms), Shared!Ids(ms))
<1>1. PICK w : w = Shared!WeightMap(ms) OBVIOUS
<1>2. DOMAIN w = Shared!Ids(ms) /\ \A s \in Shared!Ids(ms) : w[s] \in Nat BY <1>1, WeightsOf
<1>3. Whole(w, DOMAIN w) BY <1>2 DEF Whole
<1>4. IsFiniteSet(DOMAIN w) BY <1>2, IdsOf
<1>5. Shared!Total(w) = Sum(w, DOMAIN w) BY <1>3, <1>4, TotalIsSum
<1>6. QED BY <1>1, <1>2, <1>5

\* A list that fits still does without one of its members.
LEMMA WithoutFits ==
  ASSUME NEW ms \in Seq(Shared!Member), NEW limits \in Limit, MembersFit(ms, limits), NEW s
  PROVE  Shared!Without(ms, s) \in Seq(Shared!Member) /\ MembersFit(Shared!Without(ms, s), limits)
<1>1. PICK ns : ns = Shared!Without(ms, s) OBVIOUS
<1>2. Leaves(ns, ms, s, Len(ms)) BY <1>1, WithoutLeaves
<1>3. DOMAIN ms = 1..Len(ms) OBVIOUS
<1>4. ns \in Seq(Shared!Member) /\ Distinct(ms) /\ Distinct(ns) BY <1>2 DEF Leaves, MembersFit
<1>5. \A k \in DOMAIN ns : \E i \in DOMAIN ms : ns[k] = ms[i] BY <1>2, <1>3 DEF Leaves
<1>6. \A k \in DOMAIN ns : ns[k].weight \in 1..limits.single BY <1>5 DEF MembersFit
<1>7. Shared!Ids(ns) \in SUBSET Shared!Ids(ms) BY <1>5 DEF Shared!Ids
<1>8. PICK w, v : w = Shared!WeightMap(ms) /\ v = Shared!WeightMap(ns) OBVIOUS
<1>9. \A x \in Shared!Ids(ms) : w[x] \in Nat BY <1>4, <1>8, WeightsOf
<1>10. ASSUME NEW x \in Shared!Ids(ns) PROVE v[x] = w[x]
  <2>1. PICK k \in DOMAIN ns : ns[k].strategy = x BY <1>4, IdsOf
  <2>2. PICK i \in DOMAIN ms : ns[k] = ms[i] BY <1>5
  <2>3. v[x] = ns[k].weight BY <1>4, <1>8, <2>1, WeightsOf
  <2>4. w[x] = ms[i].weight BY <1>4, <1>8, <2>1, <2>2, WeightsOf
  <2>5. QED BY <2>2, <2>3, <2>4
<1>11. IsFiniteSet(Shared!Ids(ms)) /\ IsFiniteSet(Shared!Ids(ns)) BY <1>4, IdsOf
<1>12. Sum(v, Shared!Ids(ns)) = Sum(w, Shared!Ids(ns))
  <2>1. Same(v, w, Shared!Ids(ns)) BY <1>10 DEF Same
  <2>2. \A x \in Shared!Ids(ns) : w[x] \in Int BY <1>7, <1>9
  <2>3. QED BY <1>11, <2>1, <2>2, SumSame
<1>13. /\ Sum(w, Shared!Ids(ns)) \in Nat /\ Sum(w, Shared!Ids(ms)) \in Nat
       /\ Sum(w, Shared!Ids(ns)) <= Sum(w, Shared!Ids(ms))
  BY <1>7, <1>9, <1>11, SumPart
<1>14. Sum(w, Shared!Ids(ms)) <= limits.total BY <1>4, <1>8, WeightSum DEF MembersFit
<1>15. limits.total \in Nat BY DEF Limit
<1>16. Shared!Total(Shared!WeightMap(ns)) <= limits.total
  BY <1>4, <1>8, <1>12, <1>13, <1>14, <1>15, WeightSum
<1>17. QED BY <1>1, <1>4, <1>6, <1>16 DEF MembersFit

\* So does an empty list.
LEMMA EmptyFits ==
  ASSUME NEW limits \in Limit
  PROVE  <<>> \in Seq(Shared!Member) /\ MembersFit(<<>>, limits)
<1>1. PICK ms : ms = <<>> OBVIOUS
<1>2. ms \in Seq(Shared!Member) /\ DOMAIN ms = {} BY <1>1
<1>3. Distinct(ms) /\ Shared!Ids(ms) = {} BY <1>2 DEF Distinct, Shared!Ids
<1>4. Shared!Total(Shared!WeightMap(ms)) = 0 BY <1>2, <1>3, WeightSum, SumEmpty
<1>5. limits.total \in Nat BY DEF Limit
<1>6. MembersFit(ms, limits) BY <1>2, <1>3, <1>4, <1>5 DEF MembersFit
<1>7. QED BY <1>1, <1>2, <1>6

-----------------------------------------------------------------------------
(* Portfolios                                                              *)

\* A request of whatever kind, its body fit for the step it is at.
Held ==
  [at: Shared!Places, of: PortfolioIds \cup {NoPortfolio},
   member: [strategy: Members \cup {Shared!Min(Members)}, weight: Nat, nth: Nat],
   limits: Limits \cup {Shared!Idle.limits}, members: Seq(Shared!Member), changed: BOOLEAN]

Bodied(q) ==
  /\ q \in Held
  /\ q.at \in {"check", "place", "append"} => q.member \in Shared!Member
  /\ q.at \in {"weigh", "constrain"} => q.limits \in Limits

\* What a request has found out about its portfolio still holds.
Ready(q, portfolio) ==
  /\ q.at \in {"place", "append"} => Shared!Valid(With(portfolio.members, q.member), portfolio.limits)
  /\ q.at = "append" => \A i \in DOMAIN portfolio.members :
       portfolio.members[i].strategy # q.member.strategy
  /\ q.at = "replace" => MembersFit(q.members, portfolio.limits)
  /\ q.at = "constrain" => Shared!Valid(Shared!WeightMap(portfolio.members), q.limits)

Busy(t) == worker[t].at # "idle"

SharedTypes ==
  /\ object \in [PortfolioIds -> Shared!Portfolio \cup {NoPortfolio}]
  /\ listed \in SUBSET {p \in PortfolioIds : object[p] # NoPortfolio}
  /\ worker \in [Threads -> Held]
  /\ \A t \in Threads : Bodied(worker[t])
  /\ \A t \in Threads : Busy(t) => worker[t].of \in PortfolioIds /\ object[worker[t].of] # NoPortfolio
  /\ plan # NoPlan => /\ plan.of \in PortfolioIds /\ object[plan.of] # NoPortfolio
                      /\ plan.version \in Nat

\* A rebalance result fits a portfolio.
PlanFor(now) ==
  LET each == (now.limits.single * plan.scale) * Cardinality(Shared!Ids(now.members))
      all  == now.limits.total * plan.scale IN
  /\ plan.scale \in Nat /\ DOMAIN plan.target \subseteq Shared!Ids(now.members)
  /\ \A s \in DOMAIN plan.target : plan.target[s] \in 1..(now.limits.single * plan.scale)
  /\ Shared!Total(plan.target) <= all
  /\ plan.auto => Shared!Total(plan.target) = Less(each, all)

PlanFits ==
  plan # NoPlan /\ plan.of \in listed =>
    /\ plan.version <= object[plan.of].version
    /\ object[plan.of].version = plan.version /\ ~Unsettled(plan.of) => PlanFor(object[plan.of])

\* While no two requests hold one portfolio, the portfolio in hand is in the
\* dictionary, what its request found still holds, members and plan fit.
SharedSerial ==
  /\ \A t \in Threads : \A u \in Threads \ {t} : Busy(t) /\ Busy(u) => worker[t].of # worker[u].of
  /\ \A t \in Threads : Busy(t) => worker[t].of \in listed /\ Ready(worker[t], object[worker[t].of])
  /\ \A p \in PortfolioIds : object[p] # NoPortfolio => MembersFit(object[p].members, object[p].limits)
  /\ PlanFits

SharedInv == SharedTypes /\ (~overlap => SharedSerial)

\* How overlap goes on, and what a step of the portfolios is.
Shares == overlap' = (overlap \/ \E t \in Threads : \E u \in Threads \ {t} :
                        worker'[t].of = worker'[u].of /\ worker'[t].of # NoPortfolio)

LEMMA Constants ==
  /\ NoPortfolio \notin PortfolioIds /\ NoPortfolio \notin Shared!Portfolio
  /\ Limits \subseteq Limit /\ Weights \subseteq Nat /\ Scores \subseteq Nat
  /\ Targets \subseteq UNION {[S -> Weights] : S \in (SUBSET Members) \ {{}}}
<1>1. Shared!Parameters BY MCParameters
<1>2. \A l \in Limits : l \in Limit
  <2> TAKE l \in Limits
  <2>1. l \in [total: Nat \ {0}, single: Nat \ {0}] BY <1>1 DEF Shared!Parameters
  <2>2. QED BY <2>1 DEF Limit
<1>3. QED BY <1>1, <1>2 DEF Shared!Parameters

LEMMA IdleBodied == Bodied(Shared!Idle) /\ Shared!Idle.at = "idle" /\ Shared!Idle.of = NoPortfolio
<1>1. <<>> \in Seq(Shared!Member) OBVIOUS
<1>2. Shared!Idle \in Held
  BY <1>1 DEF Shared!Idle, Held, Shared!Places
<1>3. QED BY <1>2 DEF Bodied, Shared!Idle

\* Requests that share nothing after a step shared nothing before.
LEMMA SharesTells ==
  ASSUME SharedTypes', Shares, ~overlap'
  PROVE  /\ ~overlap
         /\ \A t \in Threads : \A u \in Threads \ {t} : Busy(t)' /\ Busy(u)' => worker'[t].of # worker'[u].of
<1>1. /\ ~overlap
      /\ \A t \in Threads : \A u \in Threads \ {t} :
           ~(worker'[t].of = worker'[u].of /\ worker'[t].of # NoPortfolio)
  BY DEF Shares
<1>2. ASSUME NEW t \in Threads, Busy(t)' PROVE worker'[t].of # NoPortfolio
  BY <1>2, Constants DEF SharedTypes
<1>3. QED BY <1>1, <1>2

\* The other requests stay as they are, but that those of portfolio p that have
\* picked members may see some change.
Others(t, p) ==
  \A u \in Threads \ {t} :
    \/ worker'[u] = worker[u]
    \/ /\ worker[u].at = "replace" /\ worker'[u].at = "replace"
       /\ worker[u].of = p /\ worker'[u].of = p /\ Bodied(worker'[u])

\* A request goes on, with a portfolio that fits and may have changed: it has
\* yet to touch it, or just did.
LEMMA SharingStep ==
  ASSUME SharedInv, Shares, NEW t \in Threads, Busy(t), NEW p, p = worker[t].of,
         NEW q, Bodied(q), q.at # "idle" => q.of = p,
         NEW r \in Shared!Portfolio, ~overlap => MembersFit(r.members, r.limits) /\ Ready(q, r),
         object' = [object EXCEPT ![p] = r],
         worker' = [u \in Threads |-> worker'[u]], worker'[t] = q, Others(t, p),
         listed' = listed \/ listed' = listed \cup {p}, plan' = plan,
         r.version >= object[p].version,
         \/ q.at = "touch"
         \/ r = object[p] /\ worker[t].at # "touch"
         \/ r.version > object[p].version
  PROVE  SharedInv'
<1>1. /\ SharedTypes /\ p \in PortfolioIds /\ object[p] # NoPortfolio /\ object[p] \in Shared!Portfolio
  BY DEF SharedInv, SharedTypes
<1>2. /\ object'[p] = r /\ r # NoPortfolio
      /\ \A k \in PortfolioIds : k # p => object'[k] = object[k]
      /\ worker'[t] = q
      /\ \A u \in Threads : u # t /\ (worker[u].of # p \/ worker[u].at # "replace") => worker'[u] = worker[u]
      /\ \A u \in Threads : u # t => worker'[u].at = worker[u].at /\ worker'[u].of = worker[u].of
  BY <1>1, Constants DEF SharedTypes, Others
<1>3. SharedTypes'
  <2>1. object' \in [PortfolioIds -> Shared!Portfolio \cup {NoPortfolio}] BY <1>1 DEF SharedTypes
  <2>2. \A k \in PortfolioIds : object[k] # NoPortfolio => object'[k] # NoPortfolio BY <1>2
  <2>3. listed' \in SUBSET {k \in PortfolioIds : object'[k] # NoPortfolio}
    BY <1>1, <2>2 DEF SharedTypes
  <2>4. \A u \in Threads : Bodied(worker'[u]) BY <1>1, <1>2 DEF SharedTypes, Others
  <2>5. worker' \in [Threads -> Held]
    <3>1. \A u \in Threads : worker'[u] \in Held BY <2>4 DEF Bodied
    <3>2. QED BY <3>1
  <2>6. \A u \in Threads : Busy(u)' => worker'[u].of \in PortfolioIds /\ object'[worker'[u].of] # NoPortfolio
    BY <1>1, <1>2, <2>2 DEF SharedTypes, Busy
  <2>7. plan' # NoPlan => /\ plan'.of \in PortfolioIds /\ object'[plan'.of] # NoPortfolio
                          /\ plan'.version \in Nat
    BY <1>1, <2>2 DEF SharedTypes
  <2>8. QED BY <2>1, <2>3, <2>4, <2>5, <2>6, <2>7 DEF SharedTypes, Bodied
<1>4. ASSUME ~overlap' PROVE SharedSerial'
  <2>1. /\ ~overlap
        /\ \A u \in Threads : \A v \in Threads \ {u} : Busy(u)' /\ Busy(v)' => worker'[u].of # worker'[v].of
    BY <1>3, <1>4, SharesTells
  <2>2. SharedSerial BY <2>1 DEF SharedInv
  <2>3. listed' = listed BY <2>2 DEF SharedSerial
  <2>4. \A u \in Threads : u # t /\ Busy(u) => worker[u].of # p
    BY <2>2 DEF SharedSerial
  <2>5. ASSUME NEW u \in Threads, Busy(u)'
        PROVE  worker'[u].of \in listed' /\ Ready(worker'[u], object'[worker'[u].of])
    <3>1. CASE u = t
      BY <1>2, <2>1, <2>2, <2>3, <2>5, <3>1 DEF SharedSerial, Busy
    <3>2. CASE u # t
      <4>0. Busy(u) BY <1>2, <2>5, <3>2 DEF Busy
      <4>2. worker[u].of # p /\ worker[u].of \in PortfolioIds BY <1>1, <2>4, <3>2, <4>0 DEF SharedTypes
      <4>1. Busy(u) /\ worker'[u] = worker[u] BY <1>2, <3>2, <4>0, <4>2
      <4>3. object'[worker[u].of] = object[worker[u].of] BY <1>2, <4>2
      <4>4. QED BY <2>2, <2>3, <4>1, <4>3 DEF SharedSerial
    <3>3. QED BY <3>1, <3>2
  <2>6. \A k \in PortfolioIds : object'[k] # NoPortfolio => MembersFit(object'[k].members, object'[k].limits)
    BY <1>2, <2>1, <2>2 DEF SharedSerial
  <2>7. PlanFits'
    <3> SUFFICES ASSUME plan # NoPlan, plan.of \in listed
                 PROVE  /\ plan.version <= object'[plan.of].version
                        /\ object'[plan.of].version = plan.version /\ ~Unsettled(plan.of)'
                             => PlanFor(object[plan.of])'
      BY <2>3 DEF PlanFits
    <3>1. /\ plan.version <= object[plan.of].version /\ plan.version \in Nat /\ plan.of \in PortfolioIds
          /\ object[plan.of].version = plan.version /\ ~Unsettled(plan.of) => PlanFor(object[plan.of])
      BY <1>1, <2>2 DEF SharedSerial, PlanFits, SharedTypes
    <3>2. CASE plan.of # p
      <4>1. object'[plan.of] = object[plan.of] BY <1>2, <3>1, <3>2
      <4>2. ~Unsettled(plan.of)' => ~Unsettled(plan.of)
        <5> SUFFICES ASSUME Unsettled(plan.of) PROVE Unsettled(plan.of)'
          OBVIOUS
        <5>1. PICK u \in Threads : worker[u].at = "touch" /\ worker[u].of = plan.of BY DEF Unsettled
        <5>2. u # t BY <3>2, <5>1
        <5>3. QED BY <1>2, <5>1, <5>2 DEF Unsettled
      <4>3. PlanFor(object[plan.of]) => PlanFor(object[plan.of])' BY <4>1 DEF PlanFor
      <4>4. QED BY <3>1, <4>1, <4>2, <4>3
    <3>3. CASE plan.of = p
      <4>0. object[p].version \in Nat /\ r.version \in Nat BY <1>1 DEF Shared!Portfolio
      <4>1. CASE q.at = "touch"
        <5>1. q.of = p BY <4>1
        <5>2. Unsettled(plan.of)' BY <1>2, <3>3, <4>1, <5>1 DEF Unsettled
        <5>3. QED BY <1>2, <3>1, <3>3, <4>0, <5>2
      <4>2. CASE r = object[p] /\ worker[t].at # "touch"
        <5>1. object'[plan.of] = object[plan.of] BY <1>2, <3>3, <4>2
        <5>2. Unsettled(plan.of) => Unsettled(plan.of)'
          <6> SUFFICES ASSUME Unsettled(plan.of) PROVE Unsettled(plan.of)'
            OBVIOUS
          <6>1. PICK u \in Threads : worker[u].at = "touch" /\ worker[u].of = plan.of BY DEF Unsettled
          <6>2. u # t BY <4>2, <6>1
          <6>3. QED BY <1>2, <6>1, <6>2 DEF Unsettled
        <5>3. PlanFor(object[plan.of]) => PlanFor(object[plan.of])' BY <5>1 DEF PlanFor
        <5>4. QED BY <3>1, <5>1, <5>2, <5>3
      <4>3. CASE r.version > object[p].version
        BY <1>2, <3>1, <3>3, <4>0, <4>3
      <4>4. QED BY <4>1, <4>2, <4>3
    <3>4. QED BY <3>2, <3>3
  <2>8. QED BY <2>1, <2>5, <2>6, <2>7 DEF SharedSerial
<1>5. QED BY <1>3, <1>4 DEF SharedInv

LEMMA WorkerStep ==
  ASSUME SharedInv, Shares, NEW t \in Threads, Busy(t), NEW p, p = worker[t].of,
         NEW q, Bodied(q), q.at # "idle" => q.of = p,
         NEW r \in Shared!Portfolio, ~overlap => MembersFit(r.members, r.limits) /\ Ready(q, r),
         object' = [object EXCEPT ![p] = r], worker' = [worker EXCEPT ![t] = q],
         listed' = listed \/ listed' = listed \cup {p}, plan' = plan,
         r.version >= object[p].version,
         \/ q.at = "touch"
         \/ r = object[p] /\ worker[t].at # "touch"
         \/ r.version > object[p].version
  PROVE  SharedInv'
<1>1. worker \in [Threads -> Held] BY DEF SharedInv, SharedTypes
<1>2. worker' = [u \in Threads |-> worker'[u]] /\ worker'[t] = q /\ Others(t, p)
  BY <1>1 DEF Others
<1>3. QED BY <1>2, SharingStep

\* What is known of the portfolio of a request.
LEMMA Working ==
  ASSUME SharedInv, NEW t \in Threads, Busy(t), NEW p, p = worker[t].of
  PROVE  /\ p \in PortfolioIds /\ object[p] \in Shared!Portfolio /\ object[p] # NoPortfolio
         /\ object[p].members \in Seq(Shared!Member) /\ object[p].version \in Nat
         /\ object[p].limits \in Limits /\ object[p].limits \in Limit
         /\ worker[t] \in Held /\ Bodied(worker[t])
         /\ object' = object => object' = [object EXCEPT ![p] = object[p]]
         /\ ~overlap => /\ p \in listed /\ MembersFit(object[p].members, object[p].limits)
                        /\ Distinct(object[p].members)
                        /\ Ready(worker[t], object[p])
<1>1. p \in PortfolioIds /\ object[p] \in Shared!Portfolio /\ object[p] # NoPortfolio
  BY DEF SharedInv, SharedTypes
<1>2. /\ object[p].members \in Seq(Shared!Member) /\ object[p].version \in Nat /\ object[p].limits \in Limits
  BY <1>1 DEF Shared!Portfolio
<1>3. object[p].limits \in Limit BY <1>2, Constants
<1>4. worker[t] \in Held /\ Bodied(worker[t]) BY DEF SharedInv, SharedTypes
<1>5. object' = object => object' = [object EXCEPT ![p] = object[p]]
  BY <1>1 DEF SharedInv, SharedTypes
<1>6. ~overlap => p \in listed /\ MembersFit(object[p].members, object[p].limits) /\ Ready(worker[t], object[p])
  BY <1>1 DEF SharedInv, SharedSerial
<1>7. ~overlap => Distinct(object[p].members) BY <1>6 DEF MembersFit
<1>8. QED BY <1>1, <1>2, <1>3, <1>4, <1>5, <1>6, <1>7

\* A request goes on, or ends, and changes no portfolio.
LEMMA WorkerGoes ==
  ASSUME SharedInv, Shares, NEW t \in Threads, Busy(t), worker[t].at # "touch",
         NEW q, Bodied(q), q.at # "idle" => q.of = worker[t].of,
         ~overlap => Ready(q, object[worker[t].of]),
         object' = object, worker' = [worker EXCEPT ![t] = q],
         listed' = listed \/ listed' = listed \cup {worker[t].of}, plan' = plan
  PROVE  SharedInv'
<1>1. PICK p : p = worker[t].of OBVIOUS
<1>2. PICK r : r = object[p] OBVIOUS
<1>3. /\ r \in Shared!Portfolio /\ r.version \in Nat /\ object' = [object EXCEPT ![p] = r]
      /\ ~overlap => MembersFit(r.members, r.limits)
  BY <1>1, <1>2, Working
<1>4. ~overlap => Ready(q, r) BY <1>1, <1>2
<1>5. r.version >= object[p].version BY <1>2, <1>3
<1>6. QED BY <1>1, <1>2, <1>3, <1>4, <1>5, WorkerStep

LEMMA WorkerEnds ==
  ASSUME SharedInv, Shares, NEW t \in Threads, Busy(t), worker[t].at # "touch",
         object' = object, worker' = [worker EXCEPT ![t] = Shared!Idle],
         listed' = listed \/ listed' = listed \cup {worker[t].of}, plan' = plan
  PROVE  SharedInv'
<1>1. PICK q : q = Shared!Idle OBVIOUS
<1>2. Bodied(q) /\ q.at = "idle" BY <1>1, IdleBodied
<1>3. Ready(q, object[worker[t].of]) BY <1>2 DEF Ready
<1>4. QED BY <1>1, <1>2, <1>3, WorkerGoes

LEMMA CheckMemberStep ==
  ASSUME SharedInv, Shares, NEW t \in Threads, Shared!CheckMember(t) PROVE SharedInv'
<1> DEFINE p == worker[t].of
           m == worker[t].member
           q == [worker[t] EXCEPT !.at = "place"]
<1>1. /\ Busy(t) /\ worker[t].at = "check" /\ object' = object /\ listed' = listed /\ plan' = plan
      /\ worker' = [worker EXCEPT ![t] =
           IF Shared!Valid(With(object[p].members, m), object[p].limits) THEN q ELSE Shared!Idle]
  BY DEF Shared!CheckMember, Shared!At, Shared!Goto, Shared!Mine, With, Busy
<1>2. CASE Shared!Valid(With(object[p].members, m), object[p].limits)
  <2>1. worker[t] \in Held /\ Bodied(worker[t]) BY <1>1, Working
  <2>2. q \in Held /\ q.at = "place" /\ q.of = p /\ q.member = m
    BY <2>1 DEF Held, Shared!Places
  <2>3. Bodied(q) BY <1>1, <2>1, <2>2 DEF Bodied
  <2>4. Ready(q, object[p]) BY <1>2, <2>2 DEF Ready
  <2>5. worker' = [worker EXCEPT ![t] = q] BY <1>1, <1>2
  <2> HIDE DEF q
  <2>6. QED BY <1>1, <2>2, <2>3, <2>4, <2>5, WorkerGoes
<1>3. CASE ~Shared!Valid(With(object[p].members, m), object[p].limits)
  <2>1. worker' = [worker EXCEPT ![t] = Shared!Idle] BY <1>1, <1>3
  <2>2. QED BY <1>1, <2>1, WorkerEnds
<1>4. QED BY <1>2, <1>3

LEMMA PlaceMemberStep ==
  ASSUME SharedInv, Shares, NEW t \in Threads, Shared!PlaceMember(t) PROVE SharedInv'
<1> DEFINE p == worker[t].of
           m == worker[t].member
           ms == object[p].members
           found == {i \in DOMAIN ms : ms[i].strategy = m.strategy}
           k == Shared!Min(found)
           append == [worker[t] EXCEPT !.at = "append"]
           save == [worker[t] EXCEPT !.at = "save"]
           touch == [worker[t] EXCEPT !.at = "touch"]
           ns == Shared!Reweighed(ms, ms[k], m.weight)
           seen(u) == [worker[u] EXCEPT !.members = Shared!Reweighed(@, ms[k], m.weight)]
<1>1. Busy(t) /\ worker[t].at = "place" /\ listed' = listed /\ plan' = plan
  BY DEF Shared!PlaceMember, Shared!At, Busy
<1>2. \/ found = {} /\ object' = object /\ worker' = [worker EXCEPT ![t] = append]
      \/ found # {} /\ object' = object /\ worker' = [worker EXCEPT ![t] = save]
      \/ /\ found # {} /\ object' = [object EXCEPT ![p].members = ns]
         /\ worker' = [u \in Threads |->
              IF u = t THEN touch
              ELSE IF worker[u].at = "replace" /\ worker[u].of = p THEN seen(u) ELSE worker[u]]
  BY DEF Shared!PlaceMember, Shared!Step, Shared!Goto, Shared!Mine, Shared!At
<1>3. /\ p \in PortfolioIds /\ object[p] \in Shared!Portfolio /\ ms \in Seq(Shared!Member)
      /\ object[p].version \in Nat /\ object[p].limits \in Limits /\ object[p].limits \in Limit
      /\ worker[t] \in Held /\ Bodied(worker[t])
      /\ ~overlap => Distinct(ms) /\ Ready(worker[t], object[p])
  BY <1>1, Working
<1>4. ~overlap => Shared!Valid(With(ms, m), object[p].limits) BY <1>1, <1>3 DEF Ready
<1>5. m \in Shared!Member BY <1>1, <1>3 DEF Bodied
<1>6. /\ append \in Held /\ append.at = "append" /\ append.of = p /\ append.member = m
      /\ save \in Held /\ save.at = "save" /\ save.of = p
      /\ touch \in Held /\ touch.at = "touch" /\ touch.of = p
  BY <1>3 DEF Held, Shared!Places
<1>7. Bodied(append) /\ Bodied(save) /\ Bodied(touch) BY <1>5, <1>6 DEF Bodied
<1> HIDE DEF append, save, touch, ns, seen
<1>8. CASE found = {} /\ object' = object /\ worker' = [worker EXCEPT ![t] = append]
  <2>1. \A i \in DOMAIN ms : ms[i].strategy # m.strategy BY <1>8
  <2>2. ~overlap => Ready(append, object[p]) BY <1>4, <1>6, <2>1 DEF Ready
  <2>3. QED BY <1>1, <1>6, <1>7, <1>8, <2>2, WorkerGoes
<1>9. CASE object' = object /\ worker' = [worker EXCEPT ![t] = save]
  <2>1. Ready(save, object[p]) BY <1>6 DEF Ready
  <2>2. QED BY <1>1, <1>6, <1>7, <1>9, <2>1, WorkerGoes
<1>10. CASE /\ found # {} /\ object' = [object EXCEPT ![p].members = ns]
            /\ worker' = [u \in Threads |->
                 IF u = t THEN touch
                 ELSE IF worker[u].at = "replace" /\ worker[u].of = p THEN seen(u) ELSE worker[u]]
  <2>1. k \in DOMAIN ms /\ ms[k].strategy = m.strategy
    <3>1. found \in SUBSET Nat BY <1>3
    <3>2. PICK x \in found : \A y \in found : x <= y BY <1>10, <3>1, HasLeast
    <3>3. k \in found BY <3>2 DEF Shared!Min
    <3>4. QED BY <3>3
  <2> DEFINE r == [object[p] EXCEPT !.members = ns]
  <2> HIDE DEF k
  <2>2. ns \in Seq(Shared!Member) /\ m.weight \in Nat
    <3>1. m.weight \in Nat BY <1>5 DEF Shared!Member
    <3>2. QED BY <1>3, <3>1, ReweighedMembers DEF ns
  <2>3. /\ r \in Shared!Portfolio /\ r.members = ns /\ r.limits = object[p].limits
        /\ r.version = object[p].version
    BY <1>3, <2>2 DEF Shared!Portfolio
  <2>4. object' = [object EXCEPT ![p] = r] BY <1>10
  <2>5. ASSUME ~overlap PROVE MembersFit(r.members, r.limits)
    <3>1. Distinct(ns) /\ Shared!WeightMap(ns) = With(ms, m)
      <4> HIDE DEF ms, m
      <4>1. Distinct(ms) BY <1>3, <2>5
      <4>2. ns = Shared!Reweighed(ms, ms[k], m.weight) BY DEF ns
      <4>3. QED BY <1>3, <1>5, <2>1, <4>1, <4>2, PlacedWeights
    <3>2. Shared!Valid(Shared!WeightMap(ns), object[p].limits) BY <1>4, <2>5, <3>1
    <3>3. QED BY <1>3, <2>2, <2>3, <3>1, <3>2, ValidFits
  <2>6. Ready(touch, r) BY <1>6 DEF Ready
  <2>7. r.version >= object[p].version BY <1>3, <2>3
  <2>8. Bodied(touch) /\ touch.at = "touch" /\ touch.of = p BY <1>6, <1>7
  <2>9. Others(t, p)
    <3> SUFFICES ASSUME NEW u \in Threads \ {t}, worker[u].at = "replace", worker[u].of = p
                 PROVE  worker'[u].at = "replace" /\ worker'[u].of = p /\ Bodied(worker'[u])
      BY <1>10 DEF Others
    <3>1. worker'[u] = seen(u) BY <1>10
    <3>2. worker[u] \in Held BY DEF SharedInv, SharedTypes
    <3>3. PICK ps : ps = Shared!Reweighed(worker[u].members, ms[k], m.weight) OBVIOUS
    <3>4. worker[u].members \in Seq(Shared!Member) BY <3>2 DEF Held
    <3>5. ps \in Seq(Shared!Member) BY <2>2, <3>3, <3>4, ReweighedMembers
    <3>6. seen(u) = [worker[u] EXCEPT !.members = ps] BY <3>3 DEF seen
    <3>7. seen(u) \in Held /\ seen(u).at = "replace" /\ seen(u).of = p BY <3>2, <3>5, <3>6 DEF Held
    <3>8. QED BY <3>1, <3>7 DEF Bodied
  <2>10. worker' = [u \in Threads |-> worker'[u]] /\ worker'[t] = touch BY <1>10
  <2> HIDE DEF r, p
  <2>11. p = worker[t].of BY DEF p
  <2>12. r \in Shared!Portfolio /\ (~overlap => MembersFit(r.members, r.limits) /\ Ready(touch, r))
    BY <2>3, <2>5, <2>6
  <2>13. QED BY <1>1, <2>4, <2>7, <2>8, <2>9, <2>10, <2>11, <2>12, SharingStep
<1>11. QED BY <1>2, <1>8, <1>9, <1>10

\* The number of a new object is a number.
LEMMA FreshNumbers == ASSUME NEW p, NEW s, NEW n \in Shared!Fresh(p, s) PROVE n \in Nat
<1>1. PICK used : n \in (0..Shared!Cardinality(used)) \ used BY DEF Shared!Fresh
<1>2. PICK c : n \in 0..c BY <1>1
<1>3. QED BY <1>2

LEMMA AppendMemberStep ==
  ASSUME SharedInv, Shares, NEW t \in Threads, Shared!AppendMember(t) PROVE SharedInv'
<1>1. PICK p : p = worker[t].of OBVIOUS
<1>2. PICK n \in Nat : object' = [object EXCEPT ![p].members = Append(@, [worker[t].member EXCEPT !.nth = n])]
  BY <1>1, FreshNumbers DEF Shared!AppendMember
<1>a. PICK w : w = worker[t].member OBVIOUS
<1>b. PICK m : m = [w EXCEPT !.nth = n] OBVIOUS
<1>3. PICK ms : ms = object[p].members OBVIOUS
<1>4. PICK ns : ns = Append(ms, m) OBVIOUS
<1>5. PICK r : r = [object[p] EXCEPT !.members = ns] OBVIOUS
<1>6. PICK q : q = [worker[t] EXCEPT !.at = "touch"] OBVIOUS
<1>7. /\ Busy(t) /\ worker[t].at = "append" /\ listed' = listed /\ plan' = plan
      /\ worker' = [worker EXCEPT ![t] = q]
  BY <1>6 DEF Shared!AppendMember, Shared!At, Shared!Step, Shared!Goto, Busy
<1>8. /\ p \in PortfolioIds /\ object[p] \in Shared!Portfolio /\ ms \in Seq(Shared!Member)
      /\ object[p].version \in Nat /\ object[p].limits \in Limit
      /\ worker[t] \in Held /\ Bodied(worker[t])
      /\ ~overlap => Distinct(ms) /\ Ready(worker[t], object[p])
  BY <1>1, <1>3, <1>7, Working
<1>9. object' = [object EXCEPT ![p] = r] BY <1>2, <1>a, <1>b, <1>3, <1>4, <1>5
<1>10. m \in Shared!Member /\ m.strategy = w.strategy /\ m.weight = w.weight
  <2>1. w \in Shared!Member BY <1>a, <1>7, <1>8 DEF Bodied
  <2>2. QED BY <1>b, <2>1 DEF Shared!Member
<1>11. q \in Held /\ q.at = "touch" /\ q.of = p /\ Bodied(q)
  <2>1. q \in Held /\ q.at = "touch" /\ q.of = p BY <1>1, <1>6, <1>8 DEF Held, Shared!Places
  <2>2. QED BY <2>1 DEF Bodied
<1>12. ns \in Seq(Shared!Member) BY <1>4, <1>8, <1>10
<1>13. /\ r \in Shared!Portfolio /\ r.members = ns /\ r.limits = object[p].limits
       /\ r.version = object[p].version
  BY <1>5, <1>8, <1>12 DEF Shared!Portfolio
<1>14. ASSUME ~overlap PROVE MembersFit(r.members, r.limits)
  <2>1. /\ Distinct(ms) /\ \A i \in DOMAIN ms : ms[i].strategy # w.strategy
        /\ Shared!Valid(With(ms, w), object[p].limits)
    BY <1>a, <1>3, <1>7, <1>8, <1>14 DEF Ready
  <2>2. With(ms, w) = With(ms, m) /\ \A i \in DOMAIN ms : ms[i].strategy # m.strategy
    BY <1>10, <2>1 DEF With
  <2>3. Distinct(ns) /\ Shared!WeightMap(ns) = With(ms, m)
    BY <1>4, <1>8, <1>10, <2>1, <2>2, AppendedWeights
  <2>4. Shared!Valid(Shared!WeightMap(ns), object[p].limits) BY <2>1, <2>2, <2>3
  <2>5. QED BY <1>8, <1>12, <1>13, <2>3, <2>4, ValidFits
<1>15. Ready(q, r) BY <1>11 DEF Ready
<1>16. r.version >= object[p].version BY <1>8, <1>13
<1>17. Busy(t) /\ listed' = listed /\ plan' = plan /\ worker' = [worker EXCEPT ![t] = q] BY <1>7
<1>18. r \in Shared!Portfolio /\ (~overlap => MembersFit(r.members, r.limits) /\ Ready(q, r))
  BY <1>13, <1>14, <1>15
<1>19. QED BY <1>1, <1>9, <1>11, <1>16, <1>17, <1>18, WorkerStep

LEMMA PickOthersStep ==
  ASSUME SharedInv, Shares, NEW t \in Threads, Shared!PickOthers(t) PROVE SharedInv'
<1>1. PICK p : p = worker[t].of OBVIOUS
<1>2. PICK ms : ms = object[p].members OBVIOUS
<1>3. PICK ns : ns = Shared!Without(ms, worker[t].member.strategy) OBVIOUS
<1>4. PICK q : q = [worker[t] EXCEPT !.at = "replace", !.members = ns] OBVIOUS
<1>5. /\ Busy(t) /\ worker[t].at = "pick" /\ object' = object /\ listed' = listed /\ plan' = plan
      /\ worker' = [worker EXCEPT ![t] = IF ns = ms THEN Shared!Idle ELSE q]
  BY <1>1, <1>2, <1>3, <1>4 DEF Shared!PickOthers, Shared!At, Shared!Goto, Shared!Mine, Busy
<1>6. /\ ms \in Seq(Shared!Member) /\ object[p].limits \in Limit
      /\ worker[t] \in Held /\ Bodied(worker[t])
      /\ ~overlap => MembersFit(ms, object[p].limits)
  BY <1>1, <1>2, <1>5, Working
<1>7. CASE ns = ms
  <2>1. worker' = [worker EXCEPT ![t] = Shared!Idle] BY <1>5, <1>7
  <2>2. QED BY <1>5, <2>1, WorkerEnds
<1>8. CASE ns # ms
  <2>1. ns \in Seq(Shared!Member) BY <1>3, <1>6, WithoutLeaves DEF Leaves
  <2>2. /\ q \in Held /\ q.at = "replace" /\ q.of = p /\ q.members = ns /\ q.limits = worker[t].limits
    BY <1>1, <1>4, <1>6, <2>1 DEF Held, Shared!Places
  <2>3. Bodied(q) BY <2>2 DEF Bodied
  <2>4. ~overlap => MembersFit(ns, object[p].limits) BY <1>3, <1>6, WithoutFits
  <2>5. ~overlap => Ready(q, object[p]) BY <2>2, <2>4 DEF Ready
  <2>6. worker' = [worker EXCEPT ![t] = q] BY <1>5, <1>8
  <2>7. QED BY <1>1, <1>5, <2>2, <2>3, <2>5, <2>6, WorkerGoes
<1>9. QED BY <1>7, <1>8

LEMMA ReplaceMembersStep ==
  ASSUME SharedInv, Shares, NEW t \in Threads, Shared!ReplaceMembers(t) PROVE SharedInv'
<1>1. PICK p : p = worker[t].of OBVIOUS
<1>2. PICK ns : ns = worker[t].members OBVIOUS
<1>3. PICK r : r = [object[p] EXCEPT !.members = ns] OBVIOUS
<1>4. PICK q : q = [worker[t] EXCEPT !.at = "touch"] OBVIOUS
<1>5. /\ Busy(t) /\ worker[t].at = "replace" /\ listed' = listed /\ plan' = plan
      /\ object' = [object EXCEPT ![p].members = ns] /\ worker' = [worker EXCEPT ![t] = q]
  BY <1>1, <1>2, <1>4 DEF Shared!ReplaceMembers, Shared!At, Shared!Step, Shared!Goto, Busy
<1>6. /\ object[p] \in Shared!Portfolio /\ object[p].version \in Nat
      /\ worker[t] \in Held /\ Bodied(worker[t])
      /\ ~overlap => Ready(worker[t], object[p])
  BY <1>1, <1>5, Working
<1>7. object' = [object EXCEPT ![p] = r] BY <1>3, <1>5
<1>8. q \in Held /\ q.at = "touch" /\ q.of = p /\ Bodied(q)
  <2>1. q \in Held /\ q.at = "touch" /\ q.of = p BY <1>1, <1>4, <1>6 DEF Held, Shared!Places
  <2>2. QED BY <2>1 DEF Bodied
<1>9. ns \in Seq(Shared!Member) BY <1>2, <1>6 DEF Held
<1>10. /\ r \in Shared!Portfolio /\ r.members = ns /\ r.limits = object[p].limits
       /\ r.version = object[p].version
  BY <1>3, <1>6, <1>9 DEF Shared!Portfolio
<1>11. ~overlap => MembersFit(r.members, r.limits)
  BY <1>2, <1>5, <1>6, <1>10 DEF Ready
<1>12. Ready(q, r) BY <1>8 DEF Ready
<1>13. r.version >= object[p].version BY <1>6, <1>10
<1>14. Busy(t) /\ listed' = listed /\ plan' = plan /\ worker' = [worker EXCEPT ![t] = q] BY <1>5
<1>15. r \in Shared!Portfolio /\ (~overlap => MembersFit(r.members, r.limits) /\ Ready(q, r))
  BY <1>10, <1>11, <1>12
<1>16. QED BY <1>1, <1>7, <1>8, <1>13, <1>14, <1>15, WorkerStep

LEMMA WeighMembersStep ==
  ASSUME SharedInv, Shares, NEW t \in Threads, Shared!WeighMembers(t) PROVE SharedInv'
<1>1. PICK p : p = worker[t].of OBVIOUS
<1>2. PICK q : q = [worker[t] EXCEPT !.at = "constrain"] OBVIOUS
<1>3. /\ Busy(t) /\ worker[t].at = "weigh" /\ object' = object /\ listed' = listed /\ plan' = plan
      /\ worker' = [worker EXCEPT ![t] =
           IF Shared!Valid(Shared!WeightMap(object[p].members), worker[t].limits) THEN q ELSE Shared!Idle]
  BY <1>1, <1>2 DEF Shared!WeighMembers, Shared!At, Shared!Goto, Shared!Mine, Busy
<1>4. worker[t] \in Held /\ Bodied(worker[t]) BY <1>3, Working
<1>5. CASE Shared!Valid(Shared!WeightMap(object[p].members), worker[t].limits)
  <2>1. q \in Held /\ q.at = "constrain" /\ q.of = p /\ q.limits = worker[t].limits
    BY <1>1, <1>2, <1>4 DEF Held, Shared!Places
  <2>2. Bodied(q) BY <1>3, <1>4, <2>1 DEF Bodied
  <2>3. Ready(q, object[p]) BY <1>5, <2>1 DEF Ready
  <2>4. worker' = [worker EXCEPT ![t] = q] BY <1>3, <1>5
  <2>5. QED BY <1>1, <1>3, <2>1, <2>2, <2>3, <2>4, WorkerGoes
<1>6. CASE ~Shared!Valid(Shared!WeightMap(object[p].members), worker[t].limits)
  <2>1. worker' = [worker EXCEPT ![t] = Shared!Idle] BY <1>3, <1>6
  <2>2. QED BY <1>3, <2>1, WorkerEnds
<1>7. QED BY <1>5, <1>6

LEMMA ConstrainStep ==
  ASSUME SharedInv, Shares, NEW t \in Threads, Shared!Constrain(t) PROVE SharedInv'
<1>1. PICK p : p = worker[t].of OBVIOUS
<1>2. PICK l : l = worker[t].limits OBVIOUS
<1>3. PICK r : r = [object[p] EXCEPT !.limits = l] OBVIOUS
<1>4. PICK place : place = IF worker[t].changed \/ l # object[p].limits THEN "touch" ELSE "save" OBVIOUS
<1>5. PICK q : q = [worker[t] EXCEPT !.at = place] OBVIOUS
<1>6. /\ Busy(t) /\ worker[t].at = "constrain" /\ listed' = listed /\ plan' = plan
      /\ object' = [object EXCEPT ![p].limits = l] /\ worker' = [worker EXCEPT ![t] = q]
  BY <1>1, <1>2, <1>4, <1>5
  DEF Shared!Constrain, Shared!At, Shared!Step, Shared!Goto, Shared!Mine, Busy
<1>7. /\ object[p] \in Shared!Portfolio /\ object[p].version \in Nat
      /\ object[p].members \in Seq(Shared!Member)
      /\ worker[t] \in Held /\ Bodied(worker[t])
      /\ ~overlap => Distinct(object[p].members) /\ Ready(worker[t], object[p])
  BY <1>1, <1>6, Working
<1>8. object' = [object EXCEPT ![p] = r] BY <1>3, <1>6
<1>9. l \in Limits /\ l \in Limit BY <1>2, <1>6, <1>7, Constants DEF Bodied
<1>10. q \in Held /\ q.at = place /\ q.of = p /\ Bodied(q) /\ place \in {"touch", "save"}
  <2>1. place \in {"touch", "save"} BY <1>4
  <2>2. q \in Held /\ q.at = place /\ q.of = p BY <1>1, <1>5, <1>7, <2>1 DEF Held, Shared!Places
  <2>3. QED BY <2>1, <2>2 DEF Bodied
<1>11. /\ r \in Shared!Portfolio /\ r.members = object[p].members /\ r.limits = l
       /\ r.version = object[p].version
  BY <1>3, <1>7, <1>9 DEF Shared!Portfolio
<1>12. ASSUME ~overlap PROVE MembersFit(r.members, r.limits)
  <2>1. Distinct(object[p].members) /\ Shared!Valid(Shared!WeightMap(object[p].members), l)
    BY <1>2, <1>6, <1>7, <1>12 DEF Ready
  <2>2. QED BY <1>7, <1>9, <1>11, <2>1, ValidFits
<1>13. Ready(q, r) BY <1>10 DEF Ready
<1>14. r.version >= object[p].version BY <1>7, <1>11
<1>15. q.at = "touch" \/ r = object[p]
  <2>1. CASE l = object[p].limits
    <3>1. r = object[p] BY <1>3, <1>7, <2>1 DEF Shared!Portfolio
    <3>2. QED BY <3>1
  <2>2. CASE l # object[p].limits BY <1>4, <1>10, <2>2
  <2>3. QED BY <2>1, <2>2
<1>16. worker[t].at # "touch" /\ q.at # "idle" BY <1>6, <1>10
<1>17. Busy(t) /\ listed' = listed /\ plan' = plan /\ worker' = [worker EXCEPT ![t] = q] BY <1>6
<1>18. r \in Shared!Portfolio /\ (~overlap => MembersFit(r.members, r.limits) /\ Ready(q, r))
  BY <1>11, <1>12, <1>13
<1>19. Bodied(q) /\ q.of = p BY <1>10
<1>20. QED BY <1>1, <1>8, <1>14, <1>15, <1>16, <1>17, <1>18, <1>19, WorkerStep

LEMMA TouchStep ==
  ASSUME SharedInv, Shares, NEW t \in Threads, Shared!Touch(t) PROVE SharedInv'
<1>1. PICK p : p = worker[t].of OBVIOUS
<1>2. PICK r : r = [object[p] EXCEPT !.version = @ + 1] OBVIOUS
<1>3. PICK q : q = [worker[t] EXCEPT !.at = "save"] OBVIOUS
<1>4. /\ Busy(t) /\ listed' = listed /\ plan' = plan
      /\ object' = [object EXCEPT ![p].version = @ + 1] /\ worker' = [worker EXCEPT ![t] = q]
  BY <1>1, <1>3 DEF Shared!Touch, Shared!At, Shared!Step, Shared!Goto, Busy
<1>5. /\ object[p] \in Shared!Portfolio /\ object[p].version \in Nat
      /\ worker[t] \in Held /\ Bodied(worker[t])
      /\ ~overlap => MembersFit(object[p].members, object[p].limits)
  BY <1>1, <1>4, Working
<1>6. object' = [object EXCEPT ![p] = r] BY <1>2, <1>4
<1>7. q \in Held /\ q.at = "save" /\ q.of = p /\ Bodied(q)
  <2>1. q \in Held /\ q.at = "save" /\ q.of = p BY <1>1, <1>3, <1>5 DEF Held, Shared!Places
  <2>2. QED BY <2>1 DEF Bodied
<1>8. /\ r \in Shared!Portfolio /\ r.members = object[p].members /\ r.limits = object[p].limits
      /\ r.version = object[p].version + 1
  BY <1>2, <1>5 DEF Shared!Portfolio
<1>9. ~overlap => MembersFit(r.members, r.limits) /\ Ready(q, r) BY <1>5, <1>7, <1>8 DEF Ready
<1>10. r.version > object[p].version /\ r.version >= object[p].version BY <1>5, <1>8
<1>11. QED BY <1>1, <1>4, <1>6, <1>7, <1>8, <1>9, <1>10, WorkerStep

LEMMA SaveStep ==
  ASSUME SharedInv, Shares, NEW t \in Threads, Shared!Save(t) PROVE SharedInv'
<1>1. /\ Busy(t) /\ worker[t].at # "touch" /\ object' = object /\ plan' = plan
      /\ listed' = listed \cup {worker[t].of} /\ worker' = [worker EXCEPT ![t] = Shared!Idle]
  BY DEF Shared!Save, Shared!At, Shared!Goto, Busy
<1>2. QED BY <1>1, WorkerEnds

\* Requests come and go, portfolios leave the dictionary; none changes.
LEMMA RequestsStep ==
  ASSUME SharedInv, Shares, object' = object, plan' = plan, listed' \in SUBSET listed,
         worker' \in [Threads -> Held], \A u \in Threads : Bodied(worker'[u]),
         \A u \in Threads : Busy(u)' => worker'[u].of \in PortfolioIds /\ object[worker'[u].of] # NoPortfolio,
         ~overlap /\ ~overlap' => \A u \in Threads : Busy(u)' =>
           worker'[u].of \in listed' /\ Ready(worker'[u], object[worker'[u].of]),
         \A p \in listed' : Unsettled(p) => Unsettled(p)'
  PROVE  SharedInv'
<1>1. SharedTypes'
  <2>1. SharedTypes BY DEF SharedInv
  <2>2. QED BY <2>1 DEF SharedTypes
<1>2. ASSUME ~overlap' PROVE SharedSerial'
  <2>1. /\ ~overlap
        /\ \A u \in Threads : \A v \in Threads \ {u} : Busy(u)' /\ Busy(v)' => worker'[u].of # worker'[v].of
    BY <1>1, <1>2, SharesTells
  <2>2. SharedSerial BY <2>1 DEF SharedInv
  <2>3. \A u \in Threads : Busy(u)' =>
           worker'[u].of \in listed' /\ Ready(worker'[u], object'[worker'[u].of])
    BY <1>2, <2>1
  <2>4. PlanFits'
    <3> SUFFICES ASSUME plan # NoPlan, plan.of \in listed'
                 PROVE  /\ plan.version <= object[plan.of].version
                        /\ object[plan.of].version = plan.version /\ ~Unsettled(plan.of)'
                             => PlanFor(object[plan.of])'
      BY DEF PlanFits
    <3>1. /\ plan.version <= object[plan.of].version
          /\ object[plan.of].version = plan.version /\ ~Unsettled(plan.of) => PlanFor(object[plan.of])
      BY <2>2 DEF SharedSerial, PlanFits
    <3>2. PlanFor(object[plan.of]) => PlanFor(object[plan.of])' BY DEF PlanFor
    <3>3. QED BY <3>1, <3>2
  <2>5. \A p \in PortfolioIds : object'[p] # NoPortfolio => MembersFit(object'[p].members, object'[p].limits)
    BY <2>2 DEF SharedSerial
  <2>6. QED BY <2>1, <2>3, <2>4, <2>5 DEF SharedSerial
<1>3. QED BY <1>1, <1>2 DEF SharedInv

\* Every body is fit for the step its request begins at.
LEMMA BodiesFit ==
  ASSUME NEW body \in Shared!Bodies, NEW p \in PortfolioIds, NEW q, q = [body EXCEPT !.of = p]
  PROVE  /\ Bodied(q) /\ q.of = p
         /\ q.at \in {"check", "pick", "weigh", "touch", "save", "delete", "plan"}
<1>1. Shared!Idle \in Held BY IdleBodied DEF Bodied
<1>2. CASE \E m \in [strategy: Members, weight: Weights, nth: {0}] :
             body = [Shared!Idle EXCEPT !.at = "check", !.member = m]
  <2>1. PICK m \in [strategy: Members, weight: Weights, nth: {0}] :
          body = [Shared!Idle EXCEPT !.at = "check", !.member = m] BY <1>2
  <2>2. m \in Shared!Member BY Constants DEF Shared!Member
  <2>3. m \in [strategy: Members \cup {Shared!Min(Members)}, weight: Nat, nth: Nat] BY <2>2 DEF Shared!Member
  <2>4. q \in Held /\ q.at = "check" /\ q.of = p /\ q.member = m
    BY <1>1, <2>1, <2>3 DEF Held, Shared!Places
  <2>5. QED BY <2>2, <2>4 DEF Bodied
<1>3. CASE \E s \in Members : body = [Shared!Idle EXCEPT !.at = "pick", !.member.strategy = s]
  <2>1. PICK s \in Members : body = [Shared!Idle EXCEPT !.at = "pick", !.member.strategy = s] BY <1>3
  <2>2. q \in Held /\ q.at = "pick" /\ q.of = p BY <1>1, <2>1 DEF Held, Shared!Places
  <2>3. QED BY <2>2 DEF Bodied
<1>4. CASE \E u \in [limits: Limits, changed: BOOLEAN] :
             body = [Shared!Idle EXCEPT !.at = "weigh", !.limits = u.limits, !.changed = u.changed]
  <2>1. PICK u \in [limits: Limits, changed: BOOLEAN] :
          body = [Shared!Idle EXCEPT !.at = "weigh", !.limits = u.limits, !.changed = u.changed] BY <1>4
  <2>2. q \in Held /\ q.at = "weigh" /\ q.of = p /\ q.limits = u.limits
    BY <1>1, <2>1 DEF Held, Shared!Places
  <2>3. QED BY <2>2 DEF Bodied
<1>5. CASE \E place \in {"touch", "save", "delete", "plan"} : body = [Shared!Idle EXCEPT !.at = place]
  <2>1. PICK place \in {"touch", "save", "delete", "plan"} : body = [Shared!Idle EXCEPT !.at = place]
    BY <1>5
  <2>2. q \in Held /\ q.at = place /\ q.of = p BY <1>1, <2>1 DEF Held, Shared!Places
  <2>3. QED BY <2>2 DEF Bodied
<1>6. \/ \E m \in [strategy: Members, weight: Weights, nth: {0}] :
           body = [Shared!Idle EXCEPT !.at = "check", !.member = m]
      \/ \E s \in Members : body = [Shared!Idle EXCEPT !.at = "pick", !.member.strategy = s]
      \/ \E u \in [limits: Limits, changed: BOOLEAN] :
           body = [Shared!Idle EXCEPT !.at = "weigh", !.limits = u.limits, !.changed = u.changed]
      \/ \E place \in {"touch", "save", "delete", "plan"} : body = [Shared!Idle EXCEPT !.at = place]
  BY Zenon DEF Shared!Bodies
<1>7. QED BY <1>2, <1>3, <1>4, <1>5, <1>6

LEMMA LoadStep ==
  ASSUME SharedInv, Shares, NEW t \in Threads, NEW p \in PortfolioIds, NEW body \in Shared!Bodies,
         Shared!Load(t, p, body)
  PROVE  SharedInv'
<1>1. PICK q : q = [body EXCEPT !.of = p] OBVIOUS
<1>2. /\ worker[t].at = "idle" /\ p \in listed /\ object' = object /\ listed' = listed /\ plan' = plan
      /\ worker' = [worker EXCEPT ![t] = q]
  BY <1>1 DEF Shared!Load, Shared!At, Shared!Goto
<1>3. /\ Bodied(q) /\ q.of = p /\ q \in Held
      /\ q.at \in {"check", "pick", "weigh", "touch", "save", "delete", "plan"}
  BY <1>1, BodiesFit DEF Bodied
<1>4. SharedTypes BY DEF SharedInv
<1>5. object[p] # NoPortfolio BY <1>2, <1>4 DEF SharedTypes
<1>6. worker'[t] = q /\ \A u \in Threads : u # t => worker'[u] = worker[u]
  BY <1>2, <1>4 DEF SharedTypes
<1>7. worker' \in [Threads -> Held] /\ \A u \in Threads : Bodied(worker'[u])
  BY <1>2, <1>3, <1>4, <1>6 DEF SharedTypes
<1>8. \A u \in Threads : Busy(u)' => worker'[u].of \in PortfolioIds /\ object[worker'[u].of] # NoPortfolio
  BY <1>3, <1>4, <1>5, <1>6 DEF SharedTypes, Busy
<1>9. ~overlap => \A u \in Threads : Busy(u)' =>
        worker'[u].of \in listed' /\ Ready(worker'[u], object[worker'[u].of])
  <2> SUFFICES ASSUME ~overlap, NEW u \in Threads, Busy(u)'
               PROVE  worker'[u].of \in listed' /\ Ready(worker'[u], object[worker'[u].of])
    OBVIOUS
  <2>1. CASE u = t
    <3>1. Ready(q, object[p]) BY <1>3 DEF Ready
    <3>2. QED BY <1>2, <1>3, <1>6, <2>1, <3>1
  <2>2. CASE u # t
    <3>1. worker'[u] = worker[u] /\ Busy(u) BY <1>6, <2>2 DEF Busy
    <3>2. QED BY <1>2, <3>1 DEF SharedInv, SharedSerial
  <2>3. QED BY <2>1, <2>2
<1>10. ASSUME NEW k \in listed', Unsettled(k) PROVE Unsettled(k)'
  <2>1. PICK u \in Threads : worker[u].at = "touch" /\ worker[u].of = k BY <1>10 DEF Unsettled
  <2>2. u # t BY <1>2, <2>1
  <2>3. QED BY <1>6, <2>1, <2>2 DEF Unsettled
<1>11. QED BY <1>2, <1>7, <1>8, <1>9, <1>10, RequestsStep

LEMMA DeletePortfolioStep ==
  ASSUME SharedInv, Shares, NEW t \in Threads, Shared!DeletePortfolio(t) PROVE SharedInv'
<1>1. PICK q : q = Shared!Idle OBVIOUS
<1>2. /\ worker[t].at = "delete" /\ object' = object /\ plan' = plan
      /\ listed' = listed \ {worker[t].of} /\ worker' = [worker EXCEPT ![t] = q]
  BY <1>1 DEF Shared!DeletePortfolio, Shared!At, Shared!Goto
<1>3. Bodied(q) /\ q \in Held /\ q.at = "idle" BY <1>1, IdleBodied DEF Bodied
<1>4. SharedTypes BY DEF SharedInv
<1>5. worker'[t] = q /\ \A u \in Threads : u # t => worker'[u] = worker[u]
  BY <1>2, <1>4 DEF SharedTypes
<1>6. worker' \in [Threads -> Held] /\ \A u \in Threads : Bodied(worker'[u])
  BY <1>2, <1>3, <1>4, <1>5 DEF SharedTypes
<1>7. \A u \in Threads : Busy(u)' => u # t /\ Busy(u) /\ worker'[u] = worker[u]
  BY <1>3, <1>5 DEF Busy
<1>8. \A u \in Threads : Busy(u)' => worker'[u].of \in PortfolioIds /\ object[worker'[u].of] # NoPortfolio
  BY <1>4, <1>7 DEF SharedTypes
<1>9. ASSUME ~overlap, NEW u \in Threads, Busy(u)'
      PROVE  worker'[u].of \in listed' /\ Ready(worker'[u], object[worker'[u].of])
  <2>1. SharedSerial BY <1>9 DEF SharedInv
  <2>2. Busy(t) /\ worker[u].of # worker[t].of BY <1>2, <1>7, <1>9, <2>1 DEF SharedSerial, Busy
  <2>3. worker[u].of \in listed /\ Ready(worker[u], object[worker[u].of])
    BY <1>7, <1>9, <2>1 DEF SharedSerial
  <2>4. QED BY <1>2, <1>7, <1>9, <2>2, <2>3
<1>10. ASSUME NEW k \in listed', Unsettled(k) PROVE Unsettled(k)'
  <2>1. PICK u \in Threads : worker[u].at = "touch" /\ worker[u].of = k BY <1>10 DEF Unsettled
  <2>2. u # t BY <1>2, <2>1
  <2>3. QED BY <1>5, <2>1, <2>2 DEF Unsettled
<1>11. listed' \in SUBSET listed BY <1>2
<1>12. QED BY <1>2, <1>6, <1>8, <1>9, <1>10, <1>11, RequestsStep

LEMMA SharedCrash ==
  ASSUME SharedInv, Shares, Shared!Crash PROVE SharedInv'
<1>1. PICK q : q = Shared!Idle OBVIOUS
<1>2. object' = object /\ plan' = plan /\ listed' = {} /\ worker' = [u \in Threads |-> q]
  BY <1>1 DEF Shared!Crash
<1>3. Bodied(q) /\ q \in Held /\ q.at = "idle" BY <1>1, IdleBodied DEF Bodied
<1>4. worker' \in [Threads -> Held] /\ \A u \in Threads : Bodied(worker'[u]) /\ ~Busy(u)'
  BY <1>2, <1>3 DEF Busy
<1>5. listed' \in SUBSET listed /\ \A k \in listed' : Unsettled(k) => Unsettled(k)' BY <1>2
<1>6. QED BY <1>2, <1>4, <1>5, RequestsStep

LEMMA CreatePortfolioStep ==
  ASSUME SharedInv, Shares, NEW p \in PortfolioIds, NEW limits \in Limits,
         Shared!CreatePortfolio(p, limits)
  PROVE  SharedInv'
<1>1. PICK r : r = [limits |-> limits, members |-> <<>>, version |-> 1] OBVIOUS
<1>2. /\ object[p] = NoPortfolio /\ object' = [object EXCEPT ![p] = r] /\ listed' = listed \cup {p}
      /\ plan' = plan /\ worker' = worker
  BY <1>1 DEF Shared!CreatePortfolio
<1>3. SharedTypes BY DEF SharedInv
<1>4. limits \in Limit BY Constants
<1>5. r \in Shared!Portfolio /\ r # NoPortfolio /\ MembersFit(r.members, r.limits)
  <2>1. <<>> \in Seq(Shared!Member) /\ MembersFit(<<>>, limits) BY <1>4, EmptyFits
  <2>2. r \in Shared!Portfolio BY <1>1, <2>1 DEF Shared!Portfolio
  <2>3. QED BY <1>1, <2>1, <2>2, Constants
<1>6. object'[p] = r /\ \A k \in PortfolioIds : k # p => object'[k] = object[k]
  BY <1>2, <1>3 DEF SharedTypes
<1>7. \A k \in PortfolioIds : object[k] # NoPortfolio => k # p /\ object'[k] = object[k]
  BY <1>2, <1>6
<1>8. SharedTypes'
  <2>1. object' \in [PortfolioIds -> Shared!Portfolio \cup {NoPortfolio}]
    BY <1>2, <1>3, <1>5 DEF SharedTypes
  <2>2. listed' \in SUBSET {k \in PortfolioIds : object'[k] # NoPortfolio}
    BY <1>2, <1>3, <1>5, <1>6, <1>7 DEF SharedTypes
  <2>3. \A u \in Threads : Busy(u)' => worker'[u].of \in PortfolioIds /\ object'[worker'[u].of] # NoPortfolio
    BY <1>2, <1>3, <1>7 DEF SharedTypes, Busy
  <2>4. plan' # NoPlan => /\ plan'.of \in PortfolioIds /\ object'[plan'.of] # NoPortfolio
                          /\ plan'.version \in Nat
    BY <1>2, <1>3, <1>7 DEF SharedTypes
  <2>5. worker' \in [Threads -> Held] /\ \A u \in Threads : Bodied(worker'[u])
    BY <1>2, <1>3 DEF SharedTypes
  <2>6. QED BY <2>1, <2>2, <2>3, <2>4, <2>5 DEF SharedTypes
<1>9. ASSUME ~overlap' PROVE SharedSerial'
  <2>1. /\ ~overlap
        /\ \A u \in Threads : \A v \in Threads \ {u} : Busy(u)' /\ Busy(v)' => worker'[u].of # worker'[v].of
    BY <1>8, <1>9, SharesTells
  <2>2. SharedSerial BY <2>1 DEF SharedInv
  <2>3. ASSUME NEW u \in Threads, Busy(u)'
        PROVE  worker'[u].of \in listed' /\ Ready(worker'[u], object'[worker'[u].of])
    <3>1. Busy(u) /\ worker'[u] = worker[u] BY <1>2, <2>3 DEF Busy
    <3>2. object'[worker[u].of] = object[worker[u].of] BY <1>3, <1>7, <3>1 DEF SharedTypes
    <3>3. worker[u].of \in listed /\ Ready(worker[u], object[worker[u].of])
      BY <2>2, <3>1 DEF SharedSerial
    <3>4. QED BY <1>2, <3>1, <3>2, <3>3
  <2>4. ASSUME NEW k \in PortfolioIds, object'[k] # NoPortfolio
        PROVE  MembersFit(object'[k].members, object'[k].limits)
    BY <1>5, <1>6, <2>2, <2>4 DEF SharedSerial
  <2>5. PlanFits'
    <3> SUFFICES ASSUME plan # NoPlan, plan.of \in listed'
                 PROVE  /\ plan.version <= object'[plan.of].version
                        /\ object'[plan.of].version = plan.version /\ ~Unsettled(plan.of)'
                             => PlanFor(object[plan.of])'
      BY <1>2 DEF PlanFits
    <3>1. plan.of # p /\ object'[plan.of] = object[plan.of] BY <1>3, <1>7 DEF SharedTypes
    <3>2. /\ plan.version <= object[plan.of].version
          /\ object[plan.of].version = plan.version /\ ~Unsettled(plan.of) => PlanFor(object[plan.of])
      BY <1>2, <2>2, <3>1 DEF SharedSerial, PlanFits
    <3>3. Unsettled(plan.of)' <=> Unsettled(plan.of) BY <1>2 DEF Unsettled
    <3>4. PlanFor(object[plan.of]) => PlanFor(object[plan.of])' BY <1>2, <3>1 DEF PlanFor
    <3>5. QED BY <3>1, <3>2, <3>3, <3>4
  <2>6. QED BY <2>1, <2>3, <2>4, <2>5 DEF SharedSerial
<1>10. QED BY <1>8, <1>9 DEF SharedInv

\* What a request names is whole, or what is made for it gives out all.
NamedOrScored(named, score) ==
  \/ DOMAIN named = {} /\ score \in [Members -> Scores]
  \/ DOMAIN named # {} /\ Whole(named, DOMAIN named)

LEMMA RebalanceStep ==
  ASSUME SharedInv, Shares, NEW t \in Threads, NEW named, NEW score, NamedOrScored(named, score),
         Shared!Rebalance(t, named, score)
  PROVE  SharedInv'
<1>1. PICK p : p = worker[t].of OBVIOUS
<1>2. PICK S : S = Shared!Ids(object[p].members) OBVIOUS
<1>3. PICK limits : limits = object[p].limits OBVIOUS
<1>4. PICK auto : auto = Shared!AutoTargets(S, limits, score) OBVIOUS
<1>5. PICK made : made = IF DOMAIN named = {} THEN auto ELSE [scale |-> 1, target |-> named] OBVIOUS
<1>6. /\ worker[t].at = "plan" /\ object' = object /\ listed' = listed
      /\ worker' = [worker EXCEPT ![t] = Shared!Idle]
  BY DEF Shared!Rebalance, Shared!At, Shared!Goto
<1>7. \/ plan' = plan
      \/ /\ p \in listed /\ DOMAIN made.target \in SUBSET S
         /\ Shared!Valid(made.target, [total |-> limits.total * made.scale,
                                       single |-> limits.single * made.scale])
         /\ plan' = [of |-> p, version |-> object[p].version, auto |-> DOMAIN named = {},
                     scale |-> made.scale, target |-> made.target]
  BY <1>1, <1>2, <1>3, <1>4, <1>5 DEF Shared!Rebalance, Shared!Mine
<1>8. Busy(t) /\ worker[t].at # "touch" BY <1>6 DEF Busy
<1>9. CASE plan' = plan BY <1>6, <1>8, <1>9, WorkerEnds
<1>10. CASE /\ p \in listed /\ DOMAIN made.target \in SUBSET S
            /\ Shared!Valid(made.target, [total |-> limits.total * made.scale,
                                          single |-> limits.single * made.scale])
            /\ plan' = [of |-> p, version |-> object[p].version, auto |-> DOMAIN named = {},
                        scale |-> made.scale, target |-> made.target]
  <2>1. /\ p \in PortfolioIds /\ object[p] # NoPortfolio /\ object[p].members \in Seq(Shared!Member)
        /\ object[p].version \in Nat /\ limits \in Limit
    BY <1>1, <1>3, <1>8, Working
  <2>2. SharedTypes BY DEF SharedInv
  <2>3. PICK q : q = Shared!Idle OBVIOUS
  <2>4. Bodied(q) /\ q \in Held /\ q.at = "idle" BY <2>3, IdleBodied DEF Bodied
  <2>5. worker'[t] = q /\ \A u \in Threads : u # t => worker'[u] = worker[u]
    BY <1>6, <2>2, <2>3 DEF SharedTypes
  <2>6. \A u \in Threads : Busy(u)' => Busy(u) /\ worker'[u] = worker[u] BY <2>4, <2>5 DEF Busy
  <2>7. SharedTypes'
    <3>1. worker' \in [Threads -> Held] /\ \A u \in Threads : Bodied(worker'[u])
      BY <1>6, <2>2, <2>3, <2>4, <2>5 DEF SharedTypes
    <3>2. plan'.of = p /\ plan'.version \in Nat BY <1>10, <2>1
    <3>3. QED BY <1>6, <2>1, <2>2, <2>6, <3>1, <3>2 DEF SharedTypes
  <2>8. S \in SUBSET Nat /\ IsFiniteSet(S) /\ S \in SUBSET Members BY <1>2, <2>1, IdsOf
  <2>9. limits \in [total: Nat, single: Nat] BY <2>1 DEF Limit
  <2>10. DOMAIN named = {} =>
           /\ made.scale \in Nat /\ Whole(made.target, DOMAIN made.target)
           /\ Shared!Total(made.target) =
                Less((limits.single * made.scale) * Cardinality(S), limits.total * made.scale)
    <3>1. DOMAIN named = {} => \A s \in S : score[s] \in Nat
      BY <2>8, Constants DEF NamedOrScored
    <3>2. DOMAIN named = {} =>
            /\ auto.scale \in Nat /\ DOMAIN auto.target = S /\ Whole(auto.target, S)
            /\ Shared!Total(auto.target) =
                 Less((limits.single * auto.scale) * Cardinality(S), limits.total * auto.scale)
      BY <1>4, <2>8, <2>9, <3>1, AutoGives
    <3>3. QED BY <1>5, <3>2
  <2>11. DOMAIN named # {} => made.scale \in Nat /\ Whole(made.target, DOMAIN made.target)
    BY <1>5 DEF NamedOrScored
  <2>12. PICK each, all : each = limits.single * made.scale /\ all = limits.total * made.scale OBVIOUS
  <2>13. made.scale \in Nat /\ each \in Nat /\ all \in Nat
    <3>1. made.scale \in Nat BY <2>10, <2>11
    <3>2. limits.single \in Nat /\ limits.total \in Nat BY <2>9
    <3>3. QED BY <2>12, <3>1, <3>2
  <2>14. /\ \A s \in DOMAIN made.target : made.target[s] > 0 /\ made.target[s] <= each
         /\ Shared!Total(made.target) <= all
    <3>1. Shared!Valid(made.target, [total |-> all, single |-> each]) BY <1>10, <2>12
    <3>2. QED BY <3>1 DEF Shared!Valid
  <2>15. \A s \in DOMAIN made.target : made.target[s] \in 1..each
    <3>1. \A s \in DOMAIN made.target : made.target[s] \in Int BY <2>10, <2>11 DEF Whole
    <3>2. QED BY <2>13, <2>14, <3>1
  <2>16. PlanFor(object[p])'
    <3>1. /\ plan'.scale = made.scale /\ plan'.target = made.target
          /\ plan'.auto = (DOMAIN named = {}) /\ object'[p] = object[p]
      BY <1>6, <1>10
    <3>2. DOMAIN plan'.target \subseteq Shared!Ids(object'[p].members) BY <1>2, <1>10, <3>1
    <3>3. \A s \in DOMAIN plan'.target : plan'.target[s] \in 1..(object'[p].limits.single * plan'.scale)
      BY <1>3, <2>12, <2>15, <3>1
    <3>4. Shared!Total(plan'.target) <= object'[p].limits.total * plan'.scale
      BY <1>3, <2>12, <2>14, <3>1
    <3>5. plan'.auto => Shared!Total(plan'.target) =
            Less((object'[p].limits.single * plan'.scale) * Cardinality(Shared!Ids(object'[p].members)),
                 object'[p].limits.total * plan'.scale)
      BY <1>2, <1>3, <2>10, <3>1
    <3>6. plan'.scale \in Nat BY <2>13, <3>1
    <3>7. QED BY <3>2, <3>3, <3>4, <3>5, <3>6 DEF PlanFor
  <2>17. ASSUME ~overlap' PROVE SharedSerial'
    <3>1. /\ ~overlap
          /\ \A u \in Threads : \A v \in Threads \ {u} : Busy(u)' /\ Busy(v)' => worker'[u].of # worker'[v].of
      BY <2>7, <2>17, SharesTells
    <3>2. SharedSerial BY <3>1 DEF SharedInv
    <3>3. \A u \in Threads : Busy(u)' =>
            worker'[u].of \in listed' /\ Ready(worker'[u], object'[worker'[u].of])
      BY <1>6, <2>6, <3>2 DEF SharedSerial
    <3>4. \A k \in PortfolioIds : object'[k] # NoPortfolio => MembersFit(object'[k].members, object'[k].limits)
      BY <1>6, <3>2 DEF SharedSerial
    <3>5. PlanFits'
      <4>1. plan'.of = p /\ plan'.version = object'[p].version /\ object'[p].version \in Nat
        BY <1>6, <1>10, <2>1
      <4>2. plan'.version <= object'[p].version BY <4>1
      <4>3. QED BY <2>16, <4>1, <4>2 DEF PlanFits
    <3>6. QED BY <3>1, <3>3, <3>4, <3>5 DEF SharedSerial
  <2>18. QED BY <2>7, <2>17 DEF SharedInv
<1>11. QED BY <1>7, <1>9, <1>10

LEMMA StepsKeep ==
  ASSUME SharedInv, Shares, NEW t \in Threads, Shared!Steps(t) PROVE SharedInv'
<1>1. CASE Shared!CheckMember(t) BY <1>1, CheckMemberStep
<1>2. CASE Shared!PlaceMember(t) BY <1>2, PlaceMemberStep
<1>3. CASE Shared!AppendMember(t) BY <1>3, AppendMemberStep
<1>4. CASE Shared!PickOthers(t) BY <1>4, PickOthersStep
<1>5. CASE Shared!ReplaceMembers(t) BY <1>5, ReplaceMembersStep
<1>6. CASE Shared!WeighMembers(t) BY <1>6, WeighMembersStep
<1>7. CASE Shared!Constrain(t) BY <1>7, ConstrainStep
<1>8. CASE Shared!Touch(t) BY <1>8, TouchStep
<1>9. CASE Shared!Save(t) BY <1>9, SaveStep
<1>10. CASE Shared!DeletePortfolio(t) BY <1>10, DeletePortfolioStep
<1>11. ASSUME NEW score \in [Members -> Scores], Shared!Rebalance(t, [s \in {} |-> 0], score)
       PROVE  SharedInv'
  <2>1. PICK named : named = [s \in {} |-> 0] OBVIOUS
  <2>2. NamedOrScored(named, score) BY <2>1 DEF NamedOrScored
  <2>3. Shared!Rebalance(t, named, score) BY <1>11, <2>1
  <2>4. QED BY <2>2, <2>3, RebalanceStep
<1>12. ASSUME NEW named \in Targets, Shared!Rebalance(t, named, [s \in Members |-> Shared!Min(Scores)])
       PROVE  SharedInv'
  <2>1. PICK score : score = [s \in Members |-> Shared!Min(Scores)] OBVIOUS
  <2>2. NamedOrScored(named, score)
    <3>1. PICK D \in (SUBSET Members) \ {{}} : named \in [D -> Weights] BY Constants
    <3>2. DOMAIN named # {} /\ \A s \in DOMAIN named : named[s] \in Nat BY <3>1, Constants
    <3>3. \A s \in DOMAIN named : named[s] \in Int BY <3>2
    <3>4. QED BY <3>2, <3>3 DEF NamedOrScored, Whole
  <2>3. Shared!Rebalance(t, named, score) BY <1>12, <2>1
  <2>4. QED BY <2>2, <2>3, RebalanceStep
<1>13. QED BY <1>1, <1>2, <1>3, <1>4, <1>5, <1>6, <1>7, <1>8, <1>9, <1>10, <1>11, <1>12
           DEF Shared!Steps

\* The other parts leave the portfolios alone.
LEMMA SharedIdles ==
  ASSUME SharedInv, UNCHANGED sharedVars, overlap => overlap' PROVE SharedInv'
<1>1. object' = object /\ listed' = listed /\ plan' = plan /\ worker' = worker BY DEF sharedVars
<1>2. SharedTypes' BY <1>1 DEF SharedInv, SharedTypes, Busy
<1>3. PlanFits => PlanFits' BY <1>1 DEF PlanFits, PlanFor, Unsettled
<1>4. SharedSerial => SharedSerial' BY <1>1, <1>3 DEF SharedSerial, Busy
<1>5. QED BY <1>2, <1>4 DEF SharedInv

LEMMA SharedStep == SharedInv /\ [MCNext]_mcvars => SharedInv'
<1> SUFFICES ASSUME SharedInv, [MCNext]_mcvars PROVE SharedInv'
  OBVIOUS
<1>1. CASE BacktestsNext
  <2>1. UNCHANGED sharedVars /\ (overlap => overlap') BY <1>1 DEF BacktestsNext
  <2>2. QED BY <2>1, SharedIdles
<1>2. CASE PortfoliosNext
  <2>1. Shared!Next /\ Shares BY <1>2 DEF PortfoliosNext, Shares
  <2>2. CASE \E p \in PortfolioIds, limits \in Limits : Shared!CreatePortfolio(p, limits)
    BY <2>1, <2>2, CreatePortfolioStep
  <2>3. CASE \E t \in Threads : Shared!Steps(t) BY <2>1, <2>3, StepsKeep
  <2>4. CASE \E t \in Threads : \E p \in PortfolioIds, body \in Shared!Bodies : Shared!Load(t, p, body)
    BY <2>1, <2>4, LoadStep
  <2>5. CASE Shared!Crash BY <2>1, <2>5, SharedCrash
  <2>6. QED BY <2>1, <2>2, <2>3, <2>4, <2>5 DEF Shared!Next
<1>3. CASE ResearchNext
  <2>1. UNCHANGED sharedVars /\ (overlap => overlap') BY <1>3 DEF ResearchNext
  <2>2. QED BY <2>1, SharedIdles
<1>4. CASE UNCHANGED mcvars
  <2>1. UNCHANGED sharedVars /\ (overlap => overlap') BY <1>4 DEF mcvars
  <2>2. QED BY <2>1, SharedIdles
<1>5. QED BY <1>1, <1>2, <1>3, <1>4 DEF MCNext

LEMMA SharedBegins == MCInit => SharedInv
<1> SUFFICES ASSUME MCInit PROVE SharedInv
  OBVIOUS
<1>1. PICK q : q = Shared!Idle OBVIOUS
<1>2. /\ object = [p \in PortfolioIds |-> NoPortfolio] /\ listed = {} /\ plan = NoPlan
      /\ worker = [t \in Threads |-> q]
  BY <1>1 DEF MCInit, Shared!Init
<1>3. Bodied(q) /\ q \in Held /\ q.at = "idle" BY <1>1, IdleBodied DEF Bodied
<1>4. \A t \in Threads : ~Busy(t) BY <1>2, <1>3 DEF Busy
<1>5. SharedTypes BY <1>2, <1>3, <1>4 DEF SharedTypes
<1>6. SharedSerial BY <1>2, <1>4 DEF SharedSerial, PlanFits
<1>7. QED BY <1>5, <1>6 DEF SharedInv

\* Requests that hold a portfolio alone find it fit, and leave it so.
THEOREM PortfoliosInvariant == MCSpec => []SharedInv
BY SharedBegins, SharedStep, PTL DEF MCSpec

\* While no two requests hold one portfolio each strategy is a member once, the
\* weights are within the limits, and a rebalance result of the version the
\* portfolio still has is for its members, within its limits, and gives out
\* all they allow if the request named no targets.
THEOREM PortfoliosCorrect == MCSpec => []SerialPortfolios
<1>1. SharedInv => SerialPortfolios
  <2> SUFFICES ASSUME SharedInv PROVE SerialWeights /\ SerialPlans
    BY DEF SerialPortfolios
  <2>1. SerialWeights
    <3> SUFFICES ASSUME ~overlap, NEW p \in PortfolioIds, object[p] # NoPortfolio
                 PROVE  LET ms == object[p].members IN
                        /\ \A i, j \in DOMAIN ms : ms[i].strategy = ms[j].strategy => i = j
                        /\ \A i \in DOMAIN ms : ms[i].weight \in 1..object[p].limits.single
                        /\ Shared!Total(Shared!WeightMap(ms)) <= object[p].limits.total
      BY DEF SerialWeights
    <3>1. MembersFit(object[p].members, object[p].limits) BY DEF SharedInv, SharedSerial
    <3>2. QED BY <3>1 DEF MembersFit, Distinct
  <2>2. ASSUME ~overlap, plan # NoPlan, plan.of \in listed,
               object[plan.of].version = plan.version, ~Unsettled(plan.of)
        PROVE  PlanFor(object[plan.of])
    BY <2>2 DEF SharedInv, SharedSerial, PlanFits
  <2>3. SerialPlans
    <3> SUFFICES ASSUME ~overlap, plan # NoPlan, plan.of \in listed,
                        object[plan.of].version = plan.version, ~Unsettled(plan.of),
                        NEW now, now = object[plan.of]
                 PROVE  /\ DOMAIN plan.target \subseteq Shared!Ids(now.members)
                        /\ \A s \in DOMAIN plan.target : plan.target[s] \in 1..(now.limits.single * plan.scale)
                        /\ Shared!Total(plan.target) <= now.limits.total * plan.scale
                        /\ plan.auto => Shared!Total(plan.target) =
                             LET each == (now.limits.single * plan.scale) * Cardinality(Shared!Ids(now.members)) IN
                             IF each < now.limits.total * plan.scale THEN each
                             ELSE now.limits.total * plan.scale
      BY Zenon DEF SerialPlans
    <3>1. PlanFor(now) BY <2>2
    <3>2. PICK each, all : /\ each = (now.limits.single * plan.scale) * Cardinality(Shared!Ids(now.members))
                           /\ all = now.limits.total * plan.scale
      OBVIOUS
    <3>3. now \in Shared!Portfolio BY DEF SharedInv, SharedTypes
    <3>4. /\ now.limits.single \in Nat /\ now.limits.total \in Nat
          /\ Cardinality(Shared!Ids(now.members)) \in Nat
      <4>1. now.limits \in Limits /\ now.members \in Seq(Shared!Member) BY <3>3 DEF Shared!Portfolio
      <4>2. now.limits \in Limit BY <4>1, Constants
      <4>3. IsFiniteSet(Shared!Ids(now.members)) BY <4>1, IdsOf
      <4>4. QED BY <4>2, <4>3, FS_CardinalityType DEF Limit
    <3>5. plan.scale \in Nat BY <3>1 DEF PlanFor
    <3>6. each \in Nat /\ all \in Nat BY <3>2, <3>4, <3>5
    <3>7. Less(each, all) = IF each < all THEN each ELSE all BY <3>6 DEF Less
    <3>8. plan.auto => Shared!Total(plan.target) = Less(each, all) BY <3>1, <3>2 DEF PlanFor
    <3>9. plan.auto => Shared!Total(plan.target) = IF each < all THEN each ELSE all BY <3>7, <3>8
    <3>10. QED BY <3>1, <3>2, <3>9 DEF PlanFor
  <2>4. QED BY <2>1, <2>3
<1>2. QED BY <1>1, PortfoliosInvariant, PTL

-----------------------------------------------------------------------------
(* The axes and the candidates of a search                                 *)

Bounds == {r \in [min: Int, max: Int, step: Nat \ {0}] : r.min <= r.max}

LEMMA ResearchConstants ==
  /\ Ranges \subseteq Bounds /\ MaxAxes \in Nat /\ Unit \in Nat \ {0}
  /\ \A r \in Ranges, k \in 1..MaxAxes : Unit % (2 * k * Research!Span(r)) = 0
  /\ Metrics \subseteq Int /\ Budgets \subseteq Nat \ {0} /\ Stops \subseteq Int
BY MCParameters DEF Research!Parameters, Bounds

LEMMA QuotientIs ==
  ASSUME NEW d \in Int, NEW s \in Nat \ {0}, NEW q \in Int, q * s <= d, d < q * s + s
  PROVE  d \div s = q
OBVIOUS

LEMMA QuotientFits ==
  ASSUME NEW d \in Int, NEW s \in Nat \ {0}
  PROVE  (d \div s) \in Int /\ (d \div s) * s <= d /\ d < (d \div s) * s + s
OBVIOUS

\* What the values of a parameter are: they rise from one end to the other.
AxisFits(a, r) ==
  /\ a \in Seq(Int) /\ Len(a) \in Nat \ {0} /\ Len(a) = Research!Ceiling(r)
  /\ a[1] = r.min /\ a[Len(a)] = r.max
  /\ \A i, j \in 1..Len(a) : i < j => a[i] < a[j]

LEMMA AxisIs ==
  ASSUME NEW r \in Bounds
  PROVE  AxisFits(Research!Axis(r), r)
<1>1. PICK q, s, d : q = Research!Steps(r) /\ s = r.step /\ d = r.max - r.min
  OBVIOUS
<1>2. s \in Nat \ {0} /\ d \in Nat /\ r.min \in Int /\ r.max = r.min + d
  BY <1>1 DEF Bounds
<1>3. q \in Nat /\ q * s <= d /\ d < q * s + s
  <2>1. q = d \div s BY <1>1 DEF Research!Steps
  <2>2. q \in Int /\ q * s <= d /\ d < q * s + s BY <1>2, <2>1, QuotientFits
  <2>3. q >= 0 BY <1>2, <2>2
  <2>4. QED BY <2>2, <2>3
<1>4. PICK a : a = [i \in 1..(q + 1) |-> r.min + (i - 1) * s]
  OBVIOUS
<1>5. /\ a \in Seq(Int) /\ Len(a) = q + 1
      /\ \A i \in 1..(q + 1) : a[i] = r.min + (i - 1) * s
  BY <1>2, <1>3, <1>4
<1>6. a[1] = r.min /\ a[q + 1] = r.min + q * s
  BY <1>2, <1>3, <1>5
<1>7. \A i, j \in 1..(q + 1) : i < j => a[i] < a[j]
  <2> SUFFICES ASSUME NEW i \in 1..(q + 1), NEW j \in 1..(q + 1), i < j
               PROVE  a[i] < a[j]
    OBVIOUS
  <2>1. PICK n \in Nat : n = j - i - 1 /\ j - 1 = (i - 1) + n + 1
    BY <1>3
  <2>2. (j - 1) * s = (i - 1) * s + n * s + s BY <1>2, <1>3, <2>1
  <2>3. n * s >= 0 BY <1>2
  <2>4. QED BY <1>2, <1>3, <1>5, <2>2, <2>3
<1>8. Research!Axis(r) = IF r.min + q * s < r.max THEN Append(a, r.max) ELSE a
  <2>1. Research!Axis(r) = IF a[Len(a)] < r.max THEN Append(a, r.max) ELSE a
    BY <1>1, <1>4 DEF Research!Axis
  <2>2. QED BY <1>5, <1>6, <2>1
<1>9. Research!Ceiling(r) = (d + s - 1) \div s + 1 BY <1>1 DEF Research!Ceiling
<1>10. CASE r.min + q * s < r.max
  <2>1. PICK b : b = Append(a, r.max) /\ b = Research!Axis(r) BY <1>8, <1>10
  <2>2. b \in Seq(Int) /\ Len(b) = q + 2 /\ b[q + 2] = r.max /\ \A i \in 1..(q + 1) : b[i] = a[i]
    <3>1. PICK x \in Int, n \in Nat : x = r.max /\ n = q + 1 BY <1>2, <1>3
    <3>2. x \in Int /\ a \in Seq(Int) /\ Len(a) = n /\ b = Append(a, x)
      BY <1>2, <1>5, <2>1, <3>1
    <3>3. b \in Seq(Int) /\ Len(b) = n + 1 /\ b[n + 1] = x /\ \A i \in 1..n : b[i] = a[i] BY <3>2
    <3>4. q + 2 = n + 1 /\ q + 1 = n BY <1>3, <3>1
    <3>5. \A e, f : e = n + 1 /\ f = n => Len(b) = e /\ b[e] = x /\ \A i \in 1..f : b[i] = a[i]
      BY <3>3
    <3>6. Len(b) = q + 2 /\ b[q + 2] = x /\ \A i \in 1..(q + 1) : b[i] = a[i] BY <3>4, <3>5
    <3>7. QED BY <3>1, <3>3, <3>6
  <2>3. (d + s - 1) \div s = q + 1
    <3>1. PICK e \in Int, u \in Int, v \in Int : e = q + 1 /\ u = q * s /\ v = d + s - 1
      BY <1>2, <1>3
    <3>2. e * s = u + s BY <1>2, <1>3, <3>1
    <3>3. u < d /\ d < u + s BY <1>2, <1>3, <1>10, <3>1
    <3>4. e * s <= v /\ v < e * s + s BY <1>2, <3>1, <3>2, <3>3
    <3>5. v \div s = e BY <1>2, <3>1, <3>4, QuotientIs
    <3>6. QED BY <3>1, <3>5
  <2>4. \A i, j \in 1..(q + 2) : i < j => b[i] < b[j]
    <3> SUFFICES ASSUME NEW i \in 1..(q + 2), NEW j \in 1..(q + 2), i < j
                 PROVE  b[i] < b[j]
      OBVIOUS
    <3>1. i \in 1..(q + 1) BY <1>3
    <3>2. CASE j = q + 2
      <4>1. a[i] <= a[q + 1]
        <5>1. a[i] \in Int /\ (i = q + 1 \/ i < q + 1) BY <1>3, <1>5, <3>1
        <5>2. QED BY <1>3, <1>5, <1>7, <3>1, <5>1
      <4>2. a[i] \in Int /\ a[q + 1] \in Int BY <1>3, <1>5, <3>1
      <4>3. b[j] = r.max /\ b[i] = a[i] BY <2>2, <3>1, <3>2
      <4>4. QED BY <1>2, <1>3, <1>6, <1>10, <4>1, <4>2, <4>3
    <3>3. CASE j # q + 2
      <4>1. j \in 1..(q + 1) BY <1>3, <3>3
      <4>2. QED BY <1>7, <2>2, <3>1, <4>1
    <3>4. QED BY <3>2, <3>3
  <2>5. Len(b) \in Nat \ {0} /\ Len(b) = Research!Ceiling(r) BY <1>3, <1>9, <2>2, <2>3
  <2>6. b[1] = r.min BY <1>3, <1>6, <2>2
  <2>7. QED BY <1>3, <2>1, <2>2, <2>4, <2>5, <2>6 DEF AxisFits
<1>11. CASE ~(r.min + q * s < r.max)
  <2>1. a = Research!Axis(r) BY <1>8, <1>11
  <2>2. (d + s - 1) \div s = q
    <3>1. q * s <= d + s - 1 /\ d + s - 1 < q * s + s BY <1>2, <1>3, <1>11
    <3>2. QED BY <1>2, <1>3, <3>1, QuotientIs
  <2>3. r.min + q * s = r.max BY <1>2, <1>3, <1>11
  <2>4. QED BY <1>3, <1>5, <1>6, <1>7, <1>9, <2>1, <2>2, <2>3 DEF AxisFits
<1>12. QED BY <1>10, <1>11

\* A space of n parameters, and the number of values of one.
Spaces == UNION {[1..n -> Ranges] : n \in 0..MaxAxes}
Size(space, k) == Len(Research!Axis(space[k]))

\* What a search has of a space of n parameters.
LEMMA SpaceFits ==
  ASSUME NEW space \in Spaces
  PROVE  /\ \E n \in 0..MaxAxes : space \in [1..n -> Ranges]
         /\ DOMAIN space \subseteq 1..MaxAxes /\ IsFiniteSet(DOMAIN space)
         /\ \A k \in DOMAIN space : /\ space[k] \in Bounds
                                    /\ AxisFits(Research!Axis(space[k]), space[k])
                                    /\ Research!Axes(space)[k] = Research!Axis(space[k])
                                    /\ Size(space, k) \in Nat \ {0}
<1>1. PICK n \in 0..MaxAxes : space \in [1..n -> Ranges] BY DEF Spaces
<1>2. DOMAIN space = 1..n /\ n \in Nat /\ MaxAxes \in Nat /\ n <= MaxAxes BY <1>1, ResearchConstants
<1>3. IsFiniteSet(1..n) BY <1>2, FS_Interval
<1>4. \A k \in DOMAIN space : space[k] \in Bounds BY <1>1, <1>2, ResearchConstants
<1>5. \A k \in DOMAIN space : AxisFits(Research!Axis(space[k]), space[k]) BY <1>4, AxisIs
<1>6. \A k \in DOMAIN space : Research!Axes(space)[k] = Research!Axis(space[k]) BY DEF Research!Axes
<1>7. \A k \in DOMAIN space : Size(space, k) \in Nat \ {0} BY <1>5 DEF AxisFits, Size
<1>8. QED BY <1>1, <1>2, <1>3, <1>4, <1>5, <1>6, <1>7

\* A candidate picks one value of each parameter.
LEMMA CandidatesAre ==
  ASSUME NEW space \in Spaces
  PROVE  \A c : c \in Research!Candidates(space) <=>
                  /\ c \in [DOMAIN space -> Nat]
                  /\ \A k \in DOMAIN space : c[k] \in 1..Size(space, k)
<1>1. PICK L : L = {0} \cup {Size(space, k) : k \in DOMAIN space} OBVIOUS
<1>2. L \in SUBSET Int /\ L # {} BY <1>1, SpaceFits
<1>3. IsFiniteSet(L)
  <2>1. PICK f : f = [k \in DOMAIN space |-> Size(space, k)] OBVIOUS
  <2>2. PICK T : T = {Size(space, k) : k \in DOMAIN space} OBVIOUS
  <2>3. f \in Surjection(DOMAIN space, T) BY <2>1, <2>2 DEF Surjection
  <2>4. IsFiniteSet(T) BY <2>3, SpaceFits, FS_Surjection
  <2>5. IsFiniteSet({0}) BY FS_Singleton
  <2>6. QED BY <1>1, <2>2, <2>4, <2>5, FS_Union
<1>4. \E m \in L : \A x \in L : x <= m BY <1>2, <1>3, HasLast
<1>5. PICK m : m = Research!Max(L) OBVIOUS
<1>6. m \in L /\ \A x \in L : m >= x
  <2>1. \E n \in L : \A x \in L : n >= x BY <1>2, <1>4
  <2>2. QED BY <1>5, <2>1 DEF Research!Max
<1>7. \A k \in DOMAIN space : Len(Research!Axes(space)[k]) = Size(space, k) BY SpaceFits DEF Size
<1>8. {0} \cup {Len(Research!Axes(space)[k]) : k \in DOMAIN space} = L BY <1>1, <1>7
<1>9. Research!Candidates(space) =
        {c \in [DOMAIN space -> 1..m] : \A k \in DOMAIN space : c[k] <= Size(space, k)}
  <2>1. Research!Max({0} \cup {Len(Research!Axes(space)[k]) : k \in DOMAIN space}) = m BY <1>5, <1>8
  <2>2. QED BY <1>7, <2>1 DEF Research!Candidates
<1>10. \A k \in DOMAIN space : Size(space, k) \in Int /\ Size(space, k) <= m /\ m \in Int
  BY <1>1, <1>2, <1>6
<1>11. QED BY <1>9, <1>10

-----------------------------------------------------------------------------
(* Distances and scores                                                    *)

LEMMA SumOfIsSum ==
  ASSUME NEW g, IsFiniteSet(DOMAIN g), Whole(g, DOMAIN g)
  PROVE  Research!SumOf(g) = Sum(g, DOMAIN g) /\ Sum(g, DOMAIN g) \in Int
<1>1. Research!SumOf(g) = Shared!SumOver(g, DOMAIN g)
  BY DEF Research!SumOf, Research!MapThenSumSet, Research!MapThenFoldSet,
         Shared!SumOver, Shared!MapThenSumSet, Shared!MapThenFoldSet
<1>2. Shared!SumOver(g, DOMAIN g) = Sum(g, DOMAIN g) BY SumOverIsSum
<1>3. Sum(g, DOMAIN g) \in Int BY SumRemove DEF Whole
<1>4. QED BY <1>1, <1>2, <1>3

Under(f, g, S) == \A x \in S : f[x] <= g[x]

\* Larger numbers have a larger sum.
LEMMA SumRises ==
  ASSUME NEW S, IsFiniteSet(S), NEW f, NEW g, Whole(f, S), Whole(g, S), Under(f, g, S)
  PROVE  /\ Sum(f, S) \in Int /\ Sum(g, S) \in Int /\ Sum(f, S) <= Sum(g, S)
         /\ (\E x \in S : f[x] < g[x]) => Sum(f, S) < Sum(g, S)
<1>1. PICK h : h = [x \in S |-> g[x] - f[x]] OBVIOUS
<1>2. \A x \in S : h[x] \in Nat /\ g[x] = f[x] + h[x] BY <1>1 DEF Whole, Under
<1>3. Whole(h, S) /\ Plus(g, f, h, S) BY <1>2 DEF Whole, Plus
<1>4. Sum(g, S) = Sum(f, S) + Sum(h, S) BY <1>3, SumPlus
<1>5. Sum(f, S) \in Int /\ Sum(h, S) \in Nat
  <2>1. Sum(f, S) \in Int BY SumRemove DEF Whole
  <2>2. Sum(h, S) \in Nat BY <1>2, SumPart
  <2>3. QED BY <2>1, <2>2
<1>6. ASSUME NEW x \in S, f[x] < g[x] PROVE Sum(h, S) > 0
  <2>1. h[x] > 0 /\ h[x] \in Nat BY <1>2, <1>6 DEF Whole
  <2>2. Sum(h, S) = Sum(h, S \ {x}) + h[x] BY <1>3, SumRemove DEF Whole
  <2>3. Sum(h, S \ {x}) \in Nat BY <1>2, SumPart
  <2>4. QED BY <2>1, <2>2, <2>3
<1>7. QED BY <1>4, <1>5, <1>6

\* A larger value of a parameter has a larger place in its range.
LEMMA PlaceRises ==
  ASSUME NEW r \in Ranges, NEW k \in 1..MaxAxes, NEW v \in Int
  PROVE  /\ Research!Place(r, v, k) \in Int
         /\ \A w \in Int : v < w => Research!Place(r, v, k) < Research!Place(r, w, k)
<1>1. k \in Nat \ {0} /\ r \in Bounds /\ Unit \in Nat \ {0} BY ResearchConstants
<1>2. r.min \in Int /\ r.max \in Int BY <1>1 DEF Bounds
<1>3. PICK p : p = Research!Span(r) OBVIOUS
<1>4. p \in Nat \ {0} BY <1>2, <1>3 DEF Research!Span
<1>5. PICK D : D = 2 * k * p OBVIOUS
<1>6. D \in Nat \ {0}
  <2>1. k * p \in Nat \ {0} BY <1>1, <1>4
  <2>2. 2 * k * p = 2 * (k * p) BY <1>1, <1>4
  <2>3. QED BY <1>5, <2>1, <2>2
<1>7. Unit % D = 0 BY <1>3, <1>5, ResearchConstants
<1>8. PICK u : u = Unit \div D OBVIOUS
<1>9. u \in Int /\ Unit = u * D BY <1>1, <1>6, <1>7, <1>8
<1>10. u > 0 BY <1>1, <1>6, <1>9
<1>11. \A w \in Int : Research!Place(r, w, k) = (2 * (w - r.min) - p) * u
  <2> SUFFICES ASSUME NEW w \in Int PROVE Research!Place(r, w, k) = (2 * (w - r.min) - p) * u
    OBVIOUS
  <2>1. PICK x \in Int : x = 2 * (w - r.min) - p BY <1>2, <1>4
  <2>2. Research!Place(r, w, k) = (x * Unit) \div D
    BY <1>3, <1>5, <2>1 DEF Research!Place
  <2>3. PICK y \in Int : y = x * u BY <1>9
  <2>4. x * Unit = y * D BY <1>6, <1>9, <2>3
  <2>5. (y * D) \div D = y BY <1>6, QuotientIs
  <2>6. QED BY <2>1, <2>2, <2>3, <2>4, <2>5
<1>12. \A x, y \in Int : x < y => x * u < y * u
  <2> SUFFICES ASSUME NEW x \in Int, NEW y \in Int, x < y PROVE x * u < y * u
    OBVIOUS
  <2>1. PICK n \in Nat : y = x + n + 1
    <3>1. y - x - 1 \in Nat /\ y = x + (y - x - 1) + 1 OBVIOUS
    <3>2. QED BY <3>1
  <2>2. y * u = x * u + n * u + u BY <1>9, <2>1
  <2>3. n * u >= 0 BY <1>9, <1>10
  <2>4. QED BY <1>9, <1>10, <2>2, <2>3
<1>13. \A w \in Int : 2 * (w - r.min) - p \in Int /\ (2 * (w - r.min) - p) * u \in Int
  BY <1>2, <1>4, <1>9
<1>14. ASSUME NEW w \in Int, v < w PROVE Research!Place(r, v, k) < Research!Place(r, w, k)
  <2>1. 2 * (v - r.min) - p < 2 * (w - r.min) - p BY <1>2, <1>4, <1>14
  <2>2. QED BY <1>11, <1>12, <1>13, <2>1
<1>15. QED BY <1>11, <1>13, <1>14

\* Candidates with larger values have a larger adjustment.
LEMMA AdjustmentRises ==
  ASSUME NEW space \in Spaces, NEW c \in Research!Candidates(space), NEW d \in Research!Candidates(space),
         Under(c, d, DOMAIN space)
  PROVE  /\ Research!Adjustment(space, c) \in Int /\ Research!Adjustment(space, d) \in Int
         /\ Research!Adjustment(space, c) <= Research!Adjustment(space, d)
         /\ c # d => Research!Adjustment(space, c) < Research!Adjustment(space, d)
<1> DEFINE places(e) == [k \in DOMAIN space |-> Research!Place(space[k], Research!Axes(space)[k][e[k]], k)]
<1>1. PICK f, g : f = places(c) /\ g = places(d) OBVIOUS
<1>2. PICK S : S = DOMAIN space OBVIOUS
<1>3. DOMAIN f = S /\ DOMAIN g = S /\ IsFiniteSet(S) BY <1>1, <1>2, SpaceFits
<1>4. Research!Adjustment(space, c) = Research!SumOf(f) /\ Research!Adjustment(space, d) = Research!SumOf(g)
  BY <1>1 DEF Research!Adjustment
<1>5. \A k \in S : /\ space[k] \in Ranges /\ k \in 1..MaxAxes
                   /\ c[k] \in 1..Size(space, k) /\ d[k] \in 1..Size(space, k) /\ c[k] <= d[k]
  <2>1. \A k \in S : space[k] \in Ranges BY <1>2 DEF Spaces
  <2>2. \A k \in S : k \in 1..MaxAxes BY <1>2, SpaceFits
  <2>3. \A k \in S : c[k] \in 1..Size(space, k) /\ d[k] \in 1..Size(space, k) BY <1>2, CandidatesAre
  <2>4. QED BY <1>2, <2>1, <2>2, <2>3 DEF Under
<1>6. ASSUME NEW k \in S
      PROVE  f[k] \in Int /\ g[k] \in Int /\ f[k] <= g[k] /\ (c[k] < d[k] => f[k] < g[k])
  <2>1. PICK a : a = Research!Axis(space[k]) OBVIOUS
  <2>2. AxisFits(a, space[k]) /\ Research!Axes(space)[k] = a /\ Size(space, k) = Len(a)
    BY <1>2, <2>1, SpaceFits DEF Size
  <2>3. f[k] = Research!Place(space[k], a[c[k]], k) /\ g[k] = Research!Place(space[k], a[d[k]], k)
    BY <1>1, <1>2, <2>2
  <2>4. PICK i, j \in 1..Len(a) : i = c[k] /\ j = d[k] /\ i <= j BY <1>5, <2>2
  <2>5. a[i] \in Int /\ a[j] \in Int /\ (i < j => a[i] < a[j]) /\ Len(a) \in Nat BY <2>2 DEF AxisFits
  <2>6. space[k] \in Ranges /\ k \in 1..MaxAxes BY <1>5
  <2>7. PICK x, y : x = Research!Place(space[k], a[i], k) /\ y = Research!Place(space[k], a[j], k) OBVIOUS
  <2>8. x \in Int /\ y \in Int /\ (a[i] < a[j] => x < y) BY <2>5, <2>6, <2>7, PlaceRises
  <2>9. i = j => x = y BY <2>7
  <2>10. i \in Int /\ j \in Int BY <2>5
  <2>11. f[k] = x /\ g[k] = y BY <2>3, <2>4, <2>7
  <2>12. x <= y BY <2>4, <2>5, <2>8, <2>9, <2>10
  <2>13. QED BY <2>4, <2>5, <2>8, <2>11, <2>12
<1>7. Whole(f, S) /\ Whole(g, S) /\ Under(f, g, S) BY <1>6 DEF Whole, Under
<1>8. Research!SumOf(f) = Sum(f, S) /\ Research!SumOf(g) = Sum(g, S) BY <1>3, <1>7, SumOfIsSum
<1>9. /\ Sum(f, S) \in Int /\ Sum(g, S) \in Int /\ Sum(f, S) <= Sum(g, S)
      /\ (\E x \in S : f[x] < g[x]) => Sum(f, S) < Sum(g, S)
  BY <1>3, <1>7, SumRises
<1>10. ASSUME c # d PROVE \E x \in S : f[x] < g[x]
  <2>1. c \in [S -> Nat] /\ d \in [S -> Nat] BY <1>2, CandidatesAre
  <2>2. PICK k \in S : c[k] # d[k] BY <1>10, <2>1
  <2>3. c[k] < d[k] BY <1>5, <2>1, <2>2
  <2>4. QED BY <1>6, <2>3
<1>11. QED BY <1>4, <1>8, <1>9, <1>10

LEMMA ApartIs ==
  ASSUME NEW a \in Int, NEW b \in Int
  PROVE  Research!Apart(a, b) \in Nat
BY DEF Research!Apart

\* The better of two such candidates is the larger one, or the smaller one to
\* minimise.
LEMMA ScoreRises ==
  ASSUME NEW s \in Research!Search, NEW c \in Research!Candidates(s.space),
         NEW d \in Research!Candidates(s.space), Under(c, d, DOMAIN s.space)
  PROVE  /\ Research!Score(s, c) \in Int /\ Research!Score(s, d) \in Int
         /\ c # d => IF s.maximize THEN Research!Score(s, c) < Research!Score(s, d)
                     ELSE Research!Score(s, d) < Research!Score(s, c)
<1>1. s.space \in Spaces /\ s.metric \in Int /\ s.maximize \in BOOLEAN
  BY ResearchConstants DEF Research!Search, Spaces
<1>2. PICK x, y : x = Research!Adjustment(s.space, c) /\ y = Research!Adjustment(s.space, d)
  OBVIOUS
<1>3. x \in Int /\ y \in Int /\ (c # d => x < y)
  <2>1. PICK space \in Spaces : space = s.space BY <1>1
  <2>2. c \in Research!Candidates(space) /\ d \in Research!Candidates(space) /\ Under(c, d, DOMAIN space)
    BY <2>1
  <2>3. x = Research!Adjustment(space, c) /\ y = Research!Adjustment(space, d) BY <1>2, <2>1
  <2>4. QED BY <2>2, <2>3, AdjustmentRises
<1>4. PICK b, m : b = 5 * Unit * s.metric /\ m = Research!Apart(s.metric, 0) + 1
  OBVIOUS
<1>5. b \in Int /\ m \in Nat \ {0}
  <2>1. Research!Apart(s.metric, 0) \in Nat BY <1>1 DEF Research!Apart
  <2>2. b \in Int BY <1>1, <1>4, ResearchConstants
  <2>3. QED BY <1>4, <2>1, <2>2
<1>6. /\ Research!Score(s, c) = IF s.maximize THEN b + m * x ELSE -(b + m * x)
      /\ Research!Score(s, d) = IF s.maximize THEN b + m * y ELSE -(b + m * y)
  BY <1>2, <1>4 DEF Research!Score
<1>7. ASSUME x < y PROVE m * x < m * y
  <2>1. PICK n \in Nat : y = x + n + 1
    <3>1. y - x - 1 \in Nat /\ y = x + (y - x - 1) + 1 BY <1>3, <1>7
    <3>2. QED BY <3>1
  <2>2. m * y = m * x + m * n + m BY <1>3, <1>5, <2>1
  <2>3. m * n >= 0 /\ m * n \in Int /\ m * x \in Int BY <1>3, <1>5
  <2>4. QED BY <1>5, <2>2, <2>3
<1>8. PICK p, q \in Int : p = m * x /\ q = m * y BY <1>3, <1>5
<1>9. c # d => p < q BY <1>3, <1>7, <1>8
<1>10. QED BY <1>1, <1>5, <1>6, <1>8, <1>9

LEMMA DistanceIs ==
  ASSUME NEW space \in Spaces, NEW c \in Research!Candidates(space)
  PROVE  Research!Distance(space, c) \in Nat
<1>1. PICK g : g = [k \in DOMAIN space |-> Research!Apart(c[k], Len(Research!Axes(space)[k]) \div 2 + 1)]
  OBVIOUS
<1>2. PICK S : S = DOMAIN space OBVIOUS
<1>3. DOMAIN g = S /\ IsFiniteSet(S) BY <1>1, <1>2, SpaceFits
<1>4. \A k \in S : g[k] \in Nat
  <2> SUFFICES ASSUME NEW k \in S PROVE g[k] \in Nat
    OBVIOUS
  <2>1. PICK n : n = Len(Research!Axes(space)[k]) OBVIOUS
  <2>2. n \in Nat BY <1>2, <2>1, SpaceFits DEF Size
  <2>3. PICK m : m = n \div 2 + 1 OBVIOUS
  <2>4. m \in Int BY <2>2, <2>3
  <2>5. c[k] \in Int BY <1>2, CandidatesAre
  <2>6. QED BY <1>1, <1>2, <2>1, <2>3, <2>4, <2>5, ApartIs
<1>5. Whole(g, S) BY <1>4 DEF Whole
<1>6. Research!Distance(space, c) = Sum(g, S) BY <1>1, <1>3, <1>5, SumOfIsSum DEF Research!Distance
<1>7. Sum(g, S) \in Nat BY <1>3, <1>4, SumPart
<1>8. QED BY <1>6, <1>7

-----------------------------------------------------------------------------
(* The candidate tried next                                                *)

\* c comes before d, or is the same, as far as the first k numbers tell.
Leads(c, d, k) ==
  \/ \A j \in 1..k : c[j] = d[j]
  \/ \E i \in 1..k : c[i] < d[i] /\ \A j \in 1..(i - 1) : c[j] = d[j]

\* Among lists of numbers of one length there is a first one.
LEMMA HasSmallest ==
  ASSUME NEW n \in Nat, NEW R \in SUBSET [1..n -> Nat], R # {}
  PROVE  \E c \in R : \A d \in R \ {c} : Research!Smaller(c, d)
<1> DEFINE Bad(k) == ~\E c \in R : \A d \in R : Leads(c, d, k)
           B == {k \in 0..n : Bad(k)}
<1>1. SUFFICES ASSUME B # {} PROVE FALSE
  <2>1. ~Bad(n)
    <3>1. n \notin B BY <1>1
    <3>2. n \in 0..n OBVIOUS
    <3>3. QED BY <3>1, <3>2
  <2>2. PICK c \in R : \A d \in R : Leads(c, d, n) BY <2>1
  <2>3. ASSUME NEW d \in R \ {c} PROVE Research!Smaller(c, d)
    <3>1. DOMAIN c = 1..n /\ c \in [1..n -> Nat] /\ d \in [1..n -> Nat] OBVIOUS
    <3>2. ~\A j \in 1..n : c[j] = d[j] BY <2>3, <3>1
    <3>3. Leads(c, d, n) BY <2>2
    <3>4. QED BY <3>1, <3>2, <3>3 DEF Leads, Research!Smaller
  <2>4. QED BY <2>3
<1>2. B \in SUBSET Nat OBVIOUS
<1>3. PICK k \in B : \A i \in B : k <= i
  <2> HIDE DEF B
  <2>1. QED BY <1>1, <1>2, HasLeast
<1>4. k \in 0..n /\ Bad(k) OBVIOUS
<1>5. k # 0
  <2>1. PICK c \in R : TRUE OBVIOUS
  <2>2. \A d \in R : Leads(c, d, 0) BY DEF Leads
  <2>3. QED BY <1>4, <2>1, <2>2
<1>6. PICK m \in 0..n : k = m + 1
  <2>1. k - 1 \in 0..n /\ k = (k - 1) + 1 BY <1>4, <1>5
  <2>2. QED BY <2>1
<1>7. ~Bad(m)
  <2>1. m \notin B BY <1>3, <1>6
  <2>2. QED BY <2>1
<1>8. PICK c \in R : \A d \in R : Leads(c, d, m) BY <1>7
<1>9. PICK E : E = {d \in R : \A j \in 1..m : c[j] = d[j]} OBVIOUS
<1>10. c \in E BY <1>9
<1>11. k \in 1..n BY <1>4, <1>5
<1>12. \A d \in R : d[k] \in Nat BY <1>11
<1>13. PICK d \in E : \A e \in E : d[k] <= e[k]
  <2>1. PICK V : V = {e[k] : e \in E} OBVIOUS
  <2>2. V \in SUBSET Nat /\ V # {} BY <1>9, <1>10, <1>12, <2>1
  <2>3. PICK v \in V : \A w \in V : v <= w BY <2>2, HasLeast
  <2>4. PICK d \in E : v = d[k] BY <2>1, <2>3
  <2>5. QED BY <2>1, <2>3, <2>4
<1>14. d \in R /\ \A j \in 1..m : c[j] = d[j] BY <1>9
<1>15. \A i \in 1..k : i \in 1..m \/ i = k BY <1>4, <1>6
<1>16. ASSUME NEW e \in R PROVE Leads(d, e, k)
  <2>1. CASE e \in E
    <3>1. \A j \in 1..m : d[j] = e[j] BY <1>9, <1>14, <2>1
    <3>2. d[k] <= e[k] /\ d[k] \in Nat /\ e[k] \in Nat BY <1>12, <1>13, <1>14, <2>1
    <3>3. CASE d[k] = e[k]
      <4>1. \A j \in 1..k : d[j] = e[j] BY <1>15, <3>1, <3>3
      <4>2. QED BY <4>1 DEF Leads
    <3>4. CASE d[k] < e[k]
      <4>1. k \in 1..k /\ k - 1 = m BY <1>6, <1>11
      <4>2. QED BY <3>1, <3>4, <4>1 DEF Leads
    <3>5. d[k] = e[k] \/ d[k] < e[k]
      <4> HIDE DEF Bad, B
      <4>1. PICK x, y \in Nat : x = d[k] /\ y = e[k] BY <3>2
      <4>2. x <= y BY <3>2, <4>1
      <4>3. x = y \/ x < y BY <4>2
      <4>4. QED BY <4>1, <4>3
    <3>6. QED BY <3>3, <3>4, <3>5
  <2>2. CASE e \notin E
    <3>1. ~\A j \in 1..m : c[j] = e[j] BY <1>9, <2>2
    <3>2. PICK i \in 1..m : c[i] < e[i] /\ \A j \in 1..(i - 1) : c[j] = e[j]
      BY <1>8, <3>1 DEF Leads
    <3>3. i \in 1..k /\ \A j \in 1..(i - 1) : j \in 1..m BY <1>6, <1>11
    <3>4. d[i] < e[i] /\ \A j \in 1..(i - 1) : d[j] = e[j] BY <1>14, <3>2, <3>3
    <3>5. QED BY <3>3, <3>4 DEF Leads
  <2>3. QED BY <2>1, <2>2
<1>17. QED BY <1>4, <1>14, <1>16

IsNext(s, R, c) == \A d \in R \ {c} : Research!Before(s, c, d)

\* There is a candidate to try next.
LEMMA HasNext ==
  ASSUME NEW s \in Research!Search, NEW R \in SUBSET Research!Candidates(s.space), R # {}
  PROVE  \E c \in R : IsNext(s, R, c)
<1>1. PICK space \in Spaces : space = s.space BY DEF Research!Search, Spaces
<1>2. PICK n \in 0..MaxAxes : space \in [1..n -> Ranges] BY SpaceFits
<1>3. n \in Nat /\ DOMAIN space = 1..n BY <1>2, ResearchConstants
<1>4. R \in SUBSET [1..n -> Nat] BY <1>1, <1>3, CandidatesAre
<1>5. \A c \in R : Research!Distance(space, c) \in Nat BY <1>1, DistanceIs
<1>6. CASE s.method = "bayesian"
  <2>1. PICK V : V = {Research!Distance(space, c) : c \in R} OBVIOUS
  <2>2. V \in SUBSET Nat /\ V # {} BY <1>5, <2>1
  <2>3. PICK v \in V : \A w \in V : v <= w BY <2>2, HasLeast
  <2>4. PICK N : N = {c \in R : Research!Distance(space, c) = v} OBVIOUS
  <2>5. N \in SUBSET [1..n -> Nat] /\ N # {} BY <1>4, <2>1, <2>4
  <2>6. PICK c \in N : \A d \in N \ {c} : Research!Smaller(c, d) BY <1>3, <2>5, HasSmallest
  <2>7. ASSUME NEW d \in R \ {c} PROVE Research!Before(s, c, d)
    <3>1. PICK near, far \in Nat : near = Research!Distance(space, c) /\ far = Research!Distance(space, d)
      BY <1>5, <2>4
    <3>2. near <= far BY <2>1, <2>3, <2>4, <3>1
    <3>3. near = far => d \in N BY <2>4, <3>1
    <3>4. near = far => Research!Smaller(c, d) BY <2>6, <3>3
    <3>5. Research!Before(s, c, d) <=> IF near # far THEN near < far ELSE Research!Smaller(c, d)
      BY <1>1, <1>6, <3>1 DEF Research!Before
    <3>6. QED BY <3>2, <3>4, <3>5
  <2>8. QED BY <2>4, <2>7 DEF IsNext
<1>7. CASE s.method # "bayesian"
  <2>1. PICK c \in R : \A d \in R \ {c} : Research!Smaller(c, d) BY <1>3, <1>4, HasSmallest
  <2>2. QED BY <1>7, <2>1 DEF IsNext, Research!Before
<1>8. QED BY <1>6, <1>7

\* A bayesian search tries next what is nearest to the middle.
LEMMA NextIsNear ==
  ASSUME NEW s \in Research!Search, NEW R \in SUBSET Research!Candidates(s.space), NEW c \in R,
         IsNext(s, R, c), s.method = "bayesian"
  PROVE  \A d \in R : Research!Distance(s.space, c) <= Research!Distance(s.space, d)
<1>1. PICK space \in Spaces : space = s.space BY DEF Research!Search, Spaces
<1>2. SUFFICES ASSUME NEW d \in R PROVE Research!Distance(space, c) <= Research!Distance(space, d)
  BY <1>1
<1>3. PICK near, far \in Nat : near = Research!Distance(space, c) /\ far = Research!Distance(space, d)
  BY <1>1, DistanceIs
<1>4. CASE d = c BY <1>3, <1>4
<1>5. CASE d # c
  <2>1. Research!Before(s, c, d) BY <1>5 DEF IsNext
  <2>2. near # far => near < far BY <1>1, <1>3, <2>1 DEF Research!Before
  <2>3. QED BY <1>3, <2>2
<1>6. QED BY <1>4, <1>5

-----------------------------------------------------------------------------
(* The number of candidates                                                *)

\* The ways to pick a number up to g[k] for each k of T.
Grid(g, T) == {c \in [T -> Nat] : \A k \in T : c[k] \in 1..g[k]}

\* One more parameter multiplies the ways.
LEMMA GridStep ==
  ASSUME NEW T, NEW x \in T, NEW g, g[x] \in Nat, IsFiniteSet(Grid(g, T \ {x}))
  PROVE  /\ IsFiniteSet(Grid(g, T))
         /\ Cardinality(Grid(g, T)) = g[x] * Cardinality(Grid(g, T \ {x}))
<1>1. PICK U, I, G, P : U = T \ {x} /\ I = 1..g[x] /\ G = Grid(g, U) /\ P = I \X G
  OBVIOUS
<1>2. IsFiniteSet(I) /\ Cardinality(I) = g[x]
  <2>1. 0 \in Int /\ 1 \in Int /\ g[x] \in Int OBVIOUS
  <2>2. IsFiniteSet(1..g[x]) /\ Cardinality(1..g[x]) = IF 1 > g[x] THEN 0 ELSE g[x] - 1 + 1
    BY <2>1, FS_Interval
  <2>3. QED BY <1>1, <2>2
<1>3. IsFiniteSet(P) /\ Cardinality(P) = g[x] * Cardinality(G)
  BY <1>1, <1>2, FS_Product
<1>4. PICK f : f = [p \in P |-> [k \in T |-> IF k = x THEN p[1] ELSE p[2][k]]]
  OBVIOUS
<1>5. \A c : c \in Grid(g, T) <=> c \in [T -> Nat] /\ \A k \in T : c[k] \in 1..g[k]
  BY DEF Grid
<1>6. \A c : c \in G <=> c \in [U -> Nat] /\ \A k \in U : c[k] \in 1..g[k]
  BY <1>1 DEF Grid
<1>7. ASSUME NEW p \in P PROVE f[p] \in Grid(g, T) /\ f[p][x] = p[1] /\ \A k \in U : f[p][k] = p[2][k]
  <2>1. p[1] \in I /\ p[2] \in G BY <1>1
  <2>2. p[1] \in Nat /\ p[1] \in 1..g[x] BY <1>1, <2>1
  <2>3. \A k \in U : p[2][k] \in Nat /\ p[2][k] \in 1..g[k] BY <1>6, <2>1
  <2>4. PICK c : c = f[p] OBVIOUS
  <2>5. c = [k \in T |-> IF k = x THEN p[1] ELSE p[2][k]] BY <1>4, <2>4
  <2>6. c[x] = p[1] /\ \A k \in U : c[k] = p[2][k] BY <1>1, <2>5
  <2>7. \A k \in T : k = x \/ k \in U BY <1>1
  <2>8. \A k \in T : c[k] \in Nat /\ c[k] \in 1..g[k] BY <2>2, <2>3, <2>6, <2>7
  <2>9. c \in [T -> Nat] BY <2>5, <2>8
  <2>10. QED BY <1>5, <2>4, <2>6, <2>8, <2>9
<1>8. f \in Injection(P, Grid(g, T))
  <2>1. f \in [P -> Grid(g, T)] BY <1>4, <1>7
  <2>2. ASSUME NEW p \in P, NEW q \in P, f[p] = f[q] PROVE p = q
    <3>1. p[1] = q[1] /\ \A k \in U : p[2][k] = q[2][k] BY <1>7, <2>2
    <3>2. p[2] \in [U -> Nat] /\ q[2] \in [U -> Nat] BY <1>1, <1>6
    <3>3. p[2] = q[2] BY <3>1, <3>2
    <3>4. p = <<p[1], p[2]>> /\ q = <<q[1], q[2]>> BY <1>1
    <3>5. QED BY <3>1, <3>3, <3>4
  <2>3. QED BY <2>1, <2>2 DEF Injection, IsInjective
<1>9. f \in Surjection(P, Grid(g, T))
  <2>1. f \in [P -> Grid(g, T)] BY <1>4, <1>7
  <2>2. ASSUME NEW c \in Grid(g, T) PROVE \E p \in P : f[p] = c
    <3>1. PICK d : d = [k \in U |-> c[k]] OBVIOUS
    <3>2. c \in [T -> Nat] /\ \A k \in T : c[k] \in 1..g[k] BY <1>5
    <3>3. \A k \in U : k \in T BY <1>1
    <3>4. d \in G BY <1>6, <3>1, <3>2, <3>3
    <3>5. c[x] \in I BY <1>1, <3>2
    <3>6. PICK p \in P : p = <<c[x], d>> BY <1>1, <3>4, <3>5
    <3>7. f[p][x] = c[x] /\ \A k \in U : f[p][k] = d[k] BY <1>7, <3>6
    <3>8. \A k \in U : d[k] = c[k] BY <3>1
    <3>9. \A k \in T : k = x \/ k \in U BY <1>1
    <3>10. \A k \in T : f[p][k] = c[k] BY <3>7, <3>8, <3>9
    <3>11. f[p] \in [T -> Nat] BY <1>5, <1>7
    <3>12. f[p] = c BY <3>2, <3>10, <3>11
    <3>13. QED BY <3>12
  <2>3. QED BY <2>1, <2>2 DEF Surjection
<1>10. ExistsBijection(P, Grid(g, T)) BY <1>8, <1>9 DEF ExistsBijection, Bijection
<1>11. IsFiniteSet(Grid(g, T)) /\ Cardinality(Grid(g, T)) = Cardinality(P)
  BY <1>3, <1>10, FS_Bijection
<1>12. QED BY <1>1, <1>3, <1>11

Product(g) == Research!FoldFunction(LAMBDA n, m : n * m, 1, g)

\* The product of the numbers of g, in whatever order it is taken.
LEMMA ProductCounts ==
  ASSUME NEW S, IsFiniteSet(S), NEW g, DOMAIN g = S, \A k \in S : g[k] \in Nat
  PROVE  IsFiniteSet(Grid(g, S)) /\ Product(g) = Cardinality(Grid(g, S))
<1> DEFINE body(F) == [T \in SUBSET S |->
             IF T = {} THEN 1
             ELSE g[CHOOSE x \in T : TRUE] * F[T \ {CHOOSE x \in T : TRUE}]]
<1>1. Product(g) = (CHOOSE F : F = body(F))[S]
  BY DEF Product, Research!FoldFunction, Research!FoldFunctionOnSet, Research!MapThenFoldSet
<1>2. IsFiniteSet(Grid(g, {})) /\ Cardinality(Grid(g, {})) = 1
  <2>1. PICK e : e = [k \in {} |-> 0] OBVIOUS
  <2>2. \A c \in [{} -> Nat] : c = e BY <2>1
  <2>3. e \in [{} -> Nat] BY <2>1
  <2>4. Grid(g, {}) = {e} BY <2>2, <2>3 DEF Grid
  <2>5. IsFiniteSet({e}) /\ Cardinality({e}) = 1 BY FS_Singleton
  <2>6. QED BY <2>4, <2>5
<1>3. \A T \in SUBSET S : IsFiniteSet(Grid(g, T))
  <2> DEFINE B == {T \in SUBSET S : ~IsFiniteSet(Grid(g, T))}
  <2>1. SUFFICES ASSUME B # {} PROVE FALSE
    OBVIOUS
  <2>2. B \in SUBSET SUBSET S OBVIOUS
  <2>3. \A T \in SUBSET S : T \in B <=> ~IsFiniteSet(Grid(g, T)) OBVIOUS
  <2> HIDE DEF B
  <2>4. PICK T \in B : \A U \in SUBSET T : U # T => U \notin B BY <2>1, <2>2, SmallestSubset
  <2>5. T \in SUBSET S /\ ~IsFiniteSet(Grid(g, T)) BY <2>2, <2>3
  <2>6. T # {} BY <1>2, <2>5
  <2>7. PICK x \in T : TRUE BY <2>6
  <2>8. T \ {x} \in SUBSET T /\ T \ {x} # T /\ T \ {x} \in SUBSET S BY <2>5, <2>7
  <2>9. IsFiniteSet(Grid(g, T \ {x})) BY <2>3, <2>4, <2>8
  <2>10. g[x] \in Nat BY <2>5
  <2>11. QED BY <2>5, <2>9, <2>10, GridStep
<1>4. \A T \in SUBSET S : T # {} =>
        /\ First(T) \in T /\ First(T) \in S /\ First(T) = CHOOSE x \in T : TRUE
        /\ Cardinality(Grid(g, T)) = g[First(T)] * Cardinality(Grid(g, T \ {First(T)}))
  <2> SUFFICES ASSUME NEW T \in SUBSET S, T # {}
               PROVE  /\ First(T) \in T /\ First(T) \in S /\ First(T) = CHOOSE x \in T : TRUE
                      /\ Cardinality(Grid(g, T)) = g[First(T)] * Cardinality(Grid(g, T \ {First(T)}))
    OBVIOUS
  <2>1. PICK x \in T : x = First(T) BY FirstIn
  <2>2. g[x] \in Nat /\ IsFiniteSet(Grid(g, T \ {x})) BY <1>3
  <2>3. Cardinality(Grid(g, T)) = g[x] * Cardinality(Grid(g, T \ {x})) BY <2>2, GridStep
  <2>4. First(T) = CHOOSE y \in T : TRUE BY DEF First
  <2>5. QED BY <2>1, <2>3, <2>4
<1>5. \E F : F = body(F)
  <2>1. PICK F : F = [T \in SUBSET S |-> Cardinality(Grid(g, T))] OBVIOUS
  <2>2. ASSUME NEW T \in SUBSET S PROVE F[T] = body(F)[T]
    <3>1. CASE T = {} BY <1>2, <2>1, <3>1
    <3>2. CASE T # {}
      <4>1. F[T] = Cardinality(Grid(g, T)) /\ F[T \ {First(T)}] = Cardinality(Grid(g, T \ {First(T)}))
        BY <2>1
      <4>2. F[T] = g[First(T)] * F[T \ {First(T)}] BY <1>4, <3>2, <4>1
      <4>3. QED BY <1>4, <3>2, <4>2
    <3>3. QED BY <3>1, <3>2
  <2>3. F = body(F) BY <2>1, <2>2
  <2>4. QED BY <2>3
<1>6. PICK F : F = body(F) /\ Product(g) = F[S]
  BY <1>1, <1>5
<1>7. F[{}] = 1 BY <1>6
<1>8. ASSUME NEW T \in SUBSET S, T # {} PROVE F[T] = g[First(T)] * F[T \ {First(T)}]
  <2>1. First(T) = CHOOSE x \in T : TRUE BY DEF First
  <2>2. F[T] = body(F)[T] BY <1>6
  <2>3. QED BY <1>8, <2>1, <2>2
<1> HIDE DEF body
<1>9. \A T \in SUBSET S : F[T] = Cardinality(Grid(g, T))
  <2> DEFINE B == {T \in SUBSET S : F[T] # Cardinality(Grid(g, T))}
  <2>1. SUFFICES ASSUME B # {} PROVE FALSE
    OBVIOUS
  <2>2. B \in SUBSET SUBSET S OBVIOUS
  <2>3. \A T \in SUBSET S : T \in B <=> F[T] # Cardinality(Grid(g, T)) OBVIOUS
  <2> HIDE DEF B
  <2>4. PICK T \in B : \A U \in SUBSET T : U # T => U \notin B BY <2>1, <2>2, SmallestSubset
  <2>5. T \in SUBSET S /\ F[T] # Cardinality(Grid(g, T)) BY <2>2, <2>3
  <2>6. T # {} BY <1>2, <1>7, <2>5
  <2>7. PICK x \in T : x = First(T) BY <2>6, FirstIn
  <2>8. F[T \ {x}] = Cardinality(Grid(g, T \ {x})) BY <2>3, <2>4, <2>5
  <2>9. QED BY <1>4, <1>8, <2>5, <2>6, <2>7, <2>8
<1>10. QED BY <1>3, <1>6, <1>9

-----------------------------------------------------------------------------
(* The search                                                              *)

Tried(space) == [at: Research!Candidates(space), score: Int]

\* What a search knows of the trials it has made.
SearchInv ==
  /\ search \in Research!Search
  /\ trials \in Seq(Tried(search.space)) /\ Len(trials) <= search.budget
  /\ \A i \in DOMAIN trials : trials[i].score = Research!Score(search, trials[i].at)
  /\ \A i, j \in DOMAIN trials : trials[i].at = trials[j].at => i = j
  /\ IF Len(trials) = 0 THEN best = 0
     ELSE best \in DOMAIN trials /\ \A i \in DOMAIN trials : trials[i].score <= trials[best].score
  /\ reason \in Research!Reasons \cup {"none"}
  /\ Research!Exhausted => Research!Remaining = {}
  /\ Research!CentreFirst

LEMMA Grown ==
  ASSUME NEW S, NEW ts \in Seq(S), NEW x \in S, NEW us, us = Append(ts, x)
  PROVE  /\ us \in Seq(S) /\ Len(us) = Len(ts) + 1 /\ Len(ts) \in Nat
         /\ DOMAIN ts = 1..Len(ts) /\ DOMAIN us = DOMAIN ts \cup {Len(ts) + 1}
         /\ Len(ts) + 1 \notin DOMAIN ts
         /\ us[Len(ts) + 1] = x /\ \A i \in DOMAIN ts : us[i] = ts[i]
<1>1. us \in Seq(S) /\ Len(us) = Len(ts) + 1 /\ Len(ts) \in Nat OBVIOUS
<1>2. DOMAIN ts = 1..Len(ts) /\ DOMAIN us = 1..Len(us) BY <1>1
<1>3. PICK n \in Nat : n = Len(ts) BY <1>1
<1>4. 1..(n + 1) = 1..n \cup {n + 1} /\ n + 1 \notin 1..n OBVIOUS
<1>5. us[Len(ts) + 1] = x /\ \A i \in DOMAIN ts : us[i] = ts[i] BY <1>1, <1>2
<1>6. QED BY <1>1, <1>2, <1>3, <1>4, <1>5

\* A trial is of a candidate not tried before, and of the nearest.
LEMMA TryStep ==
  ASSUME SearchInv, Research!Try
  PROVE  SearchInv'
<1>1. PICK R : R = Research!Remaining OBVIOUS
<1>2. search' = search /\ R # {} /\ Len(trials) < search.budget
  <2>1. search.budget \in Nat BY ResearchConstants DEF SearchInv, Research!Search
  <2>2. QED BY <1>1, <2>1 DEF Research!Try, Research!Spent, SearchInv
<1>3. R \in SUBSET Research!Candidates(search.space) /\ \A i \in DOMAIN trials : trials[i].at \notin R
  BY <1>1 DEF Research!Remaining
<1>4. PICK c : c = CHOOSE e \in R : \A d \in R \ {e} : Research!Before(search, e, d)
  OBVIOUS
<1>5. c \in R /\ IsNext(search, R, c)
  <2>1. \E e \in R : \A d \in R \ {e} : Research!Before(search, e, d)
    BY <1>2, <1>3, HasNext DEF IsNext, SearchInv
  <2>2. QED BY <1>4, <2>1 DEF IsNext
<1>6. PICK z : z = Research!Score(search, c) OBVIOUS
<1>7. /\ trials' = Append(trials, [at |-> c, score |-> z])
      /\ best' = IF best = 0 \/ z > trials[best].score THEN Len(trials) + 1 ELSE best
      /\ reason' \in {"early_stop_score_reached", "none"}
  BY <1>1, <1>4, <1>6 DEF Research!Try
<1>8. c \in Research!Candidates(search.space) /\ z \in Int
  <2>1. c \in Research!Candidates(search.space) BY <1>3, <1>5
  <2>2. search \in Research!Search /\ search.space \in Spaces BY DEF SearchInv, Research!Search, Spaces
  <2>3. Under(c, c, DOMAIN search.space)
    <3>1. \A k \in DOMAIN search.space : c[k] \in Nat BY <2>1, <2>2, CandidatesAre
    <3>2. QED BY <3>1 DEF Under
  <2>4. z \in Int BY <1>6, <2>1, <2>2, <2>3, ScoreRises
  <2>5. QED BY <2>1, <2>4
<1>9. PICK ts, us, x, n : ts = trials /\ us = trials' /\ x = [at |-> c, score |-> z] /\ n = Len(trials) + 1
  OBVIOUS
<1>10. ts \in Seq(Tried(search.space)) /\ x \in Tried(search.space) /\ us = Append(ts, x)
  BY <1>7, <1>8, <1>9 DEF SearchInv, Tried
<1>11. /\ us \in Seq(Tried(search.space)) /\ Len(us) = n /\ Len(ts) \in Nat /\ n = Len(ts) + 1
       /\ DOMAIN ts = 1..Len(ts) /\ DOMAIN us = DOMAIN ts \cup {n} /\ n \notin DOMAIN ts
       /\ us[n] = x /\ \A i \in DOMAIN ts : us[i] = ts[i]
  BY <1>9, <1>10, Grown
<1>12. us[n].at = c /\ us[n].score = z BY <1>9, <1>11
<1>13. search \in Research!Search /\ search.budget \in Nat
  BY ResearchConstants DEF SearchInv, Research!Search
<1>14. Len(us) <= search.budget BY <1>2, <1>9, <1>11, <1>13
<1>15. \A i \in DOMAIN us : us[i].score = Research!Score(search, us[i].at)
  <2>1. \A i \in DOMAIN ts : ts[i].score = Research!Score(search, ts[i].at) BY <1>9 DEF SearchInv
  <2>2. QED BY <1>6, <1>11, <1>12, <2>1
<1>16. \A i, j \in DOMAIN us : us[i].at = us[j].at => i = j
  <2>1. \A i, j \in DOMAIN ts : ts[i].at = ts[j].at => i = j BY <1>9 DEF SearchInv
  <2>2. \A i \in DOMAIN ts : ts[i].at # c BY <1>3, <1>5, <1>9
  <2>3. QED BY <1>11, <1>12, <2>1, <2>2
<1>17. best' \in DOMAIN us /\ \A i \in DOMAIN us : us[i].score <= us[best'].score
  <2>1. \A i \in DOMAIN ts : ts[i].score \in Int
    <3>1. \A i \in DOMAIN ts : ts[i] \in Tried(search.space) BY <1>10, <1>11
    <3>2. QED BY <3>1 DEF Tried
  <2>2. IF Len(ts) = 0 THEN best = 0
        ELSE best \in DOMAIN ts /\ \A i \in DOMAIN ts : ts[i].score <= ts[best].score
    BY <1>9 DEF SearchInv
  <2>3. best' = IF best = 0 \/ z > ts[best].score THEN n ELSE best BY <1>7, <1>9
  <2>4. CASE best = 0
    <3>1. Len(ts) = 0 BY <1>11, <2>2, <2>4
    <3>2. DOMAIN us = {n} /\ best' = n BY <1>11, <2>3, <2>4, <3>1
    <3>3. QED BY <1>8, <1>12, <3>2
  <2>5. CASE best # 0
    <3>1. best \in DOMAIN ts /\ \A i \in DOMAIN ts : ts[i].score <= ts[best].score BY <2>2, <2>5
    <3>2. CASE z > ts[best].score
      <4>1. best' = n BY <2>3, <3>2
      <4>2. \A i \in DOMAIN ts : us[i].score <= z BY <1>8, <1>11, <2>1, <3>1, <3>2
      <4>3. QED BY <1>8, <1>11, <1>12, <4>1, <4>2
    <3>3. CASE ~(z > ts[best].score)
      <4>1. best' = best BY <2>3, <2>5, <3>3
      <4>2. z <= ts[best].score BY <1>8, <2>1, <3>1, <3>3
      <4>3. QED BY <1>11, <1>12, <3>1, <4>1, <4>2
    <3>4. QED BY <3>2, <3>3
  <2>6. QED BY <2>4, <2>5
<1>18. PICK Q : Q = Research!Candidates(search.space) \ {us[i].at : i \in DOMAIN us} OBVIOUS
<1>19. Q \subseteq R
  <2>1. \A i \in DOMAIN ts : i \in DOMAIN us /\ us[i].at = ts[i].at BY <1>11
  <2>2. R = Research!Candidates(search.space) \ {ts[i].at : i \in DOMAIN ts}
    BY <1>1, <1>9 DEF Research!Remaining
  <2>3. QED BY <1>18, <2>1, <2>2
<1>20. search.method = "bayesian" => \A i \in DOMAIN us : \A d \in Q :
         Research!Distance(search.space, us[i].at) <= Research!Distance(search.space, d)
  <2> SUFFICES ASSUME search.method = "bayesian", NEW i \in DOMAIN us, NEW d \in Q
               PROVE  Research!Distance(search.space, us[i].at) <= Research!Distance(search.space, d)
    OBVIOUS
  <2>1. d \in R BY <1>19
  <2>2. CASE i \in DOMAIN ts
    <3>1. Research!Distance(search.space, ts[i].at) <= Research!Distance(search.space, d)
      BY <1>1, <1>9, <2>1, <2>2 DEF SearchInv, Research!CentreFirst
    <3>2. QED BY <1>11, <2>2, <3>1
  <2>3. CASE i = n
    <3>1. \A e \in R : Research!Distance(search.space, c) <= Research!Distance(search.space, e)
      BY <1>3, <1>5, <1>13, NextIsNear
    <3>2. QED BY <1>12, <2>1, <2>3, <3>1
  <2>4. QED BY <1>11, <2>2, <2>3
<1>21. Research!CentreFirst'
  <2>1. Research!Remaining' = Q BY <1>2, <1>9, <1>18 DEF Research!Remaining
  <2>2. QED BY <1>2, <1>9, <1>20, <2>1 DEF Research!CentreFirst
<1>22. reason' \in Research!Reasons \cup {"none"} /\ ~Research!Exhausted'
  BY <1>7 DEF Research!Reasons, Research!Exhausted
<1>23. Len(us) # 0 BY <1>11
<1>24. QED BY <1>2, <1>9, <1>11, <1>13, <1>14, <1>15, <1>16, <1>17, <1>21, <1>22, <1>23 DEF SearchInv

LEMMA SearchStep ==
  ASSUME SearchInv, Research!Next
  PROVE  SearchInv'
<1>1. CASE Research!Try BY <1>1, TryStep
<1>2. ASSUME search' = search, trials' = trials, best' = best,
             reason' \in Research!Reasons, Research!Exhausted' => Research!Remaining = {}
      PROVE  SearchInv'
  <2>1. Research!Remaining' = Research!Remaining BY <1>2 DEF Research!Remaining
  <2>2. Research!CentreFirst' BY <1>2, <2>1 DEF SearchInv, Research!CentreFirst
  <2>3. QED BY <1>2, <2>1, <2>2 DEF SearchInv
<1>3. CASE Research!SpendTrials
  BY <1>2, <1>3 DEF Research!SpendTrials, Research!Stop, Research!Reasons, Research!Exhausted
<1>4. CASE Research!OutOfTime
  BY <1>2, <1>4 DEF Research!OutOfTime, Research!Stop, Research!Reasons, Research!Exhausted
<1>5. CASE Research!Exhaust
  BY <1>2, <1>5 DEF Research!Exhaust, Research!Stop, Research!Reasons
<1>6. QED BY <1>1, <1>3, <1>4, <1>5 DEF Research!Next

ResearchInv == part = "research" => SearchInv

LEMMA ResearchBegins ==
  ASSUME MCInit
  PROVE  ResearchInv
<1>1. SUFFICES ASSUME part = "research" PROVE SearchInv
  BY DEF ResearchInv
<1>2. search \in Research!Search /\ trials = <<>> /\ best = 0 /\ reason = "none"
  BY <1>1 DEF MCInit, Research!Init
<1>3. trials \in Seq(Tried(search.space)) /\ Len(trials) = 0 /\ DOMAIN trials = {} BY <1>2
<1>4. search.budget \in Nat BY <1>2, ResearchConstants DEF Research!Search
<1>5. Len(trials) <= search.budget BY <1>3, <1>4
<1>6. Research!CentreFirst BY <1>3 DEF Research!CentreFirst
<1>7. QED BY <1>2, <1>3, <1>5, <1>6 DEF SearchInv, Research!Exhausted

LEMMA ResearchStep ==
  ASSUME ResearchInv, [MCNext]_mcvars
  PROVE  ResearchInv'
<1>1. SUFFICES ASSUME part' = "research" PROVE SearchInv'
  BY DEF ResearchInv
<1>2. part' = part
  BY DEF MCNext, mcvars
<1>3. SearchInv BY <1>1, <1>2 DEF ResearchInv
<1>4. Research!Next \/ UNCHANGED researchVars
  BY <1>1, <1>2 DEF MCNext, mcvars, BacktestsNext, PortfoliosNext, ResearchNext
<1>5. CASE Research!Next BY <1>3, <1>5, SearchStep
<1>6. CASE UNCHANGED researchVars
  <2>1. search' = search /\ trials' = trials /\ best' = best /\ reason' = reason
    BY <1>6 DEF researchVars
  <2>2. QED BY <1>3, <2>1 DEF SearchInv, Research!Exhausted, Research!Remaining, Research!CentreFirst
<1>7. QED BY <1>4, <1>5, <1>6

\* A search tries no candidate twice, in the order of its method, and knows
\* the best trial it has made.
THEOREM SearchInvariant == MCSpec => []ResearchInv
BY ResearchBegins, ResearchStep, PTL DEF MCSpec

\* A search that has tried all has as many trials as there are candidates.
LEMMA AllTried ==
  ASSUME SearchInv, Research!Exhausted
  PROVE  /\ \A c \in Research!Candidates(search.space) : \E i \in DOMAIN trials : trials[i].at = c
         /\ Len(trials) \in Nat /\ DOMAIN trials = 1..Len(trials)
         /\ \A i \in DOMAIN trials : trials[i].at \in Research!Candidates(search.space)
<1>1. Research!Remaining = {} BY DEF SearchInv
<1>2. \A c \in Research!Candidates(search.space) : \E i \in DOMAIN trials : trials[i].at = c
  BY <1>1 DEF Research!Remaining
<1>3. trials \in Seq(Tried(search.space)) BY DEF SearchInv
<1>4. Len(trials) \in Nat /\ DOMAIN trials = 1..Len(trials) BY <1>3
<1>5. \A i \in DOMAIN trials : trials[i] \in Tried(search.space) BY <1>3, <1>4
<1>6. QED BY <1>2, <1>4, <1>5 DEF Tried

LEMMA CountTried ==
  ASSUME SearchInv, Research!Exhausted
  PROVE  Len(trials) = Cardinality(Research!Candidates(search.space))
<1>1. PICK C, n : C = Research!Candidates(search.space) /\ n = Len(trials) OBVIOUS
<1>2. PICK f : f = [i \in 1..n |-> trials[i].at] OBVIOUS
<1>3. n \in Nat /\ DOMAIN trials = 1..n BY <1>1, AllTried
<1>4. f \in [1..n -> C] /\ \A c \in C : \E i \in 1..n : f[i] = c
  BY <1>1, <1>2, <1>3, AllTried
<1>5. \A i, j \in 1..n : f[i] = f[j] => i = j BY <1>2, <1>3 DEF SearchInv
<1>6. ExistsBijection(1..n, C)
  <2>1. f \in Injection(1..n, C) BY <1>4, <1>5 DEF Injection, IsInjective
  <2>2. f \in Surjection(1..n, C) BY <1>4 DEF Surjection
  <2>3. QED BY <2>1, <2>2 DEF ExistsBijection, Bijection
<1>7. IsFiniteSet(1..n) /\ Cardinality(1..n) = n
  <2>1. 1 \in Int /\ n \in Int BY <1>3
  <2>2. IsFiniteSet(1..n) /\ Cardinality(1..n) = IF 1 > n THEN 0 ELSE n - 1 + 1 BY <2>1, FS_Interval
  <2>3. QED BY <1>3, <2>2
<1>8. Cardinality(C) = n BY <1>6, <1>7, FS_Bijection
<1>9. QED BY <1>1, <1>8

\* The candidate at one end of each range.
Corner(space, last) == [k \in DOMAIN space |-> IF last THEN Size(space, k) ELSE 1]

LEMMA CornerIs ==
  ASSUME NEW space \in Spaces, NEW last \in BOOLEAN
  PROVE  /\ Corner(space, last) \in Research!Candidates(space)
         /\ \A k \in DOMAIN space : Research!Axis(space[k])[Corner(space, last)[k]] =
              IF last THEN space[k].max ELSE space[k].min
         /\ \A c \in Research!Candidates(space) :
              IF last THEN Under(c, Corner(space, last), DOMAIN space)
              ELSE Under(Corner(space, last), c, DOMAIN space)
<1>1. PICK e : e = Corner(space, last) OBVIOUS
<1>2. \A k \in DOMAIN space : /\ e[k] = IF last THEN Size(space, k) ELSE 1
                              /\ Size(space, k) \in Nat \ {0}
                              /\ AxisFits(Research!Axis(space[k]), space[k])
                              /\ Size(space, k) = Len(Research!Axis(space[k]))
  BY <1>1, SpaceFits DEF Corner, Size
<1>3. \A k \in DOMAIN space : e[k] \in Nat /\ e[k] \in 1..Size(space, k) BY <1>2
<1>4. e \in [DOMAIN space -> Nat] BY <1>1, <1>3 DEF Corner
<1>5. e \in Research!Candidates(space) BY <1>3, <1>4, CandidatesAre
<1>6. \A k \in DOMAIN space : Research!Axis(space[k])[e[k]] = IF last THEN space[k].max ELSE space[k].min
  BY <1>2 DEF AxisFits
<1>7. ASSUME NEW c \in Research!Candidates(space)
      PROVE  IF last THEN Under(c, e, DOMAIN space) ELSE Under(e, c, DOMAIN space)
  <2>1. \A k \in DOMAIN space : c[k] \in 1..Size(space, k) BY CandidatesAre
  <2>2. \A k \in DOMAIN space : IF last THEN c[k] <= e[k] ELSE e[k] <= c[k] BY <1>2, <2>1
  <2>3. QED BY <2>2 DEF Under
<1>8. QED BY <1>1, <1>5, <1>6, <1>7

\* All candidates are tried, both ends of each range among them.
LEMMA CoversAll ==
  ASSUME SearchInv
  PROVE  Research!Covers
<1>1. SUFFICES ASSUME Research!Exhausted
               PROVE  /\ Len(trials) = Product([k \in DOMAIN search.space |-> Research!Ceiling(search.space[k])])
                      /\ \A i, j \in DOMAIN trials : trials[i].at = trials[j].at => i = j
                      /\ \A k \in DOMAIN search.space : \A v \in {search.space[k].min, search.space[k].max} :
                           \E i \in DOMAIN trials : Research!Axis(search.space[k])[trials[i].at[k]] = v
  BY DEF Research!Covers, Product
<1>2. PICK space \in Spaces : space = search.space BY DEF SearchInv, Research!Search, Spaces
<1>3. PICK g : g = [k \in DOMAIN space |-> Research!Ceiling(space[k])] OBVIOUS
<1>4. DOMAIN g = DOMAIN space /\ IsFiniteSet(DOMAIN space) BY <1>3, SpaceFits
<1>5. \A k \in DOMAIN space : g[k] = Size(space, k) /\ g[k] \in Nat BY <1>3, SpaceFits DEF AxisFits, Size
<1>6. Product(g) = Cardinality(Grid(g, DOMAIN space)) BY <1>4, <1>5, ProductCounts
<1>7. Grid(g, DOMAIN space) = Research!Candidates(space)
  <2>1. \A c : c \in Grid(g, DOMAIN space) <=> c \in Research!Candidates(space)
    BY <1>5, CandidatesAre DEF Grid
  <2>2. QED BY <2>1
<1>8. Len(trials) = Product(g) BY <1>1, <1>2, <1>6, <1>7, CountTried
<1>9. \A i, j \in DOMAIN trials : trials[i].at = trials[j].at => i = j BY DEF SearchInv
<1>10. ASSUME NEW k \in DOMAIN space, NEW last \in BOOLEAN
       PROVE  \E i \in DOMAIN trials : Research!Axis(space[k])[trials[i].at[k]] =
                IF last THEN space[k].max ELSE space[k].min
  <2>1. PICK e : e = Corner(space, last) OBVIOUS
  <2>2. e \in Research!Candidates(space) /\ Research!Axis(space[k])[e[k]] =
          IF last THEN space[k].max ELSE space[k].min
    BY <2>1, CornerIs
  <2>3. PICK i \in DOMAIN trials : trials[i].at = e BY <1>1, <1>2, <2>2, AllTried
  <2>4. QED BY <2>2, <2>3
<1>11. ASSUME NEW k \in DOMAIN space, NEW v \in {space[k].min, space[k].max}
       PROVE  \E i \in DOMAIN trials : Research!Axis(space[k])[trials[i].at[k]] = v
  <2>1. CASE v = space[k].min
    <3>1. \E i \in DOMAIN trials : Research!Axis(space[k])[trials[i].at[k]] = space[k].min
      <4>1. FALSE \in BOOLEAN OBVIOUS
      <4>2. QED BY <1>10, <4>1
    <3>2. QED BY <2>1, <3>1
  <2>2. CASE v = space[k].max
    <3>1. \E i \in DOMAIN trials : Research!Axis(space[k])[trials[i].at[k]] = space[k].max
      <4>1. TRUE \in BOOLEAN OBVIOUS
      <4>2. QED BY <1>10, <4>1
    <3>2. QED BY <2>2, <3>1
  <2>3. QED BY <2>1, <2>2
<1>12. QED BY <1>2, <1>3, <1>8, <1>9, <1>11

\* The best trial is at a corner: any other is below the one there.
LEMMA BestIsCorner ==
  ASSUME SearchInv
  PROVE  Research!BestAtCorner
<1>1. SUFFICES ASSUME Research!Exhausted, NEW k \in DOMAIN search.space
               PROVE  Research!Axis(search.space[k])[trials[best].at[k]] =
                        IF search.maximize THEN search.space[k].max ELSE search.space[k].min
  BY DEF Research!BestAtCorner
<1>2. PICK space \in Spaces : space = search.space BY DEF SearchInv, Research!Search, Spaces
<1>3. PICK up \in BOOLEAN : up = search.maximize BY DEF SearchInv, Research!Search
<1>4. PICK e : e = Corner(space, up) OBVIOUS
<1>5. e \in Research!Candidates(space) BY <1>4, CornerIs
<1>6. PICK i \in DOMAIN trials : trials[i].at = e BY <1>1, <1>2, <1>5, AllTried
<1>7. Len(trials) # 0 /\ Len(trials) \in Nat BY <1>1, <1>6, AllTried
<1>8. best \in DOMAIN trials /\ \A j \in DOMAIN trials : trials[j].score <= trials[best].score
  BY <1>7 DEF SearchInv
<1>9. PICK c : c = trials[best].at OBVIOUS
<1>10. c \in Research!Candidates(space) BY <1>1, <1>2, <1>8, <1>9, AllTried
<1>11. PICK x, y : x = Research!Score(search, c) /\ y = Research!Score(search, e) OBVIOUS
<1>12. y <= x
  <2>1. trials[best].score = x /\ trials[i].score = y BY <1>6, <1>8, <1>9, <1>11 DEF SearchInv
  <2>2. QED BY <1>8, <2>1
<1>13. search \in Research!Search BY DEF SearchInv
<1>14. IF up THEN Under(c, e, DOMAIN space) ELSE Under(e, c, DOMAIN space) BY <1>4, <1>10, CornerIs
<1>15. c = e
  <2>1. CASE up
    <3>1. Under(c, e, DOMAIN search.space) BY <1>2, <1>14, <2>1
    <3>2. x \in Int /\ y \in Int /\ (c # e => x < y)
      BY <1>2, <1>3, <1>5, <1>10, <1>11, <1>13, <2>1, <3>1, ScoreRises
    <3>3. QED BY <1>12, <3>2
  <2>2. CASE ~up
    <3>1. Under(e, c, DOMAIN search.space) BY <1>2, <1>14, <2>2
    <3>2. x \in Int /\ y \in Int /\ (e # c => x < y)
      BY <1>2, <1>3, <1>5, <1>10, <1>11, <1>13, <2>2, <3>1, ScoreRises
    <3>3. QED BY <1>12, <3>2
  <2>3. QED BY <2>1, <2>2
<1>16. Research!Axis(space[k])[e[k]] = IF up THEN space[k].max ELSE space[k].min BY <1>2, <1>4, CornerIs
<1>17. QED BY <1>2, <1>3, <1>9, <1>15, <1>16

\* A search that is exhausted has tried every combination of values once, the
\* ends of each range with them, and names as best the upper end of every
\* range, or the lower one to minimise, whatever the metric is worth; a
\* bayesian search that ends early has left out no candidate nearer to the
\* middle (build_optimization_result, _evaluate_trial).
THEOREM SearchCorrect ==
  MCSpec => [](SearchesFit /\ (part = "research" => Research!TypeOK))
<1>1. SearchInv => Research!TypeOK
  <2> SUFFICES ASSUME SearchInv PROVE Research!TypeOK
    OBVIOUS
  <2>1. Len(trials) \in Nat /\ DOMAIN trials = 1..Len(trials) BY DEF SearchInv
  <2>2. best \in 0..Len(trials) BY <2>1 DEF SearchInv
  <2>3. \A i \in DOMAIN trials : trials[i] \in Tried(search.space) BY <2>1 DEF SearchInv
  <2>4. QED BY <2>2, <2>3 DEF SearchInv, Tried, Research!TypeOK
<1>2. SearchInv => Research!Covers /\ Research!BestAtCorner /\ Research!CentreFirst
  BY CoversAll, BestIsCorner DEF SearchInv
<1>3. ResearchInv => SearchesFit /\ (part = "research" => Research!TypeOK)
  BY <1>1, <1>2 DEF ResearchInv, SearchesFit
<1>4. QED BY <1>3, SearchInvariant, PTL

-----------------------------------------------------------------------------
(* Versions of portfolios                                                  *)

\* The requests that may yet touch portfolio p: each was let in at a version
\* below the bound, and touches once.
Changing == {"check", "place", "append", "pick", "replace", "weigh", "constrain", "touch"}

Changes(p) == {t \in Threads : worker[t].of = p /\ worker[t].at \in Changing}

VersionsBounded ==
  \A p \in PortfolioIds : object[p] # NoPortfolio =>
    /\ object[p].version \in Nat \ {0}
    /\ object[p].version + Cardinality(Changes(p)) <= MaxVersion + Cardinality(Threads)

PlanTyped == plan # NoPlan => plan.scale \in Nat /\ DOMAIN plan.target \subseteq Members

\* No version changes, and nobody who could change one is let in.
Quiet ==
  /\ \A k \in PortfolioIds : object'[k] # NoPortfolio =>
       object[k] # NoPortfolio /\ object'[k].version = object[k].version
  /\ \A u \in Threads : worker'[u].at \in Changing =>
       worker[u].at \in Changing /\ worker'[u].of = worker[u].of

\* Finitely many requests change a portfolio.
LEMMA ChangesCounted ==
  ASSUME IsFiniteSet(Threads), NEW p
  PROVE  /\ IsFiniteSet(Changes(p)) /\ Cardinality(Changes(p)) \in Nat
         /\ Cardinality(Threads) \in Nat /\ Cardinality(Changes(p)) <= Cardinality(Threads)
<1>1. Changes(p) \in SUBSET Threads BY DEF Changes
<1>2. QED BY <1>1, FS_Subset, FS_CardinalityType

\* Quiet steps keep the bound.
LEMMA QuietKeeps ==
  ASSUME IsFiniteSet(Threads), MaxVersion \in Nat, VersionsBounded, Quiet
  PROVE  VersionsBounded'
<1>1. SUFFICES ASSUME NEW p \in PortfolioIds, object'[p] # NoPortfolio
               PROVE  /\ object'[p].version \in Nat \ {0}
                      /\ object'[p].version + Cardinality(Changes(p)') <= MaxVersion + Cardinality(Threads)
  BY DEF VersionsBounded
<1>2. /\ object'[p].version = object[p].version /\ object[p].version \in Nat \ {0}
      /\ object[p].version + Cardinality(Changes(p)) <= MaxVersion + Cardinality(Threads)
  BY <1>1 DEF Quiet, VersionsBounded
<1>3. PICK S, T : S = Changes(p) /\ T = Changes(p)' OBVIOUS
<1>4. T \in SUBSET S BY <1>3 DEF Changes, Quiet
<1>5. IsFiniteSet(S) /\ Cardinality(S) \in Nat /\ Cardinality(Threads) \in Nat BY <1>3, ChangesCounted
<1>6. Cardinality(T) <= Cardinality(S) /\ Cardinality(T) \in Nat BY <1>4, <1>5, FS_Subset, FS_CardinalityType
<1>7. QED BY <1>2, <1>3, <1>5, <1>6

\* A step of a request that changes no version is quiet.
LEMMA SharingQuiet ==
  ASSUME SharedInv, NEW t \in Threads, Busy(t), NEW q, q.of = worker[t].of,
         q.at \in Changing => worker[t].at \in Changing, worker'[t] = q,
         \A u \in Threads \ {t} : worker'[u].at = worker[u].at /\ worker'[u].of = worker[u].of,
         NEW r, r.version = object[worker[t].of].version,
         object' = object \/ object' = [object EXCEPT ![worker[t].of] = r]
  PROVE  Quiet
<1>1. PICK p \in PortfolioIds : p = worker[t].of /\ object[p] # NoPortfolio BY DEF SharedInv, SharedTypes
<1>2. object \in [PortfolioIds -> Shared!Portfolio \cup {NoPortfolio}] /\ worker \in [Threads -> Held]
  BY DEF SharedInv, SharedTypes
<1>3. \A k \in PortfolioIds : object'[k] # NoPortfolio =>
        object[k] # NoPortfolio /\ object'[k].version = object[k].version
  BY <1>1, <1>2
<1>4. \A u \in Threads : worker'[u].at \in Changing => worker[u].at \in Changing /\ worker'[u].of = worker[u].of
  BY <1>2
<1>5. QED BY <1>3, <1>4 DEF Quiet

LEMMA StepQuiet ==
  ASSUME SharedInv, NEW t \in Threads, Busy(t), NEW q, q.of = worker[t].of,
         q.at \in Changing => worker[t].at \in Changing, worker' = [worker EXCEPT ![t] = q],
         NEW r, r.version = object[worker[t].of].version,
         object' = object \/ object' = [object EXCEPT ![worker[t].of] = r]
  PROVE  Quiet
<1>1. worker \in [Threads -> Held] BY DEF SharedInv, SharedTypes
<1>2. worker'[t] = q /\ \A u \in Threads \ {t} : worker'[u] = worker[u] BY <1>1
<1>3. QED BY <1>2, SharingQuiet

\* A request that ends changes none any more.
LEMMA EndQuiet ==
  ASSUME SharedInv, NEW t \in Threads, object' = object, worker' = [worker EXCEPT ![t] = Shared!Idle]
  PROVE  Quiet
<1>1. PICK q : q = Shared!Idle OBVIOUS
<1>2. q.at \notin Changing BY <1>1, IdleBodied DEF Changing
<1>3. worker \in [Threads -> Held] BY DEF SharedInv, SharedTypes
<1>4. QED BY <1>1, <1>2, <1>3 DEF Quiet

\* Whatever a request does but touch its portfolio is quiet.
LEMMA StepsQuiet ==
  ASSUME SharedInv, NEW t \in Threads, Shared!Steps(t), ~Shared!Touch(t)
  PROVE  Quiet
<1>0. ASSUME Busy(t)
      PROVE  /\ object[worker[t].of] \in Shared!Portfolio /\ worker[t] \in Held
             /\ object \in [PortfolioIds -> Shared!Portfolio \cup {NoPortfolio}]
  BY <1>0 DEF SharedInv, SharedTypes
<1>1. CASE Shared!CheckMember(t)
  <2>1. PICK q : q = [worker[t] EXCEPT !.at = "place"] OBVIOUS
  <2>2. /\ Busy(t) /\ worker[t].at = "check" /\ object' = object
        /\ worker' = [worker EXCEPT ![t] = q] \/ worker' = [worker EXCEPT ![t] = Shared!Idle]
    BY <1>1, <2>1 DEF Shared!CheckMember, Shared!At, Shared!Goto, Busy
  <2>3. q.of = worker[t].of /\ worker[t].at \in Changing BY <1>0, <2>1, <2>2 DEF Held, Changing
  <2>4. QED BY <2>2, <2>3, StepQuiet, EndQuiet
<1>2. CASE Shared!PlaceMember(t)
  <2>1. PICK ns, new, place :
          /\ place \in {"append", "save", "touch"} /\ Busy(t) /\ worker[t].at = "place"
          /\ worker'[t] = [worker[t] EXCEPT !.at = place]
          /\ \A u \in Threads \ {t} : worker'[u] = worker[u] \/ worker'[u] = [worker[u] EXCEPT !.members = new[u]]
          /\ object' = object \/ object' = [object EXCEPT ![worker[t].of].members = ns]
    <3> DEFINE m   == worker[t].member
               ms  == object[worker[t].of].members
               its == ms[Shared!Min({i \in DOMAIN ms : ms[i].strategy = m.strategy})]
               ns  == Shared!Reweighed(ms, its, m.weight)
               new == [u \in Threads |-> Shared!Reweighed(worker[u].members, its, m.weight)]
    <3>0. worker \in [Threads -> Held] BY DEF SharedInv, SharedTypes
    <3>1. Busy(t) /\ worker[t].at = "place" BY <1>2 DEF Shared!PlaceMember, Shared!At, Busy
    <3>2. CASE /\ object' = object
               /\ \E place \in {"append", "save"} : worker' = [worker EXCEPT ![t] = [worker[t] EXCEPT !.at = place]]
      <4>1. PICK place \in {"append", "save"} : worker' = [worker EXCEPT ![t] = [worker[t] EXCEPT !.at = place]]
        BY <3>2
      <4>2. worker'[t] = [worker[t] EXCEPT !.at = place] /\ \A u \in Threads \ {t} : worker'[u] = worker[u]
        BY <3>0, <4>1
      <4>3. QED BY <3>1, <3>2, <4>2
    <3>3. CASE /\ object' = [object EXCEPT ![worker[t].of].members = ns]
               /\ worker' = [u \in Threads |->
                    IF u = t THEN [worker[t] EXCEPT !.at = "touch"]
                    ELSE IF Shared!At(u, "replace") /\ worker[u].of = worker[t].of
                      THEN [worker[u] EXCEPT !.members = Shared!Reweighed(@, its, m.weight)]
                    ELSE worker[u]]
      <4> HIDE DEF ns, its, m
      <4>1. worker'[t] = [worker[t] EXCEPT !.at = "touch"] BY <3>3
      <4>2. \A u \in Threads \ {t} : worker'[u] = worker[u] \/ worker'[u] = [worker[u] EXCEPT !.members = new[u]]
        BY <3>3
      <4>3. /\ Busy(t) /\ worker[t].at = "place" /\ worker'[t] = [worker[t] EXCEPT !.at = "touch"]
            /\ \A u \in Threads \ {t} : worker'[u] = worker[u] \/ worker'[u] = [worker[u] EXCEPT !.members = new[u]]
            /\ object' = [object EXCEPT ![worker[t].of].members = ns]
        BY <3>1, <3>3, <4>1, <4>2
      <4> HIDE DEF new
      <4>4. QED BY <4>3
    <3>4. QED BY <1>2, <3>2, <3>3 DEF Shared!PlaceMember, Shared!Step, Shared!Goto, Shared!Mine
  <2>2. PICK r : r = [object[worker[t].of] EXCEPT !.members = ns] OBVIOUS
  <2>3. PICK q : q = [worker[t] EXCEPT !.at = place] OBVIOUS
  <2>4. worker \in [Threads -> Held] BY DEF SharedInv, SharedTypes
  <2>5. q.of = worker[t].of /\ worker[t].at \in Changing /\ worker'[t] = q
    BY <1>0, <2>1, <2>3 DEF Held, Changing
  <2>6. \A u \in Threads \ {t} : worker'[u].at = worker[u].at /\ worker'[u].of = worker[u].of
    BY <2>1, <2>4 DEF Held
  <2>7. r.version = object[worker[t].of].version BY <1>0, <2>1, <2>2 DEF Shared!Portfolio
  <2>8. object' = object \/ object' = [object EXCEPT ![worker[t].of] = r] BY <2>1, <2>2
  <2>9. QED BY <2>1, <2>5, <2>6, <2>7, <2>8, SharingQuiet
<1>3. CASE Shared!AppendMember(t)
  <2>1. PICK n \in Nat :
          object' = [object EXCEPT ![worker[t].of].members = Append(@, [worker[t].member EXCEPT !.nth = n])]
    BY <1>3, FreshNumbers DEF Shared!AppendMember
  <2>2. PICK r : r = [object[worker[t].of] EXCEPT !.members = Append(@, [worker[t].member EXCEPT !.nth = n])]
    OBVIOUS
  <2>3. PICK q : q = [worker[t] EXCEPT !.at = "touch"] OBVIOUS
  <2>4. Busy(t) /\ worker[t].at = "append" /\ worker' = [worker EXCEPT ![t] = q]
    BY <1>3, <2>3 DEF Shared!AppendMember, Shared!At, Shared!Step, Shared!Goto, Busy
  <2>5. object' = [object EXCEPT ![worker[t].of] = r] BY <2>1, <2>2
  <2>6. q.of = worker[t].of /\ worker[t].at \in Changing BY <1>0, <2>3, <2>4 DEF Held, Changing
  <2>7. r.version = object[worker[t].of].version BY <1>0, <2>2, <2>4 DEF Shared!Portfolio
  <2>8. QED BY <2>4, <2>5, <2>6, <2>7, StepQuiet
<1>4. CASE Shared!PickOthers(t)
  <2>1. PICK q : q = [worker[t] EXCEPT !.at = "replace",
                                       !.members = Shared!Without(object[worker[t].of].members,
                                                                  worker[t].member.strategy)]
    OBVIOUS
  <2>2. /\ Busy(t) /\ worker[t].at = "pick" /\ object' = object
        /\ worker' = [worker EXCEPT ![t] = q] \/ worker' = [worker EXCEPT ![t] = Shared!Idle]
    BY <1>4, <2>1 DEF Shared!PickOthers, Shared!At, Shared!Goto, Shared!Mine, Busy
  <2>3. q.of = worker[t].of /\ worker[t].at \in Changing BY <1>0, <2>1, <2>2 DEF Held, Changing
  <2>4. QED BY <2>2, <2>3, StepQuiet, EndQuiet
<1>5. CASE Shared!ReplaceMembers(t)
  <2>1. PICK r : r = [object[worker[t].of] EXCEPT !.members = worker[t].members] OBVIOUS
  <2>2. PICK q : q = [worker[t] EXCEPT !.at = "touch"] OBVIOUS
  <2>3. /\ Busy(t) /\ worker[t].at = "replace" /\ worker' = [worker EXCEPT ![t] = q]
        /\ object' = [object EXCEPT ![worker[t].of] = r]
    BY <1>5, <2>1, <2>2 DEF Shared!ReplaceMembers, Shared!At, Shared!Step, Shared!Goto, Busy
  <2>4. q.of = worker[t].of /\ worker[t].at \in Changing BY <1>0, <2>2, <2>3 DEF Held, Changing
  <2>5. r.version = object[worker[t].of].version BY <1>0, <2>1, <2>3 DEF Shared!Portfolio
  <2>6. QED BY <2>3, <2>4, <2>5, StepQuiet
<1>6. CASE Shared!WeighMembers(t)
  <2>1. PICK q : q = [worker[t] EXCEPT !.at = "constrain"] OBVIOUS
  <2>2. /\ Busy(t) /\ worker[t].at = "weigh" /\ object' = object
        /\ worker' = [worker EXCEPT ![t] = q] \/ worker' = [worker EXCEPT ![t] = Shared!Idle]
    BY <1>6, <2>1 DEF Shared!WeighMembers, Shared!At, Shared!Goto, Busy
  <2>3. q.of = worker[t].of /\ worker[t].at \in Changing BY <1>0, <2>1, <2>2 DEF Held, Changing
  <2>4. QED BY <2>2, <2>3, StepQuiet, EndQuiet
<1>7. CASE Shared!Constrain(t)
  <2>1. PICK r : r = [object[worker[t].of] EXCEPT !.limits = worker[t].limits] OBVIOUS
  <2>2. PICK q : /\ \E place \in {"touch", "save"} : q = [worker[t] EXCEPT !.at = place]
                 /\ worker' = [worker EXCEPT ![t] = q]
    BY <1>7 DEF Shared!Constrain, Shared!Step, Shared!Goto
  <2>3. Busy(t) /\ worker[t].at = "constrain" /\ object' = [object EXCEPT ![worker[t].of] = r]
    BY <1>7, <2>1 DEF Shared!Constrain, Shared!At, Busy
  <2>4. q.of = worker[t].of /\ worker[t].at \in Changing BY <1>0, <2>2, <2>3 DEF Held, Changing
  <2>5. r.version = object[worker[t].of].version BY <1>0, <2>1, <2>3 DEF Shared!Portfolio
  <2>6. QED BY <2>2, <2>3, <2>4, <2>5, StepQuiet
<1>8. CASE Shared!Save(t) BY <1>8, EndQuiet DEF Shared!Save, Shared!Goto
<1>9. CASE Shared!DeletePortfolio(t) BY <1>9, EndQuiet DEF Shared!DeletePortfolio, Shared!Goto
<1>10. ASSUME NEW named, NEW score, Shared!Rebalance(t, named, score) PROVE Quiet
  BY <1>10, EndQuiet DEF Shared!Rebalance, Shared!Goto
<1>11. QED BY <1>1, <1>2, <1>3, <1>4, <1>5, <1>6, <1>7, <1>8, <1>9, <1>10 DEF Shared!Steps

\* The steps that are not quiet: a request is let in below the bound, one
\* touches its portfolio and can no more, or a portfolio is made that nobody has.
LEMMA VersionsStep ==
  ASSUME IsFiniteSet(Threads), MaxVersion \in Nat \ {0}, SharedInv, VersionsBounded, Shared!Next
  PROVE  VersionsBounded'
<1>1. /\ object \in [PortfolioIds -> Shared!Portfolio \cup {NoPortfolio}] /\ worker \in [Threads -> Held]
      /\ \A t \in Threads : Busy(t) => worker[t].of \in PortfolioIds /\ object[worker[t].of] # NoPortfolio
      /\ listed \in SUBSET {p \in PortfolioIds : object[p] # NoPortfolio}
  BY DEF SharedInv, SharedTypes
<1>2. PICK max, all \in Nat : max = MaxVersion /\ all = Cardinality(Threads) BY FS_CardinalityType
<1>3. CASE Quiet BY <1>3, QuietKeeps
<1>4. ASSUME NEW p \in PortfolioIds, NEW limits \in Limits, Shared!CreatePortfolio(p, limits)
      PROVE  VersionsBounded'
  <2>1. PICK r : r = [limits |-> limits, members |-> <<>>, version |-> 1] OBVIOUS
  <2>2. object[p] = NoPortfolio /\ object' = [object EXCEPT ![p] = r] /\ worker' = worker
    BY <1>4, <2>1 DEF Shared!CreatePortfolio
  <2>3. \A k : Changes(k)' = Changes(k) BY <2>2 DEF Changes
  <2>4. Changes(p) = {} BY <1>1, <2>2 DEF Changes, Changing, Busy
  <2>5. object'[p].version = 1 /\ Cardinality(Changes(p)') = 0
    BY <1>1, <2>1, <2>2, <2>3, <2>4, FS_EmptySet
  <2>6. \A k \in PortfolioIds : k # p => object'[k] = object[k] BY <1>1, <2>2
  <2>7. 1 + 0 <= MaxVersion + Cardinality(Threads) BY <1>2
  <2>8. QED BY <2>3, <2>5, <2>6, <2>7 DEF VersionsBounded
<1>5. ASSUME NEW t \in Threads, Shared!Touch(t) PROVE VersionsBounded'
  <2>1. PICK p : p = worker[t].of OBVIOUS
  <2>2. PICK q : q = [worker[t] EXCEPT !.at = "save"] OBVIOUS
  <2>3. /\ worker[t].at = "touch" /\ worker' = [worker EXCEPT ![t] = q]
        /\ object' = [object EXCEPT ![p].version = @ + 1]
    BY <1>5, <2>1, <2>2 DEF Shared!Touch, Shared!At, Shared!Step, Shared!Goto
  <2>4. p \in PortfolioIds /\ object[p] # NoPortfolio /\ object[p] \in Shared!Portfolio /\ worker[t] \in Held
    BY <1>1, <2>1, <2>3 DEF Busy
  <2>5. q.at = "save" /\ q.of = p BY <2>1, <2>2, <2>4 DEF Held
  <2>6. worker'[t] = q /\ \A u \in Threads : u # t => worker'[u] = worker[u] BY <1>1, <2>3
  <2>7. t \in Changes(p) /\ Changes(p)' = Changes(p) \ {t}
    BY <2>1, <2>3, <2>5, <2>6 DEF Changes, Changing
  <2>8. \A k : k # p => Changes(k)' = Changes(k) BY <2>1, <2>5, <2>6 DEF Changes, Changing
  <2>9. object'[p].version = object[p].version + 1 BY <1>1, <2>3, <2>4 DEF Shared!Portfolio
  <2>10. \A k \in PortfolioIds : k # p => object'[k] = object[k] BY <1>1, <2>3
  <2>11. PICK n \in Nat : n = Cardinality(Changes(p)) BY ChangesCounted
  <2>12. Cardinality(Changes(p)') = n - 1 BY <2>7, <2>11, ChangesCounted, FS_RemoveElement
  <2>13. object[p].version \in Nat \ {0} /\ object[p].version + n <= MaxVersion + Cardinality(Threads)
    BY <2>4, <2>11 DEF VersionsBounded
  <2>14. /\ object'[p].version \in Nat \ {0}
         /\ object'[p].version + Cardinality(Changes(p)') <= MaxVersion + Cardinality(Threads)
    BY <1>2, <2>9, <2>11, <2>12, <2>13
  <2>15. QED BY <2>8, <2>10, <2>14 DEF VersionsBounded
<1>6. ASSUME NEW t \in Threads, NEW p \in PortfolioIds, NEW body \in Shared!Bodies, Shared!Load(t, p, body)
      PROVE  VersionsBounded'
  <2>1. PICK q : q = [body EXCEPT !.of = p] OBVIOUS
  <2>2. /\ worker[t].at = "idle" /\ p \in listed /\ object' = object /\ worker' = [worker EXCEPT ![t] = q]
        /\ body.at \notin {"delete", "plan"} => object[p].version < MaxVersion
    BY <1>6, <2>1 DEF Shared!Load, Shared!At, Shared!Goto
  <2>3. q.of = p /\ q.at = body.at
    <3>1. Bodied(q) /\ q.of = p BY <2>1, BodiesFit
    <3>2. body.at = q.at BY <2>1
    <3>3. QED BY <3>1, <3>2
  <2>4. worker'[t] = q /\ \A u \in Threads : u # t => worker'[u] = worker[u] BY <1>1, <2>2
  <2>5. \A k : k # p => Changes(k)' \in SUBSET Changes(k) BY <2>3, <2>4 DEF Changes
  <2>6. CASE q.at \notin Changing
    <3>1. Quiet BY <2>2, <2>4, <2>6 DEF Quiet
    <3>2. QED BY <1>3, <3>1
  <2>7. CASE q.at \in Changing
    <3>1. object[p] # NoPortfolio /\ object[p].version < MaxVersion
      BY <1>1, <2>2, <2>3, <2>7 DEF Changing
    <3>2. object[p].version \in Nat \ {0} BY <3>1 DEF VersionsBounded
    <3>3. PICK T : T = Changes(p)' OBVIOUS
    <3>4. T \in SUBSET Threads BY <3>3 DEF Changes
    <3>5. Cardinality(T) \in Nat /\ Cardinality(T) <= all BY <1>2, <3>4, FS_Subset, FS_CardinalityType
    <3>6. object'[p].version + Cardinality(Changes(p)') <= MaxVersion + Cardinality(Threads)
      BY <1>2, <2>2, <3>1, <3>2, <3>3, <3>5
    <3>7. ASSUME NEW k \in PortfolioIds, k # p, object[k] # NoPortfolio
          PROVE  object[k].version + Cardinality(Changes(k)') <= MaxVersion + Cardinality(Threads)
      <4>1. PICK S, U : S = Changes(k) /\ U = Changes(k)' OBVIOUS
      <4>2. U \in SUBSET S BY <2>5, <3>7, <4>1
      <4>3. IsFiniteSet(S) /\ Cardinality(S) \in Nat BY <4>1, ChangesCounted
      <4>4. Cardinality(U) \in Nat /\ Cardinality(U) <= Cardinality(S)
        BY <4>2, <4>3, FS_Subset, FS_CardinalityType
      <4>5. object[k].version \in Nat /\ object[k].version + Cardinality(S) <= MaxVersion + Cardinality(Threads)
        BY <3>7, <4>1 DEF VersionsBounded
      <4>6. QED BY <1>2, <4>1, <4>3, <4>4, <4>5
    <3>8. QED BY <2>2, <3>2, <3>6, <3>7 DEF VersionsBounded
  <2>8. QED BY <2>6, <2>7
<1>7. CASE Shared!Crash
  <2>1. PICK q : q = Shared!Idle OBVIOUS
  <2>2. object' = object /\ worker' = [t \in Threads |-> q] BY <1>7, <2>1 DEF Shared!Crash
  <2>3. q.at \notin Changing BY <2>1, IdleBodied DEF Changing
  <2>4. Quiet BY <2>2, <2>3 DEF Quiet
  <2>5. QED BY <1>3, <2>4
<1>8. ASSUME NEW t \in Threads, Shared!Steps(t) PROVE VersionsBounded'
  <2>1. CASE Shared!Touch(t) BY <1>5, <2>1
  <2>2. CASE ~Shared!Touch(t) BY <1>3, <1>8, <2>2, StepsQuiet
  <2>3. QED BY <2>1, <2>2
<1>9. QED BY <1>4, <1>6, <1>7, <1>8 DEF Shared!Next

\* The result of a rebalance has targets of members, in whole units.
LEMMA PlanStep ==
  ASSUME SharedInv, PlanTyped, Shared!Next PROVE PlanTyped'
<1>1. CASE plan' = plan BY <1>1 DEF PlanTyped
<1>2. ASSUME NEW t \in Threads, NEW named, NEW score, NamedOrScored(named, score),
             Shared!Rebalance(t, named, score)
      PROVE  PlanTyped'
  <2>1. PICK p : p = worker[t].of OBVIOUS
  <2>2. PICK S, limits, auto : /\ S = Shared!Ids(object[p].members) /\ limits = object[p].limits
                               /\ auto = Shared!AutoTargets(S, limits, score)
    OBVIOUS
  <2>3. PICK made : made = IF DOMAIN named = {} THEN auto ELSE [scale |-> 1, target |-> named] OBVIOUS
  <2>4. /\ worker[t].at = "plan"
        /\ \/ plan' = plan
           \/ /\ DOMAIN made.target \in SUBSET S
              /\ plan' = [of |-> p, version |-> object[p].version, auto |-> DOMAIN named = {},
                          scale |-> made.scale, target |-> made.target]
    BY <1>2, <2>1, <2>2, <2>3 DEF Shared!Rebalance, Shared!Mine, Shared!At
  <2>5. Busy(t) BY <2>4 DEF Busy
  <2>6. object[p].members \in Seq(Shared!Member) /\ limits \in Limit BY <2>1, <2>2, <2>5, Working
  <2>7. S \in SUBSET Nat /\ IsFiniteSet(S) /\ S \in SUBSET Members BY <2>2, <2>6, IdsOf
  <2>8. limits \in [total: Nat, single: Nat] BY <2>6 DEF Limit
  <2>9. made.scale \in Nat
    <3>1. CASE DOMAIN named = {}
      <4>1. \A s \in S : score[s] \in Nat BY <2>7, <3>1, Constants, <1>2 DEF NamedOrScored
      <4>2. auto.scale \in Nat BY <2>2, <2>7, <2>8, <4>1, AutoGives
      <4>3. QED BY <2>3, <3>1, <4>2
    <3>2. CASE DOMAIN named # {} BY <2>3, <3>2
    <3>3. QED BY <3>1, <3>2
  <2>10. CASE plan' = plan BY <1>1, <2>10
  <2>11. CASE /\ DOMAIN made.target \in SUBSET S
              /\ plan' = [of |-> p, version |-> object[p].version, auto |-> DOMAIN named = {},
                          scale |-> made.scale, target |-> made.target]
    <3>1. plan'.scale = made.scale /\ plan'.target = made.target BY <2>11
    <3>2. QED BY <2>7, <2>9, <2>11, <3>1 DEF PlanTyped
  <2>12. QED BY <2>4, <2>10, <2>11
<1>3. ASSUME NEW t \in Threads, Shared!Steps(t) PROVE PlanTyped'
  <2>1. ASSUME NEW score \in [Members -> Scores], Shared!Rebalance(t, [s \in {} |-> 0], score)
        PROVE  PlanTyped'
    <3>1. PICK named : named = [s \in {} |-> 0] OBVIOUS
    <3>2. NamedOrScored(named, score) BY <3>1 DEF NamedOrScored
    <3>3. Shared!Rebalance(t, named, score) BY <2>1, <3>1
    <3>4. QED BY <1>2, <3>2, <3>3
  <2>2. ASSUME NEW named \in Targets, Shared!Rebalance(t, named, [s \in Members |-> Shared!Min(Scores)])
        PROVE  PlanTyped'
    <3>1. PICK score : score = [s \in Members |-> Shared!Min(Scores)] OBVIOUS
    <3>2. PICK D \in (SUBSET Members) \ {{}} : named \in [D -> Weights] BY Constants
    <3>3. DOMAIN named # {} /\ \A s \in DOMAIN named : named[s] \in Nat BY <3>2, Constants
    <3>4. \A s \in DOMAIN named : named[s] \in Int BY <3>3
    <3>5. NamedOrScored(named, score) BY <3>3, <3>4 DEF NamedOrScored, Whole
    <3>6. Shared!Rebalance(t, named, score) BY <2>2, <3>1
    <3>7. QED BY <1>2, <3>5, <3>6
  <2>3. CASE \/ Shared!CheckMember(t) \/ Shared!PlaceMember(t) \/ Shared!AppendMember(t) \/ Shared!PickOthers(t)
             \/ Shared!ReplaceMembers(t) \/ Shared!WeighMembers(t) \/ Shared!Constrain(t) \/ Shared!Touch(t)
             \/ Shared!Save(t) \/ Shared!DeletePortfolio(t)
    <3>1. plan' = plan
      BY <2>3 DEF Shared!CheckMember, Shared!PlaceMember, Shared!AppendMember, Shared!PickOthers,
         Shared!ReplaceMembers, Shared!WeighMembers, Shared!Constrain, Shared!Touch, Shared!Save,
         Shared!DeletePortfolio
    <3>2. QED BY <1>1, <3>1
  <2>4. QED BY <1>3, <2>1, <2>2, <2>3 DEF Shared!Steps
<1>4. CASE \E p \in PortfolioIds, limits \in Limits : Shared!CreatePortfolio(p, limits)
  BY <1>1, <1>4 DEF Shared!CreatePortfolio
<1>5. CASE \E t \in Threads : \E p \in PortfolioIds, body \in Shared!Bodies : Shared!Load(t, p, body)
  BY <1>1, <1>5 DEF Shared!Load
<1>6. CASE Shared!Crash BY <1>1, <1>6 DEF Shared!Crash
<1>7. QED BY <1>3, <1>4, <1>5, <1>6 DEF Shared!Next

\* Whatever requests overlap: portfolios, requests and plans are well formed, and
\* no version passes the bound by more than the requests that were let in.
VersionInv == SharedInv /\ VersionsBounded /\ PlanTyped

\* However many requests there are, a version is bounded by what they can add to
\* the one they were let in at (load and _touch of the portfolio routes).
THEOREM VersionsInvariant ==
  ASSUME IsFiniteSet(Threads), MaxVersion \in Nat \ {0}
  PROVE  MCSpec => []VersionInv
<1>1. MCInit => VersionInv
  <2> SUFFICES ASSUME MCInit PROVE VersionInv
    OBVIOUS
  <2>1. object = [p \in PortfolioIds |-> NoPortfolio] /\ plan = NoPlan BY DEF MCInit, Shared!Init
  <2>2. VersionsBounded /\ PlanTyped BY <2>1 DEF VersionsBounded, PlanTyped
  <2>3. QED BY <2>2, SharedBegins DEF VersionInv
<1>2. VersionInv /\ [MCNext]_mcvars => VersionInv'
  <2> SUFFICES ASSUME VersionInv, [MCNext]_mcvars PROVE VersionInv'
    OBVIOUS
  <2>1. SharedInv' BY SharedStep DEF VersionInv
  <2>2. CASE PortfoliosNext
    <3>1. Shared!Next BY <2>2 DEF PortfoliosNext
    <3>2. VersionsBounded' /\ PlanTyped' BY <3>1, VersionsStep, PlanStep DEF VersionInv
    <3>3. QED BY <2>1, <3>2 DEF VersionInv
  <2>3. CASE UNCHANGED sharedVars
    <3>1. object' = object /\ plan' = plan /\ worker' = worker BY <2>3 DEF sharedVars
    <3>2. VersionsBounded' BY <3>1 DEF VersionInv, VersionsBounded, Changes
    <3>3. PlanTyped' BY <3>1 DEF VersionInv, PlanTyped
    <3>4. QED BY <2>1, <3>2, <3>3 DEF VersionInv
  <2>4. QED BY <2>2, <2>3 DEF MCNext, BacktestsNext, ResearchNext, mcvars
<1>3. QED BY <1>1, <1>2, PTL DEF MCSpec

\* Every reachable state of backtests, portfolios and searches is well formed,
\* whichever requests overlap (PortfolioService, BacktestService,
\* build_optimization_result).
THEOREM TypesCorrect ==
  ASSUME IsFiniteSet(Threads), MaxVersion \in Nat \ {0}, Members # {}, Limits # {}
  PROVE  MCSpec => []TypesOK
<1>1. VersionInv => Shared!TypeOK
  <2> SUFFICES ASSUME VersionInv PROVE Shared!TypeOK
    OBVIOUS
  <2>1. SharedTypes /\ VersionsBounded /\ PlanTyped BY DEF VersionInv, SharedInv
  <2>2. ASSUME NEW p \in PortfolioIds, object[p] # NoPortfolio
        PROVE  object[p].version \in 1..(MaxVersion + Cardinality(Threads))
    <3>1. PICK n, all \in Nat : n = Cardinality(Changes(p)) /\ all = Cardinality(Threads) BY ChangesCounted
    <3>2. object[p].version \in Nat \ {0} /\ object[p].version + n <= MaxVersion + all
      BY <2>1, <2>2, <3>1 DEF VersionsBounded
    <3>3. object[p].version \in 1..(MaxVersion + all) BY <3>2
    <3>4. QED BY <3>1, <3>3
  <2>3. Held \subseteq Shared!Request
    <3>1. Shared!Min(Members) \in Members
      <4>1. PICK m \in Members : \A y \in Members : m <= y BY MembersFinite, HasLeast
      <4>2. QED BY <4>1 DEF Shared!Min
    <3>2. Shared!Idle.limits \in Limits BY DEF Shared!Idle
    <3>3. QED BY <3>1, <3>2 DEF Held, Shared!Request, Shared!Member
  <2>4. worker \in [Threads -> Shared!Request] BY <2>1, <2>3 DEF SharedTypes
  <2>5. /\ object \in [PortfolioIds -> Shared!Portfolio \cup {NoPortfolio}]
        /\ listed \subseteq {p \in PortfolioIds : object[p] # NoPortfolio}
    BY <2>1 DEF SharedTypes
  <2>6. plan # NoPlan => /\ plan.of \in PortfolioIds /\ plan.version \in Nat /\ plan.scale \in Nat
                         /\ DOMAIN plan.target \subseteq Members
    BY <2>1 DEF SharedTypes, PlanTyped
  <2>7. \A p \in PortfolioIds : object[p] # NoPortfolio =>
          object[p].version \in 1..(MaxVersion + Cardinality(Threads))
    BY <2>2
  <2>8. Shared!Cardinality(Threads) = Cardinality(Threads) BY DEF Shared!Cardinality, Cardinality
  <2>9. QED BY <2>4, <2>5, <2>6, <2>7, <2>8 DEF Shared!TypeOK
<1>2. TypeOK /\ (part = "research" => Research!TypeOK) /\ VersionInv => TypesOK
  BY <1>1 DEF TypesOK
<1>3. QED BY <1>2, RowsCorrect, SearchCorrect, VersionsInvariant, PTL
=============================================================================
