------------------------- MODULE StrategyBacktests -------------------------
(***************************************************************************)
(* Strategies (libs/strategy_management) and the backtests run on them     *)
(* (libs/backtest_runner). The two libraries call each other through the   *)
(* callbacks the application wires: a backtest is created for a strategy   *)
(* its user owns and runs only while that strategy is active; a strategy   *)
(* with pending or running backtests is not deleted. Each repository call  *)
(* is a transaction, each save an upsert of the whole row a request loaded *)
(* before, and nothing else orders the requests of the thread pool.        *)
(***************************************************************************)
EXTENDS FiniteSets, Naturals

CONSTANTS
  Users, StrategyIds, TaskIds,  \* ids are uuid4 values, never handed out twice
  Keys,                         \* idempotency keys a client may send
  NoKey,                        \* a task created without one
  NoTask, NoStrategy,           \* the absence of a row
  Threads,                      \* request threads of the server process
  MaxCrash                      \* bound: crashes of the server process

ASSUME KeyAssumption   == NoKey \notin Keys
ASSUME CrashAssumption == MaxCrash \in Nat

VARIABLES
  strategies,   \* StrategyIds -> row or NoStrategy
  tasks,        \* TaskIds -> row or NoTask
  results,      \* the tasks with a row in the result table
  spent,        \* ids handed out so far
  thread,       \* what each request thread is doing
  crashes       \* number of crashes so far

vars == <<strategies, tasks, results, spent, thread, crashes>>

StrategyStatuses == {"draft", "active", "inactive", "archived"}
Statuses == {"pending", "running", "completed", "failed", "cancelled"}
Active   == {"pending", "running"}
Terminal == Statuses \ Active

Strategy == [user: Users, status: StrategyStatuses]

\* metrics: None, those of the engine, or those sent with POST .../transition.
Task == [user: Users, strategy: StrategyIds, key: Keys \cup {NoKey},
         status: Statuses, metrics: {"none", "engine", "client"}]

ASSUME NoStrategyAssumption == NoStrategy \notin Strategy
ASSUME NoTaskAssumption     == NoTask \notin Task

Places == {"idle", "insert", "submit", "execute", "engine", "transition",
           "save", "result", "remove", "forget",
           "strategy", "count", "drop"}

\* A request: the step it is at, the rows it holds and their ids, why it
\* changes the task's status ("start", "complete" and "fail" are the
\* executor's, "user" a client's), the status it is to move to, and whether
\* its route executes the task it creates.
Request == [at: Places, task: TaskIds \cup {NoTask}, row: Task \cup {NoTask},
            strategy: StrategyIds \cup {NoStrategy},
            copy: Strategy \cup {NoStrategy},
            why: {"user", "start", "complete", "fail"}, run: BOOLEAN]

Idle == [at |-> "idle", task |-> NoTask, row |-> NoTask,
         strategy |-> NoStrategy, copy |-> NoStrategy,
         why |-> "user", run |-> FALSE]

-----------------------------------------------------------------------------
(* The state machines (domain.py of each library)                          *)

StrategyTransitions ==
  [s \in StrategyStatuses |->
     CASE s = "draft"    -> {"active", "inactive", "archived"}
       [] s = "active"   -> {"inactive", "archived"}
       [] s = "inactive" -> {"active", "archived"}
       [] s = "archived" -> {}]

BacktestTransitions ==
  [s \in Statuses |->
     CASE s = "pending" -> {"running", "cancelled"}
       [] s = "running" -> {"completed", "failed", "cancelled"}
       [] s \in {"failed", "cancelled"} -> {"pending"}
       [] s = "completed" -> {}]

\* Mutant: every transition stores the metrics it is given.
StoreMetrics(r, to, m) == [r EXCEPT !.status = to, !.metrics = m]

\* transition_to: completing sets the metrics, requeueing clears them.
TransitionTo(r, to, m) ==
  [r EXCEPT !.status = to,
            !.metrics = CASE to = "completed" -> m
                          [] to = "pending"   -> "none"
                          [] OTHER            -> @]

CanTransition(r, to) == to \in BacktestTransitions[r.status]

\* Mutant: archived strategies can be activated again.
MayReopen(r, to) == to # r.status

CanMove(r, to) == to \in StrategyTransitions[r.status]

-----------------------------------------------------------------------------
(* The repositories: one transaction per call                              *)

Kept == {i \in TaskIds : tasks[i] # NoTask}
OwnsStrategy(u, s) == strategies[s] # NoStrategy /\ strategies[s].user = u
OwnsTask(u, i)     == i \in Kept /\ tasks[i].user = u

\* UNIQUE(user_id, idempotency_key) WHERE idempotency_key IS NOT NULL.
KeyTaken(i, r) ==
  /\ r.key # NoKey
  /\ \E j \in Kept \ {i} : tasks[j].user = r.user /\ tasks[j].key = r.key

\* Mutant: only running backtests keep a strategy from being deleted.
CountRunning(s) == {i \in Kept : tasks[i].strategy = s /\ tasks[i].status = "running"}

ActiveBacktests(s) == {i \in Kept : tasks[i].strategy = s /\ tasks[i].status \in Active}

At(t, p)   == thread[t].at = p
Goto(t, r) == thread' = [thread EXCEPT ![t] = r]
Done(t)    == Goto(t, Idle)

-----------------------------------------------------------------------------
(* Strategies (strategy_management/service.py)                             *)

CreateStrategy(t, u, s) ==
  /\ At(t, "idle")
  /\ s \notin spent
  /\ strategies' = [strategies EXCEPT ![s] = [user |-> u, status |-> "draft"]]
  /\ spent' = spent \cup {s}
  /\ UNCHANGED <<tasks, results, thread, crashes>>

\* activate_, deactivate_ and archive_strategy up to the transition of the copy.
MoveStrategy(t, u, s, to) ==
  /\ At(t, "idle")
  /\ OwnsStrategy(u, s)
  /\ CanMove(strategies[s], to)
  /\ Goto(t, [Idle EXCEPT !.at = "strategy", !.strategy = s,
                          !.copy = [strategies[s] EXCEPT !.status = to]])
  /\ UNCHANGED <<strategies, tasks, results, spent, crashes>>

\* update_strategy changes the name or the parameters of its copy.
UpdateStrategy(t, u, s) ==
  /\ At(t, "idle")
  /\ OwnsStrategy(u, s)
  /\ Goto(t, [Idle EXCEPT !.at = "strategy", !.strategy = s, !.copy = strategies[s]])
  /\ UNCHANGED <<strategies, tasks, results, spent, crashes>>

SaveStrategy(t) ==
  /\ At(t, "strategy")
  /\ strategies' = [strategies EXCEPT ![thread[t].strategy] = thread[t].copy]
  /\ Done(t)
  /\ UNCHANGED <<tasks, results, spent, crashes>>

DeleteStrategy(t, u, s) ==
  /\ At(t, "idle")
  /\ OwnsStrategy(u, s)
  /\ Goto(t, [Idle EXCEPT !.at = "count", !.strategy = s])
  /\ UNCHANGED <<strategies, tasks, results, spent, crashes>>

\* count_active_backtests: a strategy in use ends the request with 409.
CountActive(t) ==
  /\ At(t, "count")
  /\ IF ActiveBacktests(thread[t].strategy) = {}
       THEN Goto(t, [thread[t] EXCEPT !.at = "drop"])
       ELSE Done(t)
  /\ UNCHANGED <<strategies, tasks, results, spent, crashes>>

DropStrategy(t) ==
  /\ At(t, "drop")
  /\ strategies' = [strategies EXCEPT ![thread[t].strategy] = NoStrategy]
  /\ Done(t)
  /\ UNCHANGED <<tasks, results, spent, crashes>>

-----------------------------------------------------------------------------
(* Creating a backtest and changing it (backtest_runner/service.py)        *)

\* create_task up to find_by_idempotency_key: the strategy's owner, no task
\* of that key. The route of /backtests/tasks goes on to execute it.
CreateTask(t, u, s, k, run) ==
  /\ At(t, "idle")
  /\ OwnsStrategy(u, s)
  /\ \E i \in TaskIds \ spent :
       LET r == [user |-> u, strategy |-> s, key |-> k, status |-> "pending",
                 metrics |-> "none"]
       IN  /\ ~KeyTaken(i, r)
           /\ spent' = spent \cup {i}
           /\ Goto(t, [Idle EXCEPT !.at = "insert", !.task = i, !.row = r, !.run = run])
  /\ UNCHANGED <<strategies, tasks, results, crashes>>

\* Mutant: the row is saved without looking at the key.
InsertAlways(t) ==
  /\ At(t, "insert")
  /\ tasks' = [tasks EXCEPT ![thread[t].task] = thread[t].row]
  /\ IF thread[t].run THEN Goto(t, [thread[t] EXCEPT !.at = "submit"]) ELSE Done(t)
  /\ UNCHANGED <<strategies, results, spent, crashes>>

\* save_if_absent; a violated index ends the request with 409.
InsertTask(t) ==
  /\ At(t, "insert")
  /\ \/ /\ ~KeyTaken(thread[t].task, thread[t].row)
        /\ tasks' = [tasks EXCEPT ![thread[t].task] = thread[t].row]
        /\ IF thread[t].run THEN Goto(t, [thread[t] EXCEPT !.at = "submit"]) ELSE Done(t)
     \/ /\ KeyTaken(thread[t].task, thread[t].row)
        /\ Done(t) /\ UNCHANGED tasks
  /\ UNCHANGED <<strategies, results, spent, crashes>>

\* transition_task (and cancel_task, retry_task) up to the transition of the
\* copy; rename_task changes the name of its copy.
ChangeTask(t, u, i, to) ==
  /\ At(t, "idle")
  /\ OwnsTask(u, i)
  /\ CanTransition(tasks[i], to)
  /\ Goto(t, [Idle EXCEPT !.at = "save", !.task = i,
                          !.row = TransitionTo(tasks[i], to, "client")])
  /\ UNCHANGED <<strategies, tasks, results, spent, crashes>>

RenameTask(t, u, i) ==
  /\ At(t, "idle")
  /\ OwnsTask(u, i)
  /\ Goto(t, [Idle EXCEPT !.at = "save", !.task = i, !.row = tasks[i]])
  /\ UNCHANGED <<strategies, tasks, results, spent, crashes>>

\* delete_task: a task that is not terminal ends the request with 409.
DeleteTask(t, u, i) ==
  /\ At(t, "idle")
  /\ OwnsTask(u, i)
  /\ tasks[i].status \in Terminal
  /\ Goto(t, [Idle EXCEPT !.at = "remove", !.task = i])
  /\ UNCHANGED <<strategies, tasks, results, spent, crashes>>

\* Mutant: the row stays, with a status the state machine does not know.
MarkDeleted(t) ==
  /\ At(t, "remove")
  /\ thread[t].task \in Kept
  /\ tasks' = [tasks EXCEPT ![thread[t].task] = [@ EXCEPT !.status = "deleted"]]
  /\ Goto(t, [thread[t] EXCEPT !.at = "forget"])
  /\ UNCHANGED <<strategies, results, spent, crashes>>

RemoveTask(t) ==
  /\ At(t, "remove")
  /\ IF thread[t].task \in Kept THEN Goto(t, [thread[t] EXCEPT !.at = "forget"])
                                ELSE Done(t)
  /\ tasks' = [tasks EXCEPT ![thread[t].task] = NoTask]
  /\ UNCHANGED <<strategies, results, spent, crashes>>

ForgetResult(t) ==
  /\ At(t, "forget")
  /\ results' = results \ {thread[t].task}
  /\ Done(t)
  /\ UNCHANGED <<strategies, tasks, spent, crashes>>

-----------------------------------------------------------------------------
(* Executing a backtest (execute_task, called by the job it is submitted   *)
(* as)                                                                     *)

\* The job layer takes the job and runs it, or refuses it (an idempotency key
\* already used, the concurrency limit): the task then stays pending.
SubmitTask(t) ==
  /\ At(t, "submit")
  /\ \/ Goto(t, [thread[t] EXCEPT !.at = "execute"])
     \/ Done(t)
  /\ UNCHANGED <<strategies, tasks, results, spent, crashes>>

\* The load: a pending task is started, a running one is executed at once, a
\* task that is gone or terminal is not executed.
ExecuteTask(t) ==
  /\ At(t, "execute")
  /\ LET r == tasks[thread[t].task]
     IN  CASE r = NoTask           -> Done(t)
           [] r.status = "pending" -> Goto(t, [thread[t] EXCEPT !.at = "transition", !.why = "start"])
           [] r.status = "running" -> Goto(t, [thread[t] EXCEPT !.at = "engine"])
           [] OTHER                -> Done(t)
  /\ UNCHANGED <<strategies, tasks, results, spent, crashes>>

Target(why) == CASE why = "start"    -> "running"
                 [] why = "complete" -> "completed"
                 [] OTHER            -> "failed"

\* A change of status that raises: completing is answered by failing, any
\* other ends the request.
Raised(t) ==
  IF thread[t].why = "complete"
    THEN Goto(t, [thread[t] EXCEPT !.at = "transition", !.why = "fail"])
    ELSE Done(t)

\* Mutant: the executor trusts the status it started with.
TransitionBlindly(t) ==
  /\ At(t, "transition")
  /\ LET r == tasks[thread[t].task]  to == Target(thread[t].why)
     IN  IF r # NoTask
           THEN Goto(t, [thread[t] EXCEPT !.at = "save", !.row = TransitionTo(r, to, "engine")])
           ELSE Raised(t)
  /\ UNCHANGED <<strategies, tasks, results, spent, crashes>>

\* transition, the load and the change of the copy.
TransitionTask(t) ==
  /\ At(t, "transition")
  /\ LET r == tasks[thread[t].task]  to == Target(thread[t].why)
     IN  IF r # NoTask /\ CanTransition(r, to)
           THEN Goto(t, [thread[t] EXCEPT !.at = "save", !.row = TransitionTo(r, to, "engine")])
           ELSE Raised(t)
  /\ UNCHANGED <<strategies, tasks, results, spent, crashes>>

\* The upsert of the row, by any request. It inserts a row deleted since it
\* was loaded, unless its key is taken by now.
SaveTask(t) ==
  /\ At(t, "save")
  /\ \/ /\ ~KeyTaken(thread[t].task, thread[t].row)
        /\ tasks' = [tasks EXCEPT ![thread[t].task] = thread[t].row]
        /\ CASE thread[t].why = "start"    -> Goto(t, [thread[t] EXCEPT !.at = "engine"])
             [] thread[t].why = "complete" -> Goto(t, [thread[t] EXCEPT !.at = "result"])
             [] OTHER                      -> Done(t)
     \/ /\ KeyTaken(thread[t].task, thread[t].row)
        /\ Raised(t) /\ UNCHANGED tasks
  /\ UNCHANGED <<strategies, results, spent, crashes>>

\* Mutant: the result is stored before the completion of the row.
StoreFirst(t) ==
  /\ At(t, "engine")
  /\ results' = results \cup {thread[t].task}
  /\ Goto(t, [thread[t] EXCEPT !.at = "transition", !.why = "complete"])
  /\ UNCHANGED <<strategies, tasks, spent, crashes>>

\* _run_backtest_engine: an active strategy and usable data, parameters and
\* history give a result, anything else fails.
RunEngine(t) ==
  /\ At(t, "engine")
  /\ LET mine == thread[t].row.strategy
     IN  \/ /\ strategies[mine] # NoStrategy /\ strategies[mine].status = "active"
            /\ Goto(t, [thread[t] EXCEPT !.at = "transition", !.why = "complete"])
         \/ Goto(t, [thread[t] EXCEPT !.at = "transition", !.why = "fail"])
  /\ UNCHANGED <<strategies, tasks, results, spent, crashes>>

SaveResult(t) ==
  /\ At(t, "result")
  /\ results' = results \cup {thread[t].task}
  /\ Done(t)
  /\ UNCHANGED <<strategies, tasks, spent, crashes>>

\* The process dies and is restarted: its requests are lost, and nothing
\* takes up a task that was running.
Crash ==
  /\ crashes < MaxCrash
  /\ crashes' = crashes + 1
  /\ thread' = [t \in Threads |-> Idle]
  /\ UNCHANGED <<strategies, tasks, results, spent>>

-----------------------------------------------------------------------------
Init ==
  /\ strategies = [s \in StrategyIds |-> NoStrategy]
  /\ tasks      = [i \in TaskIds |-> NoTask]
  /\ results = {} /\ spent = {} /\ crashes = 0
  /\ thread  = [t \in Threads |-> Idle]

StrategyRoutes(t) ==
  \/ \E u \in Users, s \in StrategyIds :
       \/ CreateStrategy(t, u, s) \/ UpdateStrategy(t, u, s) \/ DeleteStrategy(t, u, s)
       \/ \E to \in {"active", "inactive", "archived"} : MoveStrategy(t, u, s, to)
  \/ SaveStrategy(t) \/ CountActive(t) \/ DropStrategy(t)

TaskRoutes(t) ==
  \/ \E u \in Users, s \in StrategyIds, k \in Keys \cup {NoKey}, run \in BOOLEAN :
       CreateTask(t, u, s, k, run)
  \/ \E u \in Users, i \in TaskIds :
       \/ RenameTask(t, u, i) \/ DeleteTask(t, u, i)
       \/ \E to \in Statuses : ChangeTask(t, u, i, to)
  \/ InsertTask(t) \/ RemoveTask(t) \/ ForgetResult(t)

Execution(t) ==
  \/ SubmitTask(t) \/ ExecuteTask(t) \/ TransitionTask(t) \/ SaveTask(t)
  \/ RunEngine(t) \/ SaveResult(t)

Next == Crash \/ \E t \in Threads : StrategyRoutes(t) \/ TaskRoutes(t) \/ Execution(t)

Spec == Init /\ [][Next]_vars

-----------------------------------------------------------------------------
(* Properties                                                              *)

TypeOK ==
  /\ strategies \in [StrategyIds -> Strategy \cup {NoStrategy}]
  /\ tasks \in [TaskIds -> Task \cup {NoTask}]
  /\ results \subseteq TaskIds
  /\ spent \subseteq StrategyIds \cup TaskIds
  /\ thread \in [Threads -> Request]
  /\ crashes \in 0..MaxCrash

\* A task has metrics exactly while it is completed, whichever requests wrote
\* its row last (transition_to, then save of the whole row).
MetricsOfCompleted ==
  \A i \in Kept : tasks[i].metrics # "none" <=> tasks[i].status = "completed"

\* One idempotency key of a user names one task, also when a save brings
\* back a task that was deleted while the request held it.
KeysUnique == \A i \in Kept : ~KeyTaken(i, tasks[i])

=============================================================================
