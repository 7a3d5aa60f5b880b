-------------------------- MODULE JobOrchestration --------------------------
(***************************************************************************)
(* The job orchestration service (libs/job_orchestration): a table of      *)
(* jobs in Postgres, written by the worker threads of one server process.  *)
(* FastAPI runs every synchronous route in a thread pool, and every        *)
(* repository call is a transaction of its own, so a request is a series   *)
(* of steps, one per repository call, that interleaves with the others.    *)
(* A request holds a detached copy of the row between its load and its     *)
(* save, and the save writes the whole row back.                           *)
(***************************************************************************)
EXTENDS Naturals, FiniteSets

CONSTANTS
  Users,        \* owners of jobs
  Keys,         \* idempotency keys a client may send
  TaskTypes,    \* task types of the registry
  Limit,        \* SLA concurrency_limit of each task type
  JobIds,       \* uuid4 values handed to new jobs
  Threads,      \* request threads of the server process
  NoJob,        \* the absence of a row
  NoId,         \* the absence of a job id
  MaxDispatch,  \* bound: dispatch ids handed out
  MaxCrash      \* bound: crashes of the server process

ASSUME LimitAssumption == Limit \in [TaskTypes -> Nat]
ASSUME BoundAssumption == MaxDispatch \in Nat /\ MaxCrash \in Nat
ASSUME NoIdAssumption  == NoId \notin JobIds

VARIABLES
  jobs,          \* the job table: JobIds -> row or NoJob
  req,           \* what each request thread is doing
  server,        \* "up", "down", or "booting" (recover_runtime is running)
  pending,       \* rows recover_runtime has listed and not yet saved
  dispatched,    \* number of dispatch ids handed out so far
  crashes        \* number of crashes so far

vars == <<jobs, req, server, pending, dispatched, crashes>>

Statuses   == {"queued", "running", "succeeded", "failed", "cancelled"}
ErrorCodes == {"none", "CONCURRENCY_LIMIT_EXCEEDED", "TASK_FAILED",
               "EXECUTOR_DISPATCH_FAILED", "RUNTIME_RECOVERY"}
Events     == {"none", "succeeded", "failed", "error"}
PCs        == {"idle", "insert", "apply", "load", "limit", "refuse", "start",
               "run", "callback", "settle"}

\* A row of the job table. result and dispatch hold a dispatch id, 0 is None:
\* a result is known by the run that produced it.
Row == [user: Users, type: TaskTypes, key: Keys, status: Statuses,
        result: Nat, error: ErrorCodes, dispatch: Nat,
        started: BOOLEAN, finished: BOOLEAN]

ASSUME NoJobAssumption == NoJob \notin Row

\* A request: where it is, the job and the copy of its row it holds, the
\* dispatch it executes, the callback event it delivers, whether an exception
\* of that callback is caught and answered by a second one, how the route
\* dispatches, and where it goes once its first part is saved.
Request == [pc: PCs, id: JobIds \cup {NoId}, row: Row \cup {NoJob},
            did: Nat, event: Events, again: BOOLEAN,
            via: {"callable", "executor"}, then: {"idle", "load"}]

Idle == [pc |-> "idle", id |-> NoId, row |-> NoJob, did |-> 0,
         event |-> "none", again |-> FALSE, via |-> "callable", then |-> "idle"]

-----------------------------------------------------------------------------
(* The job object (domain.py)                                              *)

AllowedTransitions ==
  [s \in Statuses |-> CASE s = "queued"  -> {"running", "cancelled"}
                        [] s = "running" -> {"succeeded", "failed", "cancelled"}
                        [] s = "failed"  -> {"queued", "cancelled"}
                        [] OTHER         -> {}]

CreateJob(u, ty, k) ==
  [user |-> u, type |-> ty, key |-> k, status |-> "queued", result |-> 0,
   error |-> "none", dispatch |-> 0, started |-> FALSE, finished |-> FALSE]

\* Mutant: the transition table is not consulted.
AnyTransition(r, to) == to # r.status

CanTransition(r, to) == to \in AllowedTransitions[r.status]

\* Mutant: a retry keeps what the failed run left.
RetryKeepsRun(r, to) ==
  [r EXCEPT !.status = to, !.started = (@ \/ to = "running"),
            !.finished = to \in {"succeeded", "failed", "cancelled"}]

TransitionTo(r, to) ==
  CASE to = "queued"  -> CreateJob(r.user, r.type, r.key)
    [] to = "running" -> [r EXCEPT !.status = to, !.started = TRUE, !.finished = FALSE]
    [] OTHER          -> [r EXCEPT !.status = to, !.finished = TRUE]

StartExecution(r, d) == TransitionTo([r EXCEPT !.dispatch = d], "running")

MarkFailed(r, code) ==
  [TransitionTo(r, "failed") EXCEPT !.result = 0, !.error = code]

\* The row an execution callback of dispatch d saves.
Marked(r, event, d) ==
  LET m == CASE event = "succeeded" -> [TransitionTo(r, "succeeded")
                                          EXCEPT !.result = d, !.error = "none"]
             [] event = "failed"    -> [MarkFailed(r, "TASK_FAILED") EXCEPT !.result = d]
             [] OTHER               -> MarkFailed(r, "EXECUTOR_DISPATCH_FAILED")
  IN  [m EXCEPT !.dispatch = d]

-----------------------------------------------------------------------------
(* The repository (repository_postgres.py): one transaction per call       *)

Stored        == {j \in JobIds : jobs[j] # NoJob}
Bound(u, k)   == \E j \in Stored : jobs[j].user = u /\ jobs[j].key = k
Owned(u, j)   == j \in Stored /\ jobs[j].user = u
Running(u, ty) == {j \in Stored : /\ jobs[j].user = u
                                  /\ jobs[j].type = ty
                                  /\ jobs[j].status = "running"}

\* Mutant: one more than the limit is let through.
FullLater(r) == Cardinality(Running(r.user, r.type)) > Limit[r.type]

\* The concurrency limit of the user for this task type is reached.
Full(r) == Cardinality(Running(r.user, r.type)) >= Limit[r.type]

\* uuid4: an id no row and no request holds.
Fresh(j) == jobs[j] = NoJob /\ \A t \in Threads : req[t].id # j

Goto(t, r)  == req' = [req EXCEPT ![t] = r]
AtPc(t, pc) == server = "up" /\ req[t].pc = pc
Save(j, r)  == jobs' = [jobs EXCEPT ![j] = r]

-----------------------------------------------------------------------------
(* Requests                                                                *)

\* submit_job up to find_by_idempotency_key. then = "load" when the route
\* goes on to dispatch the job (the task routes of the other contexts),
\* "idle" when it only submits (POST /jobs). An existing key ends in 409.
SubmitFind(t, u, ty, k, then, via) ==
  /\ AtPc(t, "idle")
  /\ ~Bound(u, k)
  /\ \E j \in JobIds :
       /\ Fresh(j)
       /\ Goto(t, [Idle EXCEPT !.pc = "insert", !.id = j, !.then = then, !.via = via,
                               !.row = CreateJob(u, ty, k)])
  /\ UNCHANGED <<jobs, server, pending, dispatched, crashes>>

\* Mutant: save instead of save_if_absent.
InsertUnconditionally(t) ==
  /\ AtPc(t, "insert")
  /\ Save(req[t].id, req[t].row)
  /\ IF req[t].then = "load" THEN Goto(t, [req[t] EXCEPT !.pc = "load"])
                             ELSE Goto(t, Idle)
  /\ UNCHANGED <<server, pending, dispatched, crashes>>

\* save_if_absent: the insert, refused by UNIQUE(user_id, idempotency_key).
SubmitInsert(t) ==
  /\ AtPc(t, "insert")
  /\ IF Bound(req[t].row.user, req[t].row.key)
       THEN jobs' = jobs /\ Goto(t, Idle)
       ELSE /\ Save(req[t].id, req[t].row)
            /\ IF req[t].then = "load" THEN Goto(t, [req[t] EXCEPT !.pc = "load"])
                                       ELSE Goto(t, Idle)
  /\ UNCHANGED <<server, pending, dispatched, crashes>>

\* transition_job (and cancel_job, retry_job) up to the transition of the
\* copy. A job of another user is denied, an illegal transition raises.
\* The retry route of market data goes on to dispatch the requeued job.
TransitionLoad(t, u, j, to, then) ==
  /\ AtPc(t, "idle")
  /\ Owned(u, j)
  /\ CanTransition(jobs[j], to)
  /\ then = "load" => to = "queued"
  /\ Goto(t, [Idle EXCEPT !.pc = "apply", !.id = j, !.then = then,
                          !.row = TransitionTo(jobs[j], to)])
  /\ UNCHANGED <<jobs, server, pending, dispatched, crashes>>

TransitionSave(t) ==
  /\ AtPc(t, "apply")
  /\ Save(req[t].id, req[t].row)
  /\ IF req[t].then = "load" THEN Goto(t, [req[t] EXCEPT !.pc = "load"])
                             ELSE Goto(t, Idle)
  /\ UNCHANGED <<server, pending, dispatched, crashes>>

\* dispatch_job(_with_callable), the load. A job that is not queued skips the
\* limit and fails in start_execution, before anything is saved.
DispatchLoad(t) ==
  /\ AtPc(t, "load")
  /\ LET r == jobs[req[t].id] IN
       IF r.status = "queued"
         THEN Goto(t, [req[t] EXCEPT !.pc = "limit", !.row = r])
         ELSE Goto(t, Idle)
  /\ UNCHANGED <<jobs, server, pending, dispatched, crashes>>

\* The count of running jobs, and on the copy either the refusal or
\* start_execution with a new dispatch id.
DispatchLimit(t) ==
  /\ AtPc(t, "limit")
  /\ LET r == req[t].row
     IN  \/ /\ Full(r)
            /\ Goto(t, [req[t] EXCEPT !.pc = "refuse",
                          !.row = [r EXCEPT !.error = "CONCURRENCY_LIMIT_EXCEEDED"]])
            /\ dispatched' = dispatched
         \/ /\ ~Full(r)
            /\ dispatched < MaxDispatch
            /\ dispatched' = dispatched + 1
            /\ Goto(t, [req[t] EXCEPT !.pc = "start", !.did = dispatched + 1,
                          !.row = StartExecution([r EXCEPT !.error = "none"], dispatched + 1)])
  /\ UNCHANGED <<jobs, server, pending, crashes>>

DispatchRefuse(t) ==
  /\ AtPc(t, "refuse")
  /\ Save(req[t].id, req[t].row)
  /\ Goto(t, Idle)
  /\ UNCHANGED <<server, pending, dispatched, crashes>>

DispatchStart(t) ==
  /\ AtPc(t, "start")
  /\ Save(req[t].id, req[t].row)
  /\ Goto(t, [req[t] EXCEPT !.pc = "run"])
  /\ UNCHANGED <<server, pending, dispatched, crashes>>

\* Mutant: the runner is called outside the try block, its exceptions escape.
RunUncaught(t, event) ==
  /\ AtPc(t, "run")
  /\ IF event = "succeeded"
       THEN Goto(t, [req[t] EXCEPT !.pc = "callback", !.event = event, !.again = TRUE])
       ELSE Goto(t, Idle)
  /\ UNCHANGED <<jobs, server, pending, dispatched, crashes>>

\* The runner returns, raises JobExecutionFailure or raises anything else.
\* An exception of the callback is caught when the callback is made inside
\* the try block: only after success in dispatch_job_with_callable, always in
\* dispatch_job, whose executor makes the first callback itself.
RunTask(t, event) ==
  /\ AtPc(t, "run")
  /\ event = "failed" => req[t].via = "callable"
  /\ Goto(t, [req[t] EXCEPT !.pc = "callback", !.event = event,
                !.again = (req[t].via = "executor" \/ event = "succeeded")])
  /\ UNCHANGED <<jobs, server, pending, dispatched, crashes>>

\* _apply_execution_callback up to mark_succeeded or mark_failed. If the row
\* is not running that call raises; a caught exception is answered by one
\* more callback, of a failure.
CallbackLoad(t) ==
  /\ AtPc(t, "callback")
  /\ LET r == jobs[req[t].id]
         legal == CanTransition(r, IF req[t].event = "succeeded" THEN "succeeded" ELSE "failed")
     IN  \/ /\ legal
            /\ Goto(t, [req[t] EXCEPT !.pc = "settle",
                          !.row = Marked(r, req[t].event, req[t].did)])
         \/ /\ ~legal /\ req[t].again
            /\ Goto(t, [req[t] EXCEPT !.event = "error", !.again = FALSE])
         \/ /\ ~legal /\ ~req[t].again
            /\ Goto(t, Idle)
  /\ UNCHANGED <<jobs, server, pending, dispatched, crashes>>

CallbackSave(t) ==
  /\ AtPc(t, "settle")
  /\ Save(req[t].id, req[t].row)
  /\ Goto(t, Idle)
  /\ UNCHANGED <<server, pending, dispatched, crashes>>

-----------------------------------------------------------------------------
(* The server process                                                      *)

\* The process dies: its requests end wherever they are, the table stays.
Crash ==
  /\ server = "up"
  /\ crashes < MaxCrash
  /\ server' = "down"
  /\ crashes' = crashes + 1
  /\ req' = [t \in Threads |-> Idle]
  /\ UNCHANGED <<jobs, pending, dispatched>>

\* Mutant: recovery lists every row that is not closed.
RecoverListOpen ==
  /\ server = "down"
  /\ server' = "booting"
  /\ pending' = {j \in Stored : ~jobs[j].finished}
  /\ UNCHANGED <<jobs, req, dispatched, crashes>>

\* recover_runtime, called by the constructor before the routes exist: list
\* the running jobs, then save them one by one as failed.
RecoverList ==
  /\ server = "down"
  /\ server' = "booting"
  /\ pending' = {j \in Stored : jobs[j].status = "running"}
  /\ UNCHANGED <<jobs, req, dispatched, crashes>>

RecoverSave(j) ==
  /\ server = "booting"
  /\ j \in pending
  /\ Save(j, MarkFailed(jobs[j], "RUNTIME_RECOVERY"))
  /\ pending' = pending \ {j}
  /\ UNCHANGED <<req, server, dispatched, crashes>>

\* Mutant: the routes are mounted while recovery still runs.
ServeEarly ==
  /\ server = "booting"
  /\ server' = "up"
  /\ UNCHANGED <<jobs, req, pending, dispatched, crashes>>

Serve ==
  /\ server = "booting"
  /\ pending = {}
  /\ server' = "up"
  /\ UNCHANGED <<jobs, req, pending, dispatched, crashes>>

-----------------------------------------------------------------------------
Init ==
  /\ jobs = [j \in JobIds |-> NoJob]
  /\ req = [t \in Threads |-> Idle]
  /\ server = "down"
  /\ pending = {}
  /\ dispatched = 0
  /\ crashes = 0

\* The steps a request takes once it has been accepted.
Continue(t) ==
  \/ SubmitInsert(t)   \/ TransitionSave(t)
  \/ DispatchLoad(t)   \/ DispatchLimit(t)
  \/ DispatchRefuse(t) \/ DispatchStart(t)
  \/ \E event \in Events \ {"none"} : RunTask(t, event)
  \/ CallbackLoad(t)   \/ CallbackSave(t)

Accept(t) ==
  \/ \E u \in Users, ty \in TaskTypes, k \in Keys, then \in {"idle", "load"},
        via \in {"callable", "executor"} : SubmitFind(t, u, ty, k, then, via)
  \/ \E u \in Users, j \in JobIds, to \in Statuses, then \in {"idle", "load"} :
        TransitionLoad(t, u, j, to, then)

Boot == RecoverList \/ Serve \/ \E j \in JobIds : RecoverSave(j)

Next == Crash \/ Boot \/ \E t \in Threads : Accept(t) \/ Continue(t)

Spec == Init /\ [][Next]_vars

\* An accepted request runs on until it answers and the container restarts a
\* dead process (restart: unless-stopped); nobody has to send a request.
Fairness == WF_vars(Boot) /\ \A t \in Threads : WF_vars(Continue(t))

FairSpec == Spec /\ Fairness

-----------------------------------------------------------------------------
(* Properties                                                              *)

\* Types of the variables; a request past its first step holds a job id, and
\* one that is about to save holds a row.
TypeOK ==
  /\ jobs \in [JobIds -> Row \cup {NoJob}]
  /\ req \in [Threads -> Request]
  /\ server \in {"up", "down", "booting"}
  /\ pending \in SUBSET JobIds
  /\ dispatched \in Nat
  /\ crashes \in Nat

\* One job per user and idempotency key, however submissions interleave: the
\* lookup of submit_job races with other inserts, save_if_absent decides.
IdempotencyUnique ==
  \A i, j \in Stored :
    jobs[i].user = jobs[j].user /\ jobs[i].key = jobs[j].key => i = j

\* Whatever stale copies are written back, a stored row is never a mixture of
\* two executions: its timestamps agree with its status, a queued row carries
\* nothing of an earlier run, and a result is the result of the run that
\* dispatch_id names.
RowCoherent(r) ==
  /\ r.finished <=> r.status \in {"succeeded", "failed", "cancelled"}
  /\ r.status = "running" => r.started
  /\ r.status = "queued" => ~r.started /\ r.result = 0 /\ r.dispatch = 0
  /\ r.result # 0 => r.result = r.dispatch

RowsCoherent == \A j \in Stored : RowCoherent(jobs[j])

\* While the server is up, a row that says a dispatch is running is being run:
\* the request of that dispatch is still to make its callback. Nothing
\* (a lost update, a raising callback, a restart) leaves a dead run "running".
Executing(t, j, d) ==
  req[t].id = j /\ req[t].did = d /\ req[t].pc \in {"run", "callback", "settle"}

NoOrphanRunning ==
  server = "up" =>
    \A j \in Stored : jobs[j].status = "running" /\ jobs[j].dispatch # 0
                       => \E t \in Threads : Executing(t, j, jobs[j].dispatch)

\* Recovery fails the interrupted jobs and touches no other row (the queued
\* jobs of test_runtime_recovery_marks_running_jobs_failed_but_keeps_queued_jobs),
\* and when the server starts to serve no job is left running.
RecoveryExact ==
  [][/\ server = "booting" => \A j \in Stored : jobs[j].status # "running" => jobs'[j] = jobs[j]
     /\ server = "booting" /\ server' = "up" =>
          \A j \in Stored : jobs[j].status # "running"]_vars

\* The state machine of domain.py, as a step of a row: a stored status moves
\* only along _ALLOWED_TRANSITIONS, out of succeeded and cancelled never. True when
\* requests do not overlap; whole-row saves of stale copies break it when they do.
LifecycleRespected ==
  [][\A j \in Stored : jobs'[j].status = jobs[j].status
                        \/ jobs'[j].status \in AllowedTransitions[jobs[j].status]]_vars

\* A dispatched run is always closed: its row leaves "running", by the
\* callback, by a user or by recovery.
RunsAs(j, d) == j \in Stored /\ jobs[j].status = "running" /\ jobs[j].dispatch = d

DispatchSettles ==
  \A j \in JobIds, d \in 1..MaxDispatch : RunsAs(j, d) ~> ~RunsAs(j, d)

-----------------------------------------------------------------------------
(* The abstract registry                                                   *)

IdentityOf(r) == [user |-> r.user, type |-> r.type, key |-> r.key]

Registry == INSTANCE JobRegistry WITH
  registry <- [j \in JobIds |-> IF jobs[j] = NoJob THEN NoJob ELSE IdentityOf(jobs[j])]

\* Submission is a write-once registry of identities: whatever the requests
\* overwrite, a job keeps its owner, type and key, no job disappears, and an
\* owner's key names one job for ever.
ImplementsRegistry == Registry!Spec
=============================================================================
