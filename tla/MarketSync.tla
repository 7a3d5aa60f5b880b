----------------------------- MODULE MarketSync -----------------------------
(***************************************************************************)
(* Synchronization tasks (libs/market_data: api.py, service.py,            *)
(* pipeline_store.py; libs/job_orchestration: service.py, domain.py). A    *)
(* request runs the job it submits or retries, one symbol after the other. *)
(* Jobs are rows of Postgres, what was synchronized is kept only in        *)
(* memory. A request loads a row in one transaction and saves all of it in *)
(* another, as in JobOrchestration; of a row only what a task shows is     *)
(* kept here: its status and its result.                                   *)
(***************************************************************************)
EXTENDS FiniteSets

CONSTANTS
  Users, Symbols, Jobs, \* job ids are uuid4 values, never handed out twice
  Owner,                \* the user that submits each job
  Payload,              \* the symbols each job asks for
  NoResult, NoJob,
  Threads

VARIABLES
  job,     \* the job table
  synced,  \* user -> the symbols that were synchronized
  results, \* job -> the result recorded in memory
  thread   \* what each request thread is doing

vars == <<job, synced, results, thread>>

\* A result: the symbols that could be synchronized, and those that could not.
Result == [ok: SUBSET Symbols, failed: SUBSET Symbols]
Job    == [status: {"unborn", "queued", "running", "succeeded", "failed", "cancelled"},
           result: Result \cup {NoResult}]
Empty  == [ok |-> {}, failed |-> {}]
Unborn == [status |-> "unborn", result |-> NoResult]

\* What the constants must be.
Parameters ==
  /\ Owner \in [Jobs -> Users]
  /\ Payload \in [Jobs -> SUBSET Symbols]
  /\ NoResult \notin Result

\* A request: the copy of the row it is to save and where it goes from there,
\* what its runner synchronized, and the event of its callback.
Request == [at: {"idle", "load", "sync", "callback", "save"}, then: {"idle", "load", "sync"},
            job: Jobs \cup {NoJob}, row: Job, result: Result,
            event: {"none", "succeeded", "failed", "error"}]
Idle    == [at |-> "idle", then |-> "idle", job |-> NoJob, row |-> Unborn,
            result |-> Empty, event |-> "none"]

At(t, p)   == thread[t].at = p
Goto(t, r) == thread' = [thread EXCEPT ![t] = r]
Its(t)     == thread[t].job

-----------------------------------------------------------------------------
(* The job object                                                          *)

\* _ALLOWED_TRANSITIONS.
CanTransition(r, to) ==
  CASE r.status = "queued"  -> to \in {"running", "cancelled"}
    [] r.status = "running" -> to \in {"succeeded", "failed", "cancelled"}
    [] r.status = "failed"  -> to \in {"queued", "cancelled"}
    [] OTHER                -> FALSE

\* Mutant: a retry keeps the result of the attempt before.
TransitionKeeping(r, to) == [r EXCEPT !.status = to]

TransitionTo(r, to) ==
  [status |-> to, result |-> IF to = "queued" THEN NoResult ELSE r.result]

\* mark_succeeded, or mark_failed with the result of the event, if it has one.
Marked(event, result) ==
  [status |-> IF event = "succeeded" THEN "succeeded" ELSE "failed",
   result |-> IF event = "error" THEN NoResult ELSE result]

-----------------------------------------------------------------------------
(* Requests                                                                *)

\* submit_job, with a new key. submit_sync_task goes on to dispatch the job,
\* POST /jobs only submits it.
SubmitSync(t, j, then) ==
  /\ At(t, "idle")
  /\ job[j].status = "unborn"
  /\ job' = [job EXCEPT ![j].status = "queued"]
  /\ Goto(t, IF then = "load" THEN [Idle EXCEPT !.at = "load", !.job = j] ELSE Idle)
  /\ UNCHANGED <<synced, results>>

\* transition_job up to its save, and with it cancel_job and retry_job. A user
\* may move a job along every allowed transition; retry_sync_task goes on to
\* dispatch the job it has requeued.
Transition(t, j, to, then) ==
  /\ At(t, "idle")
  /\ CanTransition(job[j], to)
  /\ then = "load" => to = "queued"
  /\ Goto(t, [Idle EXCEPT !.at = "save", !.job = j, !.then = then, !.row = TransitionTo(job[j], to)])
  /\ UNCHANGED <<job, synced, results>>

\* The whole copy is saved, over whatever the row has become.
SaveRow(t) ==
  /\ At(t, "save")
  /\ job' = [job EXCEPT ![Its(t)] = thread[t].row]
  /\ Goto(t, IF thread[t].then = "idle" THEN Idle ELSE [thread[t] EXCEPT !.at = thread[t].then])
  /\ UNCHANGED <<synced, results>>

\* dispatch_job_with_callable up to its first save: refused by the concurrency
\* limit, which counts other tasks too, a queued job is saved as it was read.
\* A job that is not queued any more raises.
DispatchLoad(t) ==
  /\ At(t, "load")
  /\ \/ /\ job[Its(t)].status = "queued"
        /\ \/ Goto(t, [thread[t] EXCEPT !.at = "save", !.then = "idle", !.row = job[Its(t)]])
           \/ Goto(t, [thread[t] EXCEPT !.at = "save", !.then = "sync",
                                        !.row = TransitionTo(job[Its(t)], "running")])
     \/ job[Its(t)].status # "queued" /\ Goto(t, Idle)
  /\ UNCHANGED <<job, synced, results>>

\* Mutant: the bucket of the user starts anew.
SyncReplacing(t, s) ==
  /\ At(t, "sync")
  /\ s \in Payload[Its(t)] \ (thread[t].result.ok \cup thread[t].result.failed)
  /\ \/ /\ synced' = [synced EXCEPT ![Owner[Its(t)]] = {s}]
        /\ Goto(t, [thread[t] EXCEPT !.result.ok = @ \cup {s}])
     \/ /\ Goto(t, [thread[t] EXCEPT !.result.failed = @ \cup {s}])
        /\ UNCHANGED synced
  /\ UNCHANGED <<job, results>>

\* sync_market_data: the history of the next symbol is read, and the symbol
\* recorded, or it failed.
SyncSymbol(t, s) ==
  /\ At(t, "sync")
  /\ s \in Payload[Its(t)] \ (thread[t].result.ok \cup thread[t].result.failed)
  /\ \/ /\ synced' = [synced EXCEPT ![Owner[Its(t)]] = @ \cup {s}]
        /\ Goto(t, [thread[t] EXCEPT !.result.ok = @ \cup {s}])
     \/ /\ Goto(t, [thread[t] EXCEPT !.result.failed = @ \cup {s}])
        /\ UNCHANGED synced
  /\ UNCHANGED <<job, results>>

\* The runner cannot read a payload that came by POST /jobs.
RunnerRaises(t) ==
  /\ At(t, "sync")
  /\ thread[t].result = Empty
  /\ Goto(t, [thread[t] EXCEPT !.at = "callback", !.event = "error"])
  /\ UNCHANGED <<job, synced, results>>

\* record_sync_result; then the runner returns the result, or raises
\* JobExecutionFailure with it when a symbol failed.
RecordResult(t) ==
  /\ At(t, "sync")
  /\ Payload[Its(t)] = thread[t].result.ok \cup thread[t].result.failed
  /\ results' = [results EXCEPT ![Its(t)] = thread[t].result]
  /\ Goto(t, [thread[t] EXCEPT !.at = "callback",
                !.event = IF thread[t].result.failed = {} THEN "succeeded" ELSE "failed"])
  /\ UNCHANGED <<job, synced>>

\* Mutant: a sync with failures succeeds.
CallbackSucceeding(t) ==
  /\ At(t, "callback")
  /\ job[Its(t)].status = "running"
  /\ Goto(t, [thread[t] EXCEPT !.at = "save", !.then = "idle",
                               !.row = Marked("succeeded", thread[t].result)])
  /\ UNCHANGED <<job, synced, results>>

\* _apply_execution_callback up to its save. A job that is not running any more
\* raises: after a success the exception is answered by a second callback, of
\* a failure without a result; any other leaves the request.
Callback(t) ==
  /\ At(t, "callback")
  /\ \/ /\ job[Its(t)].status = "running"
        /\ Goto(t, [thread[t] EXCEPT !.at = "save", !.then = "idle",
                                     !.row = Marked(thread[t].event, thread[t].result)])
     \/ /\ job[Its(t)].status # "running"
        /\ Goto(t, IF thread[t].event = "succeeded" THEN [thread[t] EXCEPT !.event = "error"] ELSE Idle)
  /\ UNCHANGED <<job, synced, results>>

\* The process dies and is restarted: recover_runtime fails the jobs that were
\* running, before it serves.
Restart ==
  /\ thread' = [t \in Threads |-> Idle]
  /\ synced' = [u \in Users |-> {}]
  /\ results' = [j \in Jobs |-> NoResult]
  /\ job' = [j \in Jobs |-> IF job[j].status = "running" THEN Marked("error", Empty) ELSE job[j]]

-----------------------------------------------------------------------------
Init ==
  /\ job = [j \in Jobs |-> Unborn]
  /\ synced = [u \in Users |-> {}]
  /\ results = [j \in Jobs |-> NoResult]
  /\ thread = [t \in Threads |-> Idle]

SyncRoutes(t) ==
  \/ \E j \in Jobs, then \in {"idle", "load"} : SubmitSync(t, j, then)
  \/ \E j \in Jobs, then \in {"idle", "load"},
        to \in {"queued", "running", "succeeded", "failed", "cancelled"} : Transition(t, j, to, then)
  \/ SaveRow(t) \/ DispatchLoad(t)
  \/ \E s \in Symbols : SyncSymbol(t, s)
  \/ RunnerRaises(t) \/ RecordResult(t) \/ Callback(t)

Next == Restart \/ \E t \in Threads : SyncRoutes(t)

Spec == Init /\ [][Next]_vars

-----------------------------------------------------------------------------
(* Properties                                                              *)

TypeOK ==
  /\ job \in [Jobs -> Job]
  /\ synced \in [Users -> SUBSET Symbols]
  /\ results \in [Jobs -> Result \cup {NoResult}]
  /\ thread \in [Threads -> Request]

\* A result accounts for every symbol of its task.
Complete(j, r) == r.ok \cup r.failed = Payload[j]

\* A row with a result is that of an attempt that ended: one that succeeded
\* has synchronized every symbol, any other says which it could not.
RowFits(j, row) ==
  row.result # NoResult =>
    /\ Complete(j, row.result)
    /\ IF row.status = "succeeded" THEN row.result.failed = {}
       ELSE row.status \in {"failed", "cancelled"} /\ row.result.failed # {}

\* However requests overlap, cancel, retry or move a job by hand, and whenever
\* the process dies, no row mixes two attempts, and no result is recorded of
\* an attempt that did not go through all the symbols (transition_job,
\* _apply_execution_callback, recover_runtime, _sync_runner).
ResultsFit ==
  \A j \in Jobs : RowFits(j, job[j]) /\ (results[j] # NoResult => Complete(j, results[j]))

\* sync_task_status: the result of the job, else the one recorded in memory,
\* which may be that of the attempt before.
Shown(j) == IF job[j].result # NoResult THEN job[j].result ELSE results[j]

\* boundary_check reports what the user asks for and the user has not
\* synchronized.
Missing(u, S) == S \ synced[u]

\* Until the process is restarted, boundary_check misses no symbol that a
\* recorded result calls synchronized, nor any of a task that succeeded with
\* a result (record_synced_symbol). A task that succeeded before the restart
\* has lost its symbols, and none is recorded of it again.
SyncedKept ==
  \A j \in Jobs : results[j] # NoResult =>
    /\ Missing(Owner[j], results[j].ok) = {}
    /\ job[j].status = "succeeded" /\ job[j].result # NoResult => Missing(Owner[j], Payload[j]) = {}

=============================================================================
