----------------------- MODULE JobOrchestrationProofs -----------------------
(***************************************************************************)
(* The safety properties of JobOrchestration for every set of users, keys, *)
(* jobs and threads, the refinement of JobRegistry, and the two other      *)
(* parts of the run: the schedules with their templates, and the lifecycle *)
(* of jobs while requests do not overlap.                                  *)
(***************************************************************************)
EXTENDS MCJobOrchestration, Sequences, FiniteSetTheorems, TLAPS

Holding == {"insert", "apply", "limit", "refuse", "start", "settle"}

\* What a request holds: its row is coherent, it is of the job the request
\* names, and its status fits the step that will save it.
RequestInv(t) ==
  LET q == req[t] IN
  /\ q.pc # "idle" => q.id \in JobIds
  /\ q.pc \in Holding => q.row \in Row /\ RowCoherent(q.row)
  /\ q.pc = "insert" => jobs[q.id] = NoJob /\ q.row.status = "queued"
  /\ q.pc \notin {"idle", "insert"} => jobs[q.id] # NoJob
  /\ q.pc \in Holding \ {"insert"} => IdentityOf(q.row) = IdentityOf(jobs[q.id])
  /\ q.pc = "apply" => (q.row.status = "running" => q.row.dispatch = 0)
  /\ q.pc \in {"limit", "refuse"} => q.row.status = "queued"
  /\ q.pc = "start" => q.row.status = "running" /\ q.row.dispatch = q.did
  /\ q.pc = "settle" => q.row.status # "running"
  /\ q.pc = "callback" => q.event # "none"

\* An id about to be inserted is held by nobody else.
FreshInv ==
  \A s, t \in Threads : req[s].pc = "insert" /\ s # t => req[t].id # req[s].id

\* No request survives the process; recovery has listed every running row.
ServerInv ==
  /\ server # "up" => \A t \in Threads : req[t] = Idle
  /\ server = "booting" =>
       /\ pending \subseteq {j \in Stored : jobs[j].status = "running"}
       /\ \A j \in Stored : jobs[j].status = "running" => j \in pending

IInv ==
  /\ TypeOK
  /\ \A t \in Threads : RequestInv(t)
  /\ FreshInv
  /\ ServerInv
  /\ IdempotencyUnique
  /\ RowsCoherent
  /\ NoOrphanRunning

-----------------------------------------------------------------------------
(* The job object                                                          *)

\* A transition keeps the identity of a row and its coherence.
LEMMA TransitionRow ==
  ASSUME NEW r \in Row, RowCoherent(r), NEW to \in Statuses
  PROVE  /\ TransitionTo(r, to) \in Row
         /\ RowCoherent(TransitionTo(r, to))
         /\ TransitionTo(r, to).status = to
         /\ IdentityOf(TransitionTo(r, to)) = IdentityOf(r)
         /\ to # "queued" => TransitionTo(r, to).dispatch = r.dispatch
<1>1. CASE to = "queued"
  BY <1>1 DEF TransitionTo, CreateJob, Row, RowCoherent, IdentityOf, Statuses, ErrorCodes
<1>2. CASE to = "running"
  <2> DEFINE n == [r EXCEPT !.status = to, !.started = TRUE, !.finished = FALSE]
  <2>1. TransitionTo(r, to) = n
    BY <1>2 DEF TransitionTo
  <2>2. n \in Row /\ RowCoherent(n) /\ n.status = to /\ IdentityOf(n) = IdentityOf(r)
        /\ n.dispatch = r.dispatch
    BY <1>2 DEF Row, RowCoherent, IdentityOf, Statuses
  <2>3. QED BY <2>1, <2>2
<1>3. CASE to \notin {"queued", "running"}
  <2> DEFINE n == [r EXCEPT !.status = to, !.finished = TRUE]
  <2>1. TransitionTo(r, to) = n
    BY <1>3 DEF TransitionTo
  <2>2. n \in Row /\ RowCoherent(n) /\ n.status = to /\ IdentityOf(n) = IdentityOf(r)
        /\ n.dispatch = r.dispatch
    BY <1>3 DEF Row, RowCoherent, IdentityOf, Statuses
  <2>3. QED BY <2>1, <2>2
<1>4. QED BY <1>1, <1>2, <1>3

\* What start_execution saves of a queued row.
LEMMA StartRow ==
  ASSUME NEW r \in Row, RowCoherent(r), r.status = "queued", NEW d \in Nat,
         NEW e \in ErrorCodes
  PROVE  LET n == StartExecution([r EXCEPT !.error = e], d) IN
         /\ n \in Row /\ RowCoherent(n)
         /\ n.status = "running" /\ n.dispatch = d
         /\ IdentityOf(n) = IdentityOf(r)
BY DEF StartExecution, TransitionTo, Row, RowCoherent, IdentityOf, Statuses, ErrorCodes

\* What recovery and a failure callback save.
LEMMA FailedRow ==
  ASSUME NEW r \in Row, RowCoherent(r), NEW c \in ErrorCodes
  PROVE  /\ MarkFailed(r, c) \in Row
         /\ RowCoherent(MarkFailed(r, c))
         /\ MarkFailed(r, c).status = "failed"
         /\ MarkFailed(r, c).result = 0
         /\ IdentityOf(MarkFailed(r, c)) = IdentityOf(r)
<1> DEFINE n == TransitionTo(r, "failed")
<1>1. n \in Row /\ RowCoherent(n) /\ n.status = "failed" /\ IdentityOf(n) = IdentityOf(r)
  BY TransitionRow DEF Statuses
<1>2. QED BY <1>1 DEF MarkFailed, Row, RowCoherent, IdentityOf

\* What a callback of dispatch d saves.
LEMMA MarkedRow ==
  ASSUME NEW r \in Row, RowCoherent(r), NEW e \in Events \ {"none"}, NEW d \in Nat
  PROVE  /\ Marked(r, e, d) \in Row
         /\ RowCoherent(Marked(r, e, d))
         /\ Marked(r, e, d).status \in {"succeeded", "failed"}
         /\ IdentityOf(Marked(r, e, d)) = IdentityOf(r)
<1>1. CASE e = "succeeded"
  <2> DEFINE n == TransitionTo(r, "succeeded")
  <2>1. n \in Row /\ RowCoherent(n) /\ n.status = "succeeded" /\ IdentityOf(n) = IdentityOf(r)
    BY TransitionRow DEF Statuses
  <2>2. Marked(r, e, d) = [[n EXCEPT !.result = d, !.error = "none"] EXCEPT !.dispatch = d]
    BY <1>1 DEF Marked
  <2>3. QED BY <2>1, <2>2 DEF Row, RowCoherent, IdentityOf, ErrorCodes
<1>2. CASE e = "failed"
  <2> DEFINE n == MarkFailed(r, "TASK_FAILED")
  <2>1. n \in Row /\ RowCoherent(n) /\ n.status = "failed" /\ IdentityOf(n) = IdentityOf(r)
    BY FailedRow DEF ErrorCodes
  <2>2. Marked(r, e, d) = [[n EXCEPT !.result = d] EXCEPT !.dispatch = d]
    BY <1>2 DEF Marked
  <2>3. QED BY <2>1, <2>2 DEF Row, RowCoherent, IdentityOf
<1>3. CASE e = "error"
  <2> DEFINE n == MarkFailed(r, "EXECUTOR_DISPATCH_FAILED")
  <2>1. n \in Row /\ RowCoherent(n) /\ n.status = "failed" /\ n.result = 0
        /\ IdentityOf(n) = IdentityOf(r)
    BY FailedRow DEF ErrorCodes
  <2>2. Marked(r, e, d) = [n EXCEPT !.dispatch = d]
    BY <1>3 DEF Marked
  <2>3. QED BY <2>1, <2>2 DEF Row, RowCoherent, IdentityOf
<1>4. QED BY <1>1, <1>2, <1>3 DEF Events

-----------------------------------------------------------------------------
(* Steps of the table and of the requests                                  *)

\* The job j keeps its row's existence and identity in this step.
Kept(j) ==
  /\ jobs[j] = NoJob => jobs'[j] = NoJob
  /\ jobs[j] # NoJob => jobs'[j] # NoJob /\ IdentityOf(jobs'[j]) = IdentityOf(jobs[j])

\* A request the step does not move stays sound if its job is kept.
LEMMA RequestKept ==
  ASSUME NEW s \in Threads, RequestInv(s), req'[s] = req[s],
         req[s].pc # "idle" => Kept(req[s].id)
  PROVE  RequestInv(s)'
BY DEF RequestInv, Kept, Holding

\* An idle request holds nothing.
LEMMA IdleSound ==
  ASSUME NEW s \in Threads, req'[s] = Idle
  PROVE  RequestInv(s)'
BY DEF RequestInv, Idle, Holding

\* Overwriting a stored row with a coherent row of the same identity.
LEMMA Overwrite ==
  ASSUME TypeOK, IdempotencyUnique, RowsCoherent,
         NEW j \in JobIds, jobs[j] # NoJob,
         NEW r \in Row, RowCoherent(r), IdentityOf(r) = IdentityOf(jobs[j]),
         Save(j, r)
  PROVE  /\ jobs' \in [JobIds -> Row \cup {NoJob}]
         /\ IdempotencyUnique' /\ RowsCoherent'
         /\ \A i \in JobIds : Kept(i)
         /\ \A i \in JobIds : i # j => jobs'[i] = jobs[i]
         /\ jobs'[j] = r
<1>1. /\ jobs' \in [JobIds -> Row \cup {NoJob}]
      /\ \A i \in JobIds : jobs'[i] = IF i = j THEN r ELSE jobs[i]
  BY DEF TypeOK, Save
<1>2. r # NoJob
  BY NoJobAssumption
<1>3. \A i \in JobIds : Kept(i)
  BY <1>1, <1>2 DEF Kept
<1>4. Stored' = Stored
  BY <1>1, <1>2 DEF Stored
<1>5. \A i \in Stored : jobs'[i].user = jobs[i].user /\ jobs'[i].key = jobs[i].key
  BY <1>3, <1>1 DEF Stored, Kept, IdentityOf
<1>6. IdempotencyUnique'
  BY <1>4, <1>5 DEF IdempotencyUnique
<1>7. RowsCoherent'
  BY <1>1, <1>4 DEF RowsCoherent, Stored
<1>8. QED BY <1>1, <1>3, <1>6, <1>7

\* A step that leaves the table alone and moves one request.
LEMMA TableKept ==
  ASSUME jobs' = jobs
  PROVE  /\ Stored' = Stored
         /\ \A i \in JobIds : Kept(i)
         /\ IdempotencyUnique => IdempotencyUnique'
         /\ RowsCoherent => RowsCoherent'
BY DEF Stored, Kept, IdempotencyUnique, RowsCoherent, RowCoherent

\* Moving request t of a server that is up.
LEMMA MoveRequest ==
  ASSUME IInv, server = "up", NEW t \in Threads, NEW q \in Request, Goto(t, q)
  PROVE  /\ req' \in [Threads -> Request]
         /\ req'[t] = q
         /\ \A s \in Threads : s # t => req'[s] = req[s]
BY DEF IInv, TypeOK, Goto

\* A request that starts, moves or ends without touching the table: the whole
\* invariant, if the new request is sound, takes no id another request is
\* about to insert, and does not abandon a running dispatch.
LEMMA QuietStep ==
  ASSUME IInv, server = "up", NEW t \in Threads, NEW q \in Request, Goto(t, q),
         UNCHANGED <<jobs, server, pending, crashes>>, dispatched' \in Nat,
         RequestInv(t)',
         q.pc = "insert" => \A s \in Threads : s # t => req[s].id # q.id,
         \A s \in Threads : s # t /\ req[s].pc = "insert" => q.id # req[s].id,
         \A j \in Stored, d \in Nat : Executing(t, j, d) =>
             Executing(t, j, d)' \/ jobs[j].status # "running" \/ jobs[j].dispatch # d
  PROVE  IInv'
<1>1. /\ req' \in [Threads -> Request]
      /\ req'[t] = q
      /\ \A s \in Threads : s # t => req'[s] = req[s]
  BY MoveRequest
<1>2. /\ Stored' = Stored /\ IdempotencyUnique' /\ RowsCoherent'
      /\ \A i \in JobIds : Kept(i)
  BY TableKept DEF IInv
<1>3. TypeOK'
  BY <1>1 DEF IInv, TypeOK
<1>4. ASSUME NEW s \in Threads PROVE RequestInv(s)'
  <2>1. CASE s = t BY <2>1
  <2>2. CASE s # t
    <3>1. RequestInv(s) BY DEF IInv
    <3>2. req[s].pc # "idle" => Kept(req[s].id) BY <1>2, <3>1 DEF RequestInv
    <3>3. QED BY <1>1, <2>2, <3>1, <3>2, RequestKept
  <2>3. QED BY <2>1, <2>2
<1>5. FreshInv'
  BY <1>1 DEF FreshInv, IInv
<1>6. ServerInv'
  BY DEF ServerInv
<1>7. NoOrphanRunning'
  <2> SUFFICES ASSUME NEW j \in Stored, jobs[j].status = "running", jobs[j].dispatch # 0
               PROVE  \E s \in Threads : Executing(s, j, jobs[j].dispatch)'
    BY <1>2 DEF NoOrphanRunning
  <2>1. PICK s \in Threads : Executing(s, j, jobs[j].dispatch)
    BY DEF IInv, NoOrphanRunning
  <2>2. jobs[j].dispatch \in Nat
    BY DEF IInv, TypeOK, Stored, Row
  <2>3. CASE s = t
    BY <2>1, <2>2, <2>3
  <2>4. CASE s # t
    BY <1>1, <2>1, <2>4 DEF Executing
  <2>5. QED BY <2>3, <2>4
<1>8. QED BY <1>2, <1>3, <1>4, <1>5, <1>6, <1>7 DEF IInv

\* A request that saves the row it holds over the stored row of its job.
LEMMA SaveStep ==
  ASSUME IInv, server = "up", NEW t \in Threads,
         req[t].pc \in Holding \ {"insert"}, Save(req[t].id, req[t].row),
         NEW q \in Request, Goto(t, q),
         UNCHANGED <<server, pending, dispatched, crashes>>,
         RequestInv(t)',
         q.pc # "insert", q.id \in {req[t].id, NoId},
         req[t].row.status = "running" /\ req[t].row.dispatch # 0 =>
           q.pc = "run" /\ q.id = req[t].id /\ q.did = req[t].row.dispatch,
         \A j \in Stored, d \in Nat : Executing(t, j, d) => j = req[t].id
  PROVE  IInv'
<1> DEFINE j == req[t].id  r == req[t].row
<1>0. RequestInv(t) BY DEF IInv
<1>1. /\ req' \in [Threads -> Request]
      /\ req'[t] = q
      /\ \A s \in Threads : s # t => req'[s] = req[s]
  BY MoveRequest
<1>2. /\ j \in JobIds /\ jobs[j] # NoJob /\ r \in Row /\ RowCoherent(r)
      /\ IdentityOf(r) = IdentityOf(jobs[j])
  BY <1>0 DEF RequestInv, Holding
<1>3. /\ jobs' \in [JobIds -> Row \cup {NoJob}]
      /\ IdempotencyUnique' /\ RowsCoherent'
      /\ \A i \in JobIds : Kept(i)
      /\ \A i \in JobIds : i # j => jobs'[i] = jobs[i]
      /\ jobs'[j] = r
  BY <1>2, Overwrite DEF IInv
<1>4. TypeOK'
  BY <1>1, <1>3 DEF IInv, TypeOK
<1>5. ASSUME NEW s \in Threads PROVE RequestInv(s)'
  <2>1. CASE s = t BY <2>1
  <2>2. CASE s # t
    <3>1. RequestInv(s) BY DEF IInv
    <3>2. req[s].pc # "idle" => Kept(req[s].id) BY <1>3, <3>1 DEF RequestInv
    <3>3. QED BY <1>1, <2>2, <3>1, <3>2, RequestKept
  <2>3. QED BY <2>1, <2>2
<1>6. FreshInv'
  <2>1. \A s \in Threads : req[s].pc = "insert" => req[s].id # j /\ req[s].id # NoId
    BY <1>2, NoIdAssumption DEF IInv, RequestInv
  <2>2. QED BY <1>1, <2>1 DEF FreshInv, IInv
<1>7. ServerInv'
  BY DEF ServerInv
<1>8. NoOrphanRunning'
  <2> SUFFICES ASSUME NEW i \in Stored', jobs'[i].status = "running", jobs'[i].dispatch # 0
               PROVE  \E s \in Threads : Executing(s, i, jobs[i].dispatch)'
    BY DEF NoOrphanRunning
  <2>1. CASE i = j
    <3>1. jobs'[i] = r /\ q.pc = "run" /\ q.id = i /\ q.did = jobs'[i].dispatch
      BY <1>3, <2>1
    <3>2. QED BY <1>1, <3>1 DEF Executing
  <2>2. CASE i # j
    <3>1. i \in Stored /\ jobs'[i] = jobs[i]
      BY <1>3, <2>2 DEF Stored
    <3>2. PICK s \in Threads : Executing(s, i, jobs[i].dispatch)
      BY <3>1 DEF IInv, NoOrphanRunning
    <3>3. jobs[i].dispatch \in Nat
      BY <3>1 DEF IInv, TypeOK, Stored, Row
    <3>4. s # t
      BY <2>2, <3>1, <3>2, <3>3
    <3>5. QED BY <1>1, <3>1, <3>2, <3>4 DEF Executing
  <2>3. QED BY <2>1, <2>2
<1>9. QED BY <1>3, <1>4, <1>5, <1>6, <1>7, <1>8 DEF IInv

-----------------------------------------------------------------------------
(* The inductive invariant                                                 *)

LEMMA InitIInv == Init => IInv
<1> SUFFICES ASSUME Init PROVE IInv
  OBVIOUS
<1>1. Stored = {}
  BY DEF Init, Stored
<1>2. Idle \in Request
  BY DEF Idle, Request, PCs, Events
<1>3. TypeOK
  BY <1>2 DEF Init, TypeOK
<1>4. \A t \in Threads : req[t].pc = "idle"
  BY DEF Init, Idle
<1>5. \A t \in Threads : RequestInv(t)
  BY <1>4 DEF RequestInv, Holding
<1>6. FreshInv /\ ServerInv
  BY <1>4 DEF FreshInv, ServerInv, Init
<1>7. IdempotencyUnique /\ RowsCoherent /\ NoOrphanRunning
  BY <1>1 DEF IdempotencyUnique, RowsCoherent, NoOrphanRunning
<1>8. QED BY <1>3, <1>5, <1>6, <1>7 DEF IInv

\* Ending a request that touches nothing.
LEMMA EndStep ==
  ASSUME IInv, server = "up", NEW t \in Threads, Goto(t, Idle),
         UNCHANGED <<jobs, server, pending, dispatched, crashes>>,
         \A j \in Stored, d \in Nat : Executing(t, j, d) => jobs[j].status # "running"
  PROVE  IInv'
<1>1. Idle \in Request
  BY DEF Idle, Request, PCs, Events
<1>2. req'[t] = Idle
  BY <1>1, MoveRequest
<1>3. RequestInv(t)'
  BY <1>2, IdleSound
<1>4. \A s \in Threads : req[s].pc = "insert" => req[s].id # NoId
  BY NoIdAssumption DEF IInv, RequestInv
<1>5. dispatched' \in Nat
  BY DEF IInv, TypeOK
<1>6. Idle.pc # "insert" /\ Idle.id = NoId
  BY DEF Idle
<1>7. QED BY <1>1, <1>3, <1>4, <1>5, <1>6, QuietStep

LEMMA SubmitFindStep ==
  ASSUME IInv, NEW t \in Threads, NEW u \in Users, NEW ty \in TaskTypes, NEW k \in Keys,
         NEW then \in {"idle", "load"}, NEW via \in {"callable", "executor"},
         SubmitFind(t, u, ty, k, then, via)
  PROVE  IInv'
<1>1. PICK j \in JobIds :
        /\ Fresh(j)
        /\ Goto(t, [Idle EXCEPT !.pc = "insert", !.id = j, !.then = then, !.via = via,
                                !.row = CreateJob(u, ty, k)])
  BY DEF SubmitFind
<1> DEFINE q == [Idle EXCEPT !.pc = "insert", !.id = j, !.then = then, !.via = via,
                             !.row = CreateJob(u, ty, k)]
<1>2. CreateJob(u, ty, k) \in Row /\ RowCoherent(CreateJob(u, ty, k))
      /\ CreateJob(u, ty, k).status = "queued"
  BY DEF CreateJob, Row, RowCoherent, Statuses, ErrorCodes
<1>3. /\ q.pc = "insert" /\ q.id = j /\ q.row = CreateJob(u, ty, k)
      /\ q \in Request
  BY <1>2 DEF Idle, Request, PCs, Events
<1>4. server = "up" /\ req[t].pc = "idle"
      /\ UNCHANGED <<jobs, server, pending, dispatched, crashes>>
  BY DEF SubmitFind, AtPc
<1>5. req'[t] = q
  BY <1>1, <1>3, <1>4, MoveRequest
<1>6. jobs[j] = NoJob /\ \A s \in Threads : req[s].id # j
  BY <1>1 DEF Fresh
<1>7. RequestInv(t)'
  BY <1>2, <1>3, <1>4, <1>5, <1>6 DEF RequestInv, Holding
<1>8. \A i \in Stored, d \in Nat : ~Executing(t, i, d)
  BY <1>4 DEF Executing
<1>9. dispatched' \in Nat
  BY <1>4 DEF IInv, TypeOK
<1> HIDE DEF q
<1>10. QED BY <1>1, <1>3, <1>4, <1>6, <1>7, <1>8, <1>9, QuietStep DEF q

LEMMA SubmitInsertStep ==
  ASSUME IInv, NEW t \in Threads, SubmitInsert(t)
  PROVE  IInv'
<1> DEFINE j == req[t].id  r == req[t].row
<1>1. /\ server = "up" /\ req[t].pc = "insert"
      /\ UNCHANGED <<server, pending, dispatched, crashes>>
  BY DEF SubmitInsert, AtPc
<1>2. /\ j \in JobIds /\ r \in Row /\ RowCoherent(r) /\ jobs[j] = NoJob
      /\ r.status = "queued" /\ req[t] \in Request
  BY <1>1 DEF IInv, RequestInv, Holding, TypeOK
<1>3. CASE Bound(r.user, r.key)
  <2>1. jobs' = jobs /\ Goto(t, Idle)
    BY <1>3 DEF SubmitInsert
  <2>2. \A i \in Stored, d \in Nat : Executing(t, i, d) => jobs[i].status # "running"
    BY <1>1 DEF Executing
  <2>3. QED BY <1>1, <2>1, <2>2, EndStep
<1>4. CASE ~Bound(r.user, r.key)
  <2> DEFINE q == IF req[t].then = "load" THEN [req[t] EXCEPT !.pc = "load"] ELSE Idle
  <2>1. Save(j, r) /\ Goto(t, q)
    BY <1>4 DEF SubmitInsert
  <2>2. /\ q \in Request /\ q.pc \in {"load", "idle"}
        /\ q.pc = "load" => q.id = j
        /\ q.id \in {j, NoId}
    BY <1>2 DEF Idle, Request, PCs, Events
  <2>3. /\ req' \in [Threads -> Request] /\ req'[t] = q
        /\ \A s \in Threads : s # t => req'[s] = req[s]
    BY <1>1, <2>1, <2>2, MoveRequest
  <2>4. /\ jobs' \in [JobIds -> Row \cup {NoJob}]
        /\ jobs'[j] = r
        /\ \A i \in JobIds : i # j => jobs'[i] = jobs[i]
    BY <1>2, <2>1 DEF Save, IInv, TypeOK
  <2>5. r # NoJob
    BY <1>2, NoJobAssumption
  <2>6. Stored' = Stored \cup {j}
    BY <1>2, <2>4, <2>5 DEF Stored
  <2>7. TypeOK'
    BY <1>1, <2>3, <2>4 DEF IInv, TypeOK
  <2>8. ASSUME NEW s \in Threads PROVE RequestInv(s)'
    <3>1. CASE s = t
      BY <1>2, <2>2, <2>3, <2>4, <2>5, <3>1 DEF RequestInv, Holding
    <3>2. CASE s # t
      <4>1. RequestInv(s) BY DEF IInv
      <4>2. req[s].id # j BY <1>1, <3>2 DEF IInv, FreshInv
      <4>3. req[s].pc # "idle" => Kept(req[s].id)
        BY <2>4, <4>1, <4>2 DEF Kept, RequestInv
      <4>4. QED BY <2>3, <3>2, <4>1, <4>3, RequestKept
    <3>3. QED BY <3>1, <3>2
  <2>9. FreshInv'
    <3>1. \A s \in Threads : req[s].pc = "insert" => req[s].id # NoId
      BY NoIdAssumption DEF IInv, RequestInv
    <3>2. \A s \in Threads : s # t => req[s].id # j
      BY <1>1 DEF IInv, FreshInv
    <3>3. req'[t].pc # "insert" /\ req'[t].id \in {j, NoId}
      BY <2>2, <2>3
    <3>4. SUFFICES ASSUME NEW s \in Threads, NEW u \in Threads, req'[s].pc = "insert", s # u
                   PROVE  req'[u].id # req'[s].id
      BY DEF FreshInv
    <3>5. s # t /\ req'[s] = req[s]
      BY <2>3, <3>3, <3>4
    <3>6. CASE u = t
      BY <3>1, <3>2, <3>3, <3>4, <3>5, <3>6
    <3>7. CASE u # t
      BY <2>3, <3>4, <3>5, <3>7 DEF FreshInv, IInv
    <3>8. QED BY <3>6, <3>7
  <2>10. ServerInv'
    BY <1>1 DEF ServerInv
  <2>11. IdempotencyUnique'
    <3>1. \A i \in Stored : i # j /\ jobs'[i] = jobs[i]
      BY <1>2, <2>4 DEF Stored
    <3>2. \A i \in Stored : ~(jobs[i].user = r.user /\ jobs[i].key = r.key)
      BY <1>4 DEF Bound
    <3>3. QED BY <2>4, <2>6, <3>1, <3>2 DEF IInv, IdempotencyUnique
  <2>12. RowsCoherent'
    BY <1>2, <2>4, <2>6 DEF IInv, RowsCoherent, Stored
  <2>13. NoOrphanRunning'
    <3> SUFFICES ASSUME NEW i \in Stored', jobs'[i].status = "running", jobs'[i].dispatch # 0
                 PROVE  \E s \in Threads : Executing(s, i, jobs[i].dispatch)'
      BY DEF NoOrphanRunning
    <3>1. i # j
      BY <1>2, <2>4
    <3>2. i \in Stored /\ jobs'[i] = jobs[i]
      BY <2>4, <2>6, <3>1 DEF Stored
    <3>3. PICK s \in Threads : Executing(s, i, jobs[i].dispatch)
      BY <1>1, <3>2 DEF IInv, NoOrphanRunning
    <3>4. s # t
      BY <1>1, <3>3 DEF Executing
    <3>5. QED BY <2>3, <3>2, <3>3, <3>4 DEF Executing
  <2>14. QED BY <2>7, <2>8, <2>9, <2>10, <2>11, <2>12, <2>13 DEF IInv
<1>5. QED BY <1>3, <1>4

LEMMA TransitionLoadStep ==
  ASSUME IInv, NEW t \in Threads, NEW u \in Users, NEW j \in JobIds, NEW to \in Statuses,
         NEW then \in {"idle", "load"}, TransitionLoad(t, u, j, to, then)
  PROVE  IInv'
<1> DEFINE n == TransitionTo(jobs[j], to)
           q == [Idle EXCEPT !.pc = "apply", !.id = j, !.then = then, !.row = n]
<1>1. /\ server = "up" /\ req[t].pc = "idle" /\ Goto(t, q)
      /\ UNCHANGED <<jobs, server, pending, dispatched, crashes>>
      /\ j \in Stored /\ CanTransition(jobs[j], to)
  BY DEF TransitionLoad, AtPc, Owned
<1>2. jobs[j] \in Row /\ RowCoherent(jobs[j]) /\ jobs[j] # NoJob
  BY <1>1 DEF IInv, TypeOK, RowsCoherent, Stored
<1>3. /\ n \in Row /\ RowCoherent(n) /\ n.status = to /\ IdentityOf(n) = IdentityOf(jobs[j])
      /\ to # "queued" => n.dispatch = jobs[j].dispatch
  BY <1>2, TransitionRow
<1>4. to = "running" => jobs[j].status = "queued" /\ jobs[j].dispatch = 0
  BY <1>1, <1>2 DEF CanTransition, AllowedTransitions, RowCoherent, Row, Statuses
<1> HIDE DEF n
<1>5. q \in Request /\ q.pc = "apply" /\ q.id = j /\ q.row = n
  BY <1>3 DEF Idle, Request, PCs, Events
<1> HIDE DEF q
<1>6. req'[t] = q
  BY <1>1, <1>5, MoveRequest
<1>7. RequestInv(t)'
  BY <1>1, <1>2, <1>3, <1>4, <1>5, <1>6 DEF RequestInv, Holding
<1>8. \A s \in Threads : req[s].pc = "insert" => req[s].id # j
  BY <1>2 DEF IInv, RequestInv
<1>9. \A i \in Stored, d \in Nat : ~Executing(t, i, d)
  BY <1>1 DEF Executing
<1>10. dispatched' \in Nat
  BY <1>1 DEF IInv, TypeOK
<1>11. QED BY <1>1, <1>5, <1>7, <1>8, <1>9, <1>10, QuietStep

\* The four saves over a stored row: where the request goes afterwards.
LEMMA TransitionSaveStep ==
  ASSUME IInv, NEW t \in Threads, TransitionSave(t)
  PROVE  IInv'
<1> DEFINE q == IF req[t].then = "load" THEN [req[t] EXCEPT !.pc = "load"] ELSE Idle
<1>1. /\ server = "up" /\ req[t].pc = "apply" /\ Save(req[t].id, req[t].row) /\ Goto(t, q)
      /\ UNCHANGED <<server, pending, dispatched, crashes>>
  BY DEF TransitionSave, AtPc
<1>2. RequestInv(t) /\ req[t] \in Request
  BY DEF IInv, TypeOK
<1>3. /\ q \in Request /\ q.pc \in {"load", "idle"}
      /\ q.pc = "load" => q.id = req[t].id
      /\ q.id \in {req[t].id, NoId}
  BY <1>2 DEF Idle, Request, PCs, Events
<1> HIDE DEF q
<1>4. req'[t] = q
  BY <1>1, <1>3, MoveRequest
<1>5. jobs'[req[t].id] # NoJob /\ req[t].id \in JobIds
  BY <1>1, <1>2, NoJobAssumption DEF Save, IInv, TypeOK, RequestInv, Holding
<1>6. RequestInv(t)'
  BY <1>3, <1>4, <1>5 DEF RequestInv, Holding
<1>7. req[t].row.status = "running" => req[t].row.dispatch = 0
  BY <1>1, <1>2 DEF RequestInv
<1>8. \A i \in Stored, d \in Nat : Executing(t, i, d) => i = req[t].id
  BY DEF Executing
<1>9. QED BY <1>1, <1>3, <1>6, <1>7, <1>8, SaveStep DEF Holding

LEMMA DispatchLoadStep ==
  ASSUME IInv, NEW t \in Threads, DispatchLoad(t)
  PROVE  IInv'
<1> DEFINE r == jobs[req[t].id]
<1>1. /\ server = "up" /\ req[t].pc = "load"
      /\ UNCHANGED <<jobs, server, pending, dispatched, crashes>>
  BY DEF DispatchLoad, AtPc
<1>2. RequestInv(t) /\ req[t] \in Request
  BY DEF IInv, TypeOK
<1>3. /\ req[t].id \in JobIds /\ r # NoJob /\ r \in Row /\ RowCoherent(r)
  BY <1>1, <1>2 DEF IInv, TypeOK, RowsCoherent, Stored, RequestInv
<1>4. \A i \in Stored, d \in Nat : ~Executing(t, i, d)
  BY <1>1 DEF Executing
<1>5. CASE r.status = "queued"
  <2> DEFINE q == [req[t] EXCEPT !.pc = "limit", !.row = r]
  <2>1. Goto(t, q)
    BY <1>5 DEF DispatchLoad
  <2>2. q \in Request /\ q.pc = "limit" /\ q.row = r /\ q.id = req[t].id
    BY <1>2, <1>3 DEF Request, PCs
  <2> HIDE DEF q
  <2>3. req'[t] = q
    BY <1>1, <2>1, <2>2, MoveRequest
  <2>4. RequestInv(t)'
    BY <1>1, <1>3, <1>5, <2>2, <2>3 DEF RequestInv, Holding
  <2>5. \A s \in Threads : req[s].pc = "insert" => req[s].id # req[t].id
    BY <1>3 DEF IInv, RequestInv
  <2>6. dispatched' \in Nat
    BY <1>1 DEF IInv, TypeOK
  <2>7. QED BY <1>1, <1>4, <2>1, <2>2, <2>4, <2>5, <2>6, QuietStep
<1>6. CASE r.status # "queued"
  <2>1. Goto(t, Idle)
    BY <1>6 DEF DispatchLoad
  <2>2. QED BY <1>1, <1>4, <2>1, EndStep
<1>7. QED BY <1>5, <1>6

LEMMA DispatchLimitStep ==
  ASSUME IInv, NEW t \in Threads, DispatchLimit(t)
  PROVE  IInv'
<1> DEFINE r == req[t].row
           e == [r EXCEPT !.error = "CONCURRENCY_LIMIT_EXCEEDED"]
           n == StartExecution([r EXCEPT !.error = "none"], dispatched + 1)
           qe == [req[t] EXCEPT !.pc = "refuse", !.row = e]
           qn == [req[t] EXCEPT !.pc = "start", !.did = dispatched + 1, !.row = n]
<1>1. /\ server = "up" /\ req[t].pc = "limit"
      /\ UNCHANGED <<jobs, server, pending, crashes>>
      /\ \/ Goto(t, qe) /\ dispatched' = dispatched
         \/ Goto(t, qn) /\ dispatched' = dispatched + 1
  BY DEF DispatchLimit, AtPc
<1>2. RequestInv(t) /\ req[t] \in Request /\ dispatched \in Nat /\ dispatched' \in Nat
  BY <1>1 DEF IInv, TypeOK
<1>3. /\ req[t].id \in JobIds /\ jobs[req[t].id] # NoJob /\ r \in Row /\ RowCoherent(r)
      /\ r.status = "queued" /\ IdentityOf(r) = IdentityOf(jobs[req[t].id])
  BY <1>1, <1>2 DEF RequestInv, Holding
<1>4. \A i \in Stored, d \in Nat : ~Executing(t, i, d)
  BY <1>1 DEF Executing
<1>5. \A s \in Threads : req[s].pc = "insert" => req[s].id # req[t].id
  BY <1>3 DEF IInv, RequestInv
<1>6. e \in Row /\ RowCoherent(e) /\ e.status = "queued" /\ IdentityOf(e) = IdentityOf(r)
  BY <1>3 DEF Row, RowCoherent, IdentityOf, ErrorCodes
<1>7. /\ n \in Row /\ RowCoherent(n) /\ n.status = "running" /\ n.dispatch = dispatched + 1
      /\ IdentityOf(n) = IdentityOf(r)
      /\ dispatched + 1 \in Nat
  <2>1. dispatched + 1 \in Nat /\ "none" \in ErrorCodes
    BY <1>2 DEF ErrorCodes
  <2> HIDE DEF r
  <2>2. QED BY <1>3, <2>1, StartRow
<1> HIDE DEF e, n
<1>8. CASE Goto(t, qe)
  <2>1. qe \in Request /\ qe.pc = "refuse" /\ qe.row = e /\ qe.id = req[t].id
    BY <1>2, <1>6 DEF Request, PCs
  <2> HIDE DEF qe
  <2>2. req'[t] = qe
    BY <1>1, <1>8, <2>1, MoveRequest
  <2>3. RequestInv(t)'
    BY <1>1, <1>3, <1>6, <2>1, <2>2 DEF RequestInv, Holding
  <2>4. QED BY <1>1, <1>2, <1>4, <1>5, <1>8, <2>1, <2>3, QuietStep
<1>9. CASE Goto(t, qn)
  <2>1. /\ qn \in Request /\ qn.pc = "start" /\ qn.row = n /\ qn.id = req[t].id
        /\ qn.did = dispatched + 1
    <3> DEFINE d == dispatched + 1
    <3>1. d \in Nat BY <1>7
    <3> HIDE DEF d
    <3>2. /\ [req[t] EXCEPT !.pc = "start", !.did = d, !.row = n] \in Request
          /\ [req[t] EXCEPT !.pc = "start", !.did = d, !.row = n].pc = "start"
          /\ [req[t] EXCEPT !.pc = "start", !.did = d, !.row = n].row = n
          /\ [req[t] EXCEPT !.pc = "start", !.did = d, !.row = n].id = req[t].id
          /\ [req[t] EXCEPT !.pc = "start", !.did = d, !.row = n].did = d
      BY <1>2, <1>7, <3>1 DEF Request, PCs
    <3>3. QED BY <3>2 DEF d
  <2> HIDE DEF qn
  <2>2. req'[t] = qn
    BY <1>1, <1>9, <2>1, MoveRequest
  <2>3. RequestInv(t)'
    BY <1>1, <1>3, <1>7, <2>1, <2>2 DEF RequestInv, Holding
  <2>4. QED BY <1>1, <1>2, <1>4, <1>5, <1>9, <2>1, <2>3, QuietStep
<1>10. QED BY <1>1, <1>8, <1>9

LEMMA DispatchRefuseStep ==
  ASSUME IInv, NEW t \in Threads, DispatchRefuse(t)
  PROVE  IInv'
<1>1. /\ server = "up" /\ req[t].pc = "refuse" /\ Save(req[t].id, req[t].row) /\ Goto(t, Idle)
      /\ UNCHANGED <<server, pending, dispatched, crashes>>
  BY DEF DispatchRefuse, AtPc
<1>2. Idle \in Request /\ Idle.pc = "idle" /\ Idle.id = NoId
  BY DEF Idle, Request, PCs, Events
<1>3. req'[t] = Idle
  BY <1>1, <1>2, MoveRequest
<1>4. RequestInv(t)'
  BY <1>3, IdleSound
<1>5. req[t].row.status # "running"
  BY <1>1 DEF IInv, RequestInv
<1>6. \A i \in Stored, d \in Nat : Executing(t, i, d) => i = req[t].id
  BY DEF Executing
<1>7. QED BY <1>1, <1>2, <1>4, <1>5, <1>6, SaveStep DEF Holding

LEMMA DispatchStartStep ==
  ASSUME IInv, NEW t \in Threads, DispatchStart(t)
  PROVE  IInv'
<1> DEFINE q == [req[t] EXCEPT !.pc = "run"]
<1>1. /\ server = "up" /\ req[t].pc = "start" /\ Save(req[t].id, req[t].row) /\ Goto(t, q)
      /\ UNCHANGED <<server, pending, dispatched, crashes>>
  BY DEF DispatchStart, AtPc
<1>2. RequestInv(t) /\ req[t] \in Request
  BY DEF IInv, TypeOK
<1>3. q \in Request /\ q.pc = "run" /\ q.id = req[t].id /\ q.did = req[t].did
  BY <1>2 DEF Request, PCs
<1> HIDE DEF q
<1>4. req'[t] = q
  BY <1>1, <1>3, MoveRequest
<1>5. jobs'[req[t].id] # NoJob /\ req[t].id \in JobIds
  BY <1>1, <1>2, NoJobAssumption DEF Save, IInv, TypeOK, RequestInv, Holding
<1>6. RequestInv(t)'
  BY <1>3, <1>4, <1>5 DEF RequestInv, Holding
<1>7. req[t].row.dispatch = req[t].did
  BY <1>1, <1>2 DEF RequestInv
<1>8. \A i \in Stored, d \in Nat : Executing(t, i, d) => i = req[t].id
  BY DEF Executing
<1>9. QED BY <1>1, <1>3, <1>6, <1>7, <1>8, SaveStep DEF Holding

LEMMA RunTaskStep ==
  ASSUME IInv, NEW t \in Threads, NEW event \in Events \ {"none"}, RunTask(t, event)
  PROVE  IInv'
<1> DEFINE again == req[t].via = "executor" \/ event = "succeeded"
           q == [req[t] EXCEPT !.pc = "callback", !.event = event, !.again = again]
<1>1. /\ server = "up" /\ req[t].pc = "run" /\ Goto(t, q)
      /\ UNCHANGED <<jobs, server, pending, dispatched, crashes>>
  BY DEF RunTask, AtPc
<1>2. RequestInv(t) /\ req[t] \in Request /\ dispatched' \in Nat
  BY <1>1 DEF IInv, TypeOK
<1>3. again \in BOOLEAN
  OBVIOUS
<1> HIDE DEF again
<1>4. /\ q \in Request /\ q.pc = "callback" /\ q.id = req[t].id /\ q.did = req[t].did
      /\ q.event # "none"
  BY <1>2, <1>3 DEF Request, PCs, Events
<1> HIDE DEF q
<1>5. req'[t] = q
  BY <1>1, <1>4, MoveRequest
<1>6. RequestInv(t)'
  BY <1>1, <1>2, <1>4, <1>5 DEF RequestInv, Holding
<1>7. \A s \in Threads : req[s].pc = "insert" => req[s].id # req[t].id
  BY <1>1, <1>2 DEF IInv, RequestInv
<1>8. \A i \in Stored, d \in Nat : Executing(t, i, d) => Executing(t, i, d)'
  BY <1>4, <1>5 DEF Executing
<1>9. QED BY <1>1, <1>2, <1>4, <1>6, <1>7, <1>8, QuietStep

LEMMA CallbackLoadStep ==
  ASSUME IInv, NEW t \in Threads, CallbackLoad(t)
  PROVE  IInv'
<1> DEFINE r == jobs[req[t].id]
           legal == CanTransition(r, IF req[t].event = "succeeded" THEN "succeeded" ELSE "failed")
           n == Marked(r, req[t].event, req[t].did)
           qs == [req[t] EXCEPT !.pc = "settle", !.row = n]
           qa == [req[t] EXCEPT !.event = "error", !.again = FALSE]
<1>1. /\ server = "up" /\ req[t].pc = "callback"
      /\ UNCHANGED <<jobs, server, pending, dispatched, crashes>>
      /\ \/ Goto(t, qs)
         \/ ~legal /\ Goto(t, qa)
         \/ ~legal /\ Goto(t, Idle)
  BY DEF CallbackLoad, AtPc
<1>2. RequestInv(t) /\ req[t] \in Request /\ dispatched' \in Nat
  BY <1>1 DEF IInv, TypeOK
<1>3. /\ req[t].id \in JobIds /\ r # NoJob /\ r \in Row /\ RowCoherent(r)
  BY <1>1, <1>2 DEF IInv, TypeOK, RowsCoherent, Stored, RequestInv
<1>4. \A s \in Threads : req[s].pc = "insert" => req[s].id # req[t].id
  BY <1>3 DEF IInv, RequestInv
<1>5. req[t].event \in Events \ {"none"} /\ req[t].did \in Nat
  BY <1>1, <1>2 DEF Request, RequestInv
<1>6. CASE Goto(t, qs)
  <2>1. /\ n \in Row /\ RowCoherent(n) /\ n.status \in {"succeeded", "failed"}
        /\ IdentityOf(n) = IdentityOf(r)
    BY <1>3, <1>5, MarkedRow
  <2> HIDE DEF n
  <2>2. /\ qs \in Request /\ qs.pc = "settle" /\ qs.row = n /\ qs.id = req[t].id
        /\ qs.did = req[t].did
    BY <1>2, <2>1 DEF Request, PCs
  <2> HIDE DEF qs
  <2>3. req'[t] = qs
    BY <1>1, <1>6, <2>2, MoveRequest
  <2>4. RequestInv(t)'
    BY <1>1, <1>3, <2>1, <2>2, <2>3 DEF RequestInv, Holding
  <2>5. \A i \in Stored, d \in Nat : Executing(t, i, d) => Executing(t, i, d)'
    BY <2>2, <2>3 DEF Executing
  <2>6. QED BY <1>1, <1>2, <1>4, <1>6, <2>2, <2>4, <2>5, QuietStep
<1>7. CASE Goto(t, qa)
  <2>1. /\ qa \in Request /\ qa.pc = "callback" /\ qa.id = req[t].id
        /\ qa.did = req[t].did
        /\ qa.event = "error"
    BY <1>1, <1>2 DEF Request, Events
  <2> HIDE DEF qa
  <2>2. req'[t] = qa
    BY <1>1, <1>7, <2>1, MoveRequest
  <2>3. RequestInv(t)'
    BY <1>1, <1>2, <2>1, <2>2 DEF RequestInv, Holding
  <2>4. \A i \in Stored, d \in Nat : Executing(t, i, d) => Executing(t, i, d)'
    BY <2>1, <2>2 DEF Executing
  <2>5. QED BY <1>1, <1>2, <1>4, <1>7, <2>1, <2>3, <2>4, QuietStep
<1>8. CASE ~legal /\ Goto(t, Idle)
  <2>1. r.status # "running"
    BY <1>8 DEF CanTransition, AllowedTransitions, Statuses
  <2>2. \A i \in Stored, d \in Nat : Executing(t, i, d) => jobs[i].status # "running"
    BY <2>1 DEF Executing
  <2>3. QED BY <1>1, <1>8, <2>2, EndStep
<1>9. QED BY <1>1, <1>6, <1>7, <1>8

LEMMA CallbackSaveStep ==
  ASSUME IInv, NEW t \in Threads, CallbackSave(t)
  PROVE  IInv'
<1>1. /\ server = "up" /\ req[t].pc = "settle" /\ Save(req[t].id, req[t].row) /\ Goto(t, Idle)
      /\ UNCHANGED <<server, pending, dispatched, crashes>>
  BY DEF CallbackSave, AtPc
<1>2. Idle \in Request /\ Idle.pc = "idle" /\ Idle.id = NoId
  BY DEF Idle, Request, PCs, Events
<1>3. req'[t] = Idle
  BY <1>1, <1>2, MoveRequest
<1>4. RequestInv(t)'
  BY <1>3, IdleSound
<1>5. req[t].row.status # "running"
  BY <1>1 DEF IInv, RequestInv
<1>6. \A i \in Stored, d \in Nat : Executing(t, i, d) => i = req[t].id
  BY DEF Executing
<1>7. QED BY <1>1, <1>2, <1>4, <1>5, <1>6, SaveStep DEF Holding

LEMMA CrashStep ==
  ASSUME IInv, Crash
  PROVE  IInv'
<1>1. /\ server' = "down" /\ req' = [t \in Threads |-> Idle]
      /\ UNCHANGED <<jobs, pending, dispatched>> /\ crashes' = crashes + 1
  BY DEF Crash
<1>2. Idle \in Request /\ Idle.pc = "idle"
  BY DEF Idle, Request, PCs, Events
<1>3. \A t \in Threads : req'[t] = Idle
  BY <1>1
<1>4. TypeOK'
  BY <1>1, <1>2 DEF IInv, TypeOK
<1>5. \A t \in Threads : RequestInv(t)'
  BY <1>3, IdleSound
<1>6. FreshInv'
  BY <1>2, <1>3 DEF FreshInv
<1>7. ServerInv' /\ NoOrphanRunning'
  BY <1>1, <1>3 DEF ServerInv, NoOrphanRunning
<1>8. IdempotencyUnique' /\ RowsCoherent'
  BY <1>1, TableKept DEF IInv
<1>9. QED BY <1>4, <1>5, <1>6, <1>7, <1>8 DEF IInv

\* A step of the boot leaves every request idle.
LEMMA BootRequests ==
  ASSUME IInv, server # "up", req' = req
  PROVE  /\ \A t \in Threads : req'[t] = Idle
         /\ \A t \in Threads : RequestInv(t)'
         /\ FreshInv'
<1>1. \A t \in Threads : req'[t] = Idle
  BY DEF IInv, ServerInv
<1>2. Idle.pc = "idle"
  BY DEF Idle
<1>3. QED BY <1>1, <1>2, IdleSound DEF FreshInv

LEMMA RecoverListStep ==
  ASSUME IInv, RecoverList
  PROVE  IInv'
<1>1. /\ server = "down" /\ server' = "booting"
      /\ pending' = {j \in Stored : jobs[j].status = "running"}
      /\ UNCHANGED <<jobs, req, dispatched, crashes>>
  BY DEF RecoverList
<1>2. (\A t \in Threads : req'[t] = Idle) /\ (\A t \in Threads : RequestInv(t)') /\ FreshInv'
  BY <1>1, BootRequests
<1>3. Stored' = Stored /\ IdempotencyUnique' /\ RowsCoherent'
  BY <1>1, TableKept DEF IInv
<1>4. TypeOK'
  BY <1>1 DEF IInv, TypeOK, Stored
<1>5. ServerInv' /\ NoOrphanRunning'
  BY <1>1, <1>2, <1>3 DEF ServerInv, NoOrphanRunning
<1>6. QED BY <1>2, <1>3, <1>4, <1>5 DEF IInv

LEMMA RecoverSaveStep ==
  ASSUME IInv, NEW j \in JobIds, RecoverSave(j)
  PROVE  IInv'
<1> DEFINE r == MarkFailed(jobs[j], "RUNTIME_RECOVERY")
<1>1. /\ server = "booting" /\ j \in pending /\ Save(j, r) /\ pending' = pending \ {j}
      /\ UNCHANGED <<req, server, dispatched, crashes>>
  BY DEF RecoverSave
<1>2. (\A t \in Threads : req'[t] = Idle) /\ (\A t \in Threads : RequestInv(t)') /\ FreshInv'
  BY <1>1, BootRequests
<1>3. j \in Stored /\ jobs[j] # NoJob /\ jobs[j] \in Row /\ RowCoherent(jobs[j])
  BY <1>1 DEF IInv, ServerInv, TypeOK, RowsCoherent, Stored
<1>4. r \in Row /\ RowCoherent(r) /\ IdentityOf(r) = IdentityOf(jobs[j]) /\ r.status = "failed"
  BY <1>3, FailedRow DEF ErrorCodes
<1> HIDE DEF r
<1>5. /\ jobs' \in [JobIds -> Row \cup {NoJob}]
      /\ IdempotencyUnique' /\ RowsCoherent'
      /\ \A i \in JobIds : i # j => jobs'[i] = jobs[i]
      /\ jobs'[j] = r
  BY <1>1, <1>3, <1>4, Overwrite DEF IInv
<1>6. r # NoJob
  BY <1>4, NoJobAssumption
<1>7. Stored' = Stored
  BY <1>3, <1>5, <1>6 DEF Stored
<1>8. TypeOK'
  BY <1>1, <1>5 DEF IInv, TypeOK
<1>9. \A i \in Stored : jobs'[i].status = "running" => i # j /\ jobs[i].status = "running"
  BY <1>4, <1>5 DEF Stored
<1>10. \A i \in pending \ {j} : jobs'[i] = jobs[i]
  BY <1>5 DEF IInv, TypeOK
<1>11. ServerInv'
  BY <1>1, <1>2, <1>7, <1>9, <1>10 DEF IInv, ServerInv
<1>12. NoOrphanRunning'
  BY <1>1 DEF NoOrphanRunning
<1>13. QED BY <1>2, <1>5, <1>8, <1>11, <1>12 DEF IInv

LEMMA ServeStep ==
  ASSUME IInv, Serve
  PROVE  IInv'
<1>1. /\ server = "booting" /\ server' = "up" /\ pending = {}
      /\ UNCHANGED <<jobs, req, pending, dispatched, crashes>>
  BY DEF Serve
<1>2. (\A t \in Threads : RequestInv(t)') /\ FreshInv'
  BY <1>1, BootRequests
<1>3. Stored' = Stored /\ IdempotencyUnique' /\ RowsCoherent'
  BY <1>1, TableKept DEF IInv
<1>4. TypeOK'
  BY <1>1 DEF IInv, TypeOK
<1>5. \A j \in Stored : jobs[j].status # "running"
  BY <1>1 DEF IInv, ServerInv
<1>6. ServerInv' /\ NoOrphanRunning'
  BY <1>1, <1>3, <1>5 DEF ServerInv, NoOrphanRunning
<1>7. QED BY <1>2, <1>3, <1>4, <1>6 DEF IInv

LEMMA StutterStep ==
  ASSUME IInv, UNCHANGED vars
  PROVE  IInv'
BY DEF vars, IInv, TypeOK, RequestInv, FreshInv, ServerInv, IdempotencyUnique, RowsCoherent,
       NoOrphanRunning, Executing, Stored

\* Every step keeps the invariant.
LEMMA NextIInv ==
  ASSUME IInv, [Next]_vars
  PROVE  IInv'
<1>1. CASE Crash BY <1>1, CrashStep
<1>2. CASE Boot
  BY <1>2, RecoverListStep, RecoverSaveStep, ServeStep DEF Boot
<1>3. ASSUME NEW t \in Threads, Accept(t) PROVE IInv'
  <2>1. ASSUME NEW u \in Users, NEW ty \in TaskTypes, NEW k \in Keys,
               NEW then \in {"idle", "load"}, NEW via \in {"callable", "executor"},
               SubmitFind(t, u, ty, k, then, via)
        PROVE  IInv'
    BY <2>1, SubmitFindStep
  <2>2. ASSUME NEW u \in Users, NEW j \in JobIds, NEW to \in Statuses,
               NEW then \in {"idle", "load"}, TransitionLoad(t, u, j, to, then)
        PROVE  IInv'
    BY <2>2, TransitionLoadStep
  <2>3. QED BY <1>3, <2>1, <2>2 DEF Accept
<1>4. ASSUME NEW t \in Threads, Continue(t) PROVE IInv'
  BY <1>4, SubmitInsertStep, TransitionSaveStep, DispatchLoadStep, DispatchLimitStep,
     DispatchRefuseStep, DispatchStartStep, RunTaskStep, CallbackLoadStep, CallbackSaveStep
     DEF Continue
<1>5. CASE UNCHANGED vars BY <1>5, StutterStep
<1>6. QED BY <1>1, <1>2, <1>3, <1>4, <1>5 DEF Next

\* The inductive invariant holds of every behaviour.
THEOREM InductiveInvariant == Spec => []IInv
BY InitIInv, NextIInv, PTL DEF Spec

\* The variables keep their types: every row a request writes back is a row.
THEOREM TypeCorrect == Spec => []TypeOK
<1>1. IInv => TypeOK BY DEF IInv
<1>2. QED BY <1>1, InductiveInvariant, PTL

\* submit_job: an owner's idempotency key names at most one job, whatever the
\* number of users, keys and threads and however their steps interleave.
THEOREM IdempotencyCorrect == Spec => []IdempotencyUnique
<1>1. IInv => IdempotencyUnique BY DEF IInv
<1>2. QED BY <1>1, InductiveInvariant, PTL

\* No interleaving of whole-row saves stores a mixture of two executions.
THEOREM RowsCorrect == Spec => []RowsCoherent
<1>1. IInv => RowsCoherent BY DEF IInv
<1>2. QED BY <1>1, InductiveInvariant, PTL

\* dispatch_job, its callbacks and recover_runtime: while the server is up, a
\* dispatched row is "running" only while the request that runs it lives.
THEOREM NoOrphanCorrect == Spec => []NoOrphanRunning
<1>1. IInv => NoOrphanRunning BY DEF IInv
<1>2. QED BY <1>1, InductiveInvariant, PTL

\* recover_runtime fails exactly the interrupted jobs before the server serves.
THEOREM RecoveryCorrect == Spec => RecoveryExact
<1>1. IInv /\ [Next]_vars =>
        [/\ server = "booting" => \A j \in Stored : jobs[j].status # "running" => jobs'[j] = jobs[j]
         /\ server = "booting" /\ server' = "up" =>
              \A j \in Stored : jobs[j].status # "running"]_vars
  <2> SUFFICES ASSUME IInv, Next, server = "booting"
               PROVE  /\ \A j \in Stored : jobs[j].status # "running" => jobs'[j] = jobs[j]
                      /\ server' = "up" => \A j \in Stored : jobs[j].status # "running"
    OBVIOUS
  <2>1. Boot
    <3>1. ~Crash BY DEF Crash
    <3>2. ASSUME NEW t \in Threads PROVE ~Accept(t) /\ ~Continue(t)
      BY DEF Accept, Continue, AtPc, SubmitFind, TransitionLoad, SubmitInsert, TransitionSave,
             DispatchLoad, DispatchLimit, DispatchRefuse, DispatchStart, RunTask, CallbackLoad,
             CallbackSave
    <3>3. QED BY <3>1, <3>2 DEF Next
  <2>2. CASE Serve
    BY <2>2 DEF Serve, IInv, ServerInv
  <2>3. ASSUME NEW i \in JobIds, RecoverSave(i)
        PROVE  /\ \A j \in Stored : jobs[j].status # "running" => jobs'[j] = jobs[j]
               /\ server' # "up"
    BY <2>3 DEF RecoverSave, Save, IInv, ServerInv, TypeOK, Stored
  <2>4. ~RecoverList BY DEF RecoverList
  <2>5. QED BY <2>1, <2>2, <2>3, <2>4 DEF Boot
<1>2. QED BY <1>1, InductiveInvariant, PTL DEF Spec, RecoveryExact

-----------------------------------------------------------------------------
(* The refinement                                                          *)

\* The registry a table stands for, as ImplementsRegistry maps it.
Identities == [j \in JobIds |-> IF jobs[j] = NoJob THEN NoJob ELSE IdentityOf(jobs[j])]

\* A step that keeps every job registers nothing.
LEMMA KeptIsStutter ==
  ASSUME \A j \in JobIds : Kept(j)
  PROVE  Identities' = Identities
BY DEF Kept, Identities

\* Every save over a stored row keeps its job.
LEMMA SaveIsStutter ==
  ASSUME IInv, NEW j \in JobIds, jobs[j] # NoJob, NEW r \in Row,
         IdentityOf(r) = IdentityOf(jobs[j]), Save(j, r)
  PROVE  Identities' = Identities
<1>1. r # NoJob BY NoJobAssumption
<1>2. \A i \in JobIds : Kept(i)
  BY <1>1 DEF Save, IInv, TypeOK, Kept
<1>3. QED BY <1>2, KeptIsStutter

\* A request saves the row of its own job.
LEMMA RequestSaveIsStutter ==
  ASSUME IInv, NEW t \in Threads, req[t].pc \in Holding \ {"insert"},
         Save(req[t].id, req[t].row)
  PROVE  Identities' = Identities
<1>1. /\ req[t].id \in JobIds /\ jobs[req[t].id] # NoJob /\ req[t].row \in Row
      /\ IdentityOf(req[t].row) = IdentityOf(jobs[req[t].id])
  BY DEF IInv, RequestInv, Holding
<1>2. QED BY <1>1, SaveIsStutter

\* The insert of save_if_absent registers a job.
LEMMA InsertRegisters ==
  ASSUME IInv, NEW t \in Threads, SubmitInsert(t)
  PROVE  Registry!Next \/ Identities' = Identities
<1> DEFINE j == req[t].id  r == req[t].row
<1>1. req[t].pc = "insert"
  BY DEF SubmitInsert, AtPc
<1>2. j \in JobIds /\ r \in Row /\ jobs[j] = NoJob
  BY <1>1 DEF IInv, RequestInv, Holding
<1>3. CASE Bound(r.user, r.key)
  BY <1>3, TableKept, KeptIsStutter DEF SubmitInsert
<1>4. CASE ~Bound(r.user, r.key)
  <2>1. Save(j, r)
    BY <1>4 DEF SubmitInsert
  <2>2. r # NoJob
    BY <1>2, NoJobAssumption
  <2>3. jobs' = [jobs EXCEPT ![j] = r] /\ jobs \in [JobIds -> Row \cup {NoJob}]
    BY <2>1 DEF Save, IInv, TypeOK
  <2>4. Identities' = [Identities EXCEPT ![j] = IdentityOf(r)]
    BY <1>2, <2>2, <2>3 DEF Identities
  <2>5. IdentityOf(r) \in Registry!Identity
    BY <1>2 DEF IdentityOf, Row, Registry!Identity
  <2>6. Identities[j] = NoJob
    BY <1>2 DEF Identities
  <2>7. \A i \in Stored : ~(jobs[i].user = r.user /\ jobs[i].key = r.key)
    BY <1>4 DEF Bound
  <2>8. ASSUME NEW i \in JobIds, Identities[i] # NoJob
        PROVE  ~(Identities[i].user = IdentityOf(r).user /\ Identities[i].key = IdentityOf(r).key)
    <3>1. i \in Stored /\ Identities[i] = IdentityOf(jobs[i])
      BY <2>8 DEF Identities, Stored
    <3>2. QED BY <2>7, <3>1 DEF IdentityOf
  <2>9. QED
    <3>1. PICK i \in JobIds : i = j
      BY <1>2
    <3>2. PICK m \in Registry!Identity : m = IdentityOf(r)
      BY <2>5
    <3>3. Registry!Register(i, m)
      BY <2>4, <2>6, <2>8, <3>1, <3>2 DEF Registry!Register, Registry!Registered, Identities
    <3>4. QED BY <3>3 DEF Registry!Next
<1>5. QED BY <1>3, <1>4

\* Every step of the service registers one job or changes no identity.
LEMMA StepRegisters ==
  ASSUME IInv, [Next]_vars
  PROVE  Registry!Next \/ Identities' = Identities
<1>1. CASE jobs' = jobs
  BY <1>1, TableKept, KeptIsStutter
<1>2. ASSUME NEW t \in Threads, Continue(t), jobs' # jobs
      PROVE  Registry!Next \/ Identities' = Identities
  <2>1. CASE SubmitInsert(t) BY <2>1, InsertRegisters
  <2>2. CASE TransitionSave(t) \/ DispatchRefuse(t) \/ DispatchStart(t) \/ CallbackSave(t)
    BY <2>2, RequestSaveIsStutter
       DEF TransitionSave, DispatchRefuse, DispatchStart, CallbackSave, AtPc, Holding
  <2>3. CASE DispatchLoad(t) \/ DispatchLimit(t) \/ CallbackLoad(t)
             \/ \E event \in Events \ {"none"} : RunTask(t, event)
    BY <1>2, <2>3 DEF DispatchLoad, DispatchLimit, CallbackLoad, RunTask
  <2>4. QED BY <1>2, <2>1, <2>2, <2>3 DEF Continue
<1>3. ASSUME NEW j \in JobIds, RecoverSave(j)
      PROVE  Identities' = Identities
  <2>1. jobs[j] # NoJob /\ jobs[j] \in Row /\ RowCoherent(jobs[j])
    BY <1>3 DEF RecoverSave, IInv, ServerInv, TypeOK, RowsCoherent, Stored
  <2>2. /\ MarkFailed(jobs[j], "RUNTIME_RECOVERY") \in Row
        /\ IdentityOf(MarkFailed(jobs[j], "RUNTIME_RECOVERY")) = IdentityOf(jobs[j])
    BY <2>1, FailedRow DEF ErrorCodes
  <2>3. QED BY <1>3, <2>1, <2>2, SaveIsStutter DEF RecoverSave
<1>4. CASE Crash \/ RecoverList \/ Serve \/ UNCHANGED vars
  BY <1>1, <1>4 DEF Crash, RecoverList, Serve, vars
<1>5. ASSUME NEW t \in Threads, Accept(t) PROVE jobs' = jobs
  BY <1>5 DEF Accept, SubmitFind, TransitionLoad
<1>6. QED BY <1>1, <1>2, <1>3, <1>4, <1>5 DEF Next, Boot

\* Submission implements the write-once registry: for any number of users,
\* keys and threads a job keeps its owner, type and key for ever.
THEOREM RegistryRefinement == Spec => ImplementsRegistry
<1>1. Init => Registry!Init
  BY DEF Init, Registry!Init
<1>2. IInv /\ [Next]_vars => [Registry!Next]_Identities
  BY StepRegisters
<1>3. QED
  BY <1>1, <1>2, InductiveInvariant, PTL DEF Spec, ImplementsRegistry, Registry!Spec, Identities
-----------------------------------------------------------------------------
(* The schedules                                                           *)

\* Nobody is in the loop but, while the service is constructed, its thread.
Alone == \A t \in Threads : loop[t] = Schedules!Outside

\* Template n is registered if it comes before the position m, else not.
RegisteredUpTo(n, m) ==
  /\ n < m => Schedules!ActiveOnce(n)
  /\ n >= m => Schedules!FindSystemSchedule(Templates[n]) = {}

\* While the service is constructed, the templates before the loop's position
\* are registered and the others are not; once it serves, every lookup finds.
LoopInv ==
  /\ server = "down" => Schedules!Listed = {} /\ Alone /\ loop[Starting] = Schedules!Outside
  /\ server = "booting" =>
       /\ Alone
       /\ loop[Starting].at \in 1..Len(Templates) + 1
       /\ ~loop[Starting].found => loop[Starting].at <= Len(Templates)
       /\ \A n \in 1..Len(Templates) : RegisteredUpTo(n, loop[Starting].at)
  /\ server = "up" =>
       /\ loop[Starting] = Schedules!Outside
       /\ \A t \in Threads : loop[t].found
       /\ \A n \in 1..Len(Templates) : Schedules!ActiveOnce(n)

ScheduleInv == Schedules!TypeOK /\ LoopInv

\* The system schedules of a timing when the list does not change.
LEMMA SameList ==
  ASSUME schedules' = schedules
  PROVE  /\ Schedules!Listed' = Schedules!Listed
         /\ Schedules!OwnedBy(System)' = Schedules!OwnedBy(System)
         /\ \A n \in 1..Len(Templates) :
              /\ Schedules!FindSystemSchedule(Templates[n])' = Schedules!FindSystemSchedule(Templates[n])
              /\ Schedules!ActiveOnce(n)' = Schedules!ActiveOnce(n)
BY DEF Schedules!Listed, Schedules!OwnedBy, Schedules!FindSystemSchedule, Schedules!ActiveOnce

\* Appending a schedule of a user, or stopping one, changes no system schedule.
LEMMA UserScheduleStep ==
  ASSUME ScheduleInv, NEW s \in ScheduleIds, NEW r \in Schedules!Schedule, r.owner # System,
         s \in Schedules!Listed => schedules[s].owner # System,
         schedules' = [schedules EXCEPT ![s] = r]
  PROVE  \A n \in 1..Len(Templates) : Schedules!ActiveOnce(n) => Schedules!ActiveOnce(n)'
<1> USE SchedulesAssumption DEF Schedules!Parameters
<1>1. /\ schedules'[s] = r
      /\ \A i \in ScheduleIds : i # s => schedules'[i] = schedules[i]
  BY DEF ScheduleInv, Schedules!TypeOK
<1>2. Schedules!OwnedBy(System)' = Schedules!OwnedBy(System)
  BY <1>1 DEF Schedules!OwnedBy, Schedules!Listed
<1>3. \A i \in Schedules!OwnedBy(System) : schedules'[i] = schedules[i]
  BY <1>1 DEF Schedules!OwnedBy, Schedules!Listed
<1>4. ASSUME NEW n \in 1..Len(Templates)
      PROVE  Schedules!FindSystemSchedule(Templates[n])' = Schedules!FindSystemSchedule(Templates[n])
  BY <1>2, <1>3 DEF Schedules!FindSystemSchedule
<1>5. QED BY <1>2, <1>3, <1>4 DEF Schedules!ActiveOnce

\* Registering the next template, which no system schedule has yet.
LEMMA TemplateStep ==
  ASSUME ScheduleInv, NEW m \in 1..Len(Templates), Schedules!FindSystemSchedule(Templates[m]) = {},
         Schedules!Register(System, Templates[m])
  PROVE  /\ schedules' \in [ScheduleIds -> Schedules!Schedule \cup {NoSchedule}]
         /\ Schedules!ActiveOnce(m)'
         /\ \A n \in 1..Len(Templates) : n # m =>
              /\ Schedules!FindSystemSchedule(Templates[n])' = Schedules!FindSystemSchedule(Templates[n])
              /\ Schedules!ActiveOnce(n) => Schedules!ActiveOnce(n)'
<1> USE SchedulesAssumption DEF Schedules!Parameters
<1> DEFINE r == [owner |-> System, timing |-> Templates[m], status |-> "active"]
<1>1. PICK s \in ScheduleIds \ Schedules!Listed : schedules' = [schedules EXCEPT ![s] = r]
  BY DEF Schedules!Register
<1>2. r \in Schedules!Schedule /\ r # NoSchedule
  BY DEF Schedules!Schedule
<1>3. /\ schedules'[s] = r
      /\ \A i \in ScheduleIds : i # s => schedules'[i] = schedules[i]
      /\ schedules' \in [ScheduleIds -> Schedules!Schedule \cup {NoSchedule}]
  BY <1>1, <1>2 DEF ScheduleInv, Schedules!TypeOK
<1>4. Schedules!Listed' = Schedules!Listed \cup {s}
  BY <1>2, <1>3 DEF Schedules!Listed
<1>5. Schedules!OwnedBy(System)' = Schedules!OwnedBy(System) \cup {s} /\ s \notin Schedules!OwnedBy(System)
  BY <1>1, <1>3, <1>4 DEF Schedules!OwnedBy, Schedules!Listed
<1>6. \A i \in Schedules!OwnedBy(System) : schedules'[i] = schedules[i]
  BY <1>3, <1>5 DEF Schedules!OwnedBy, Schedules!Listed
<1>7. Schedules!FindSystemSchedule(Templates[m])' = {s}
  BY <1>3, <1>5, <1>6 DEF Schedules!FindSystemSchedule
<1>8. ASSUME NEW n \in 1..Len(Templates), n # m
      PROVE  Schedules!FindSystemSchedule(Templates[n])' = Schedules!FindSystemSchedule(Templates[n])
  <2>1. Templates[n] # Templates[m]
    BY <1>8
  <2>2. QED BY <1>3, <1>5, <1>6, <2>1 DEF Schedules!FindSystemSchedule
<1>9. QED BY <1>3, <1>5, <1>6, <1>7, <1>8 DEF Schedules!ActiveOnce

LEMMA SchedulesInit ==
  ASSUME Schedules!Init
  PROVE  ScheduleInv
<1> USE SchedulesAssumption DEF Schedules!Parameters
<1>1. Schedules!Listed = {} BY DEF Schedules!Init, Schedules!Listed
<1>2. Schedules!TypeOK
  BY DEF Schedules!Init, Schedules!TypeOK, Schedules!Outside
<1>3. LoopInv
  BY <1>1 DEF Schedules!Init, LoopInv, Alone
<1>4. QED BY <1>2, <1>3 DEF ScheduleInv

LEMMA TemplateLookupStep ==
  ASSUME ScheduleInv, NEW t \in Threads \cup {Starting}, Schedules!TemplateLookup(t)
  PROVE  ScheduleInv'
<1> USE SchedulesAssumption DEF Schedules!Parameters
<1>0. PICK n \in 1..Len(Templates) : n = loop[t].at
  BY DEF Schedules!TemplateLookup, Schedules!InLoop
<1>1. /\ loop[t].found
      /\ schedules' = schedules /\ server' = server /\ crashes' = crashes
      /\ loop' = [loop EXCEPT ![t] = IF Schedules!FindSystemSchedule(Templates[n]) # {} THEN Schedules!Looking(n + 1)
                                     ELSE [loop[t] EXCEPT !.found = FALSE]]
  BY <1>0 DEF Schedules!TemplateLookup
<1>2. Len(Templates) \in Nat
  OBVIOUS
<1>3. loop \in [Threads \cup {Starting} -> [at: 0..Len(Templates) + 1, found: BOOLEAN]]
  BY DEF ScheduleInv, Schedules!TypeOK
<1>4. loop' \in [Threads \cup {Starting} -> [at: 0..Len(Templates) + 1, found: BOOLEAN]]
  <2>1. Schedules!Looking(n + 1) \in [at: 0..Len(Templates) + 1, found: BOOLEAN]
    BY <1>2 DEF Schedules!Looking
  <2>2. [loop[t] EXCEPT !.found = FALSE] \in [at: 0..Len(Templates) + 1, found: BOOLEAN]
    BY <1>3
  <2>3. QED BY <1>1, <1>3, <2>1, <2>2
<1>5. Schedules!TypeOK'
  BY <1>1, <1>4 DEF ScheduleInv, Schedules!TypeOK
<1>6. server # "down"
  BY <1>0, <1>2 DEF ScheduleInv, LoopInv, Alone, Schedules!Outside
<1>7. CASE server = "booting"
  <2>1. t = Starting
    BY <1>0, <1>7 DEF ScheduleInv, LoopInv, Alone, Schedules!Outside
  <2>2. Alone'
    BY <1>1, <1>3, <1>7, <2>1 DEF ScheduleInv, LoopInv, Alone
  <2>3. Schedules!FindSystemSchedule(Templates[n]) = {}
    <3>1. RegisteredUpTo(n, n)
      BY <1>0, <1>7, <2>1 DEF ScheduleInv, LoopInv
    <3>2. QED BY <1>2, <3>1 DEF RegisteredUpTo
  <2>4. loop'[Starting].at = n /\ ~loop'[Starting].found
    BY <1>0, <1>1, <1>3, <2>1, <2>3
  <2>5. ASSUME NEW i \in 1..Len(Templates)
        PROVE  RegisteredUpTo(i, loop[Starting].at)'
    <3>1. RegisteredUpTo(i, n)
      BY <1>0, <1>7, <2>1 DEF ScheduleInv, LoopInv
    <3>2. Schedules!ActiveOnce(i)' = Schedules!ActiveOnce(i)
          /\ Schedules!FindSystemSchedule(Templates[i])' = Schedules!FindSystemSchedule(Templates[i])
      BY <1>1, SameList
    <3>3. QED BY <2>4, <3>1, <3>2 DEF RegisteredUpTo
  <2>6. LoopInv'
    BY <1>1, <1>2, <1>7, <2>2, <2>4, <2>5 DEF LoopInv
  <2>7. QED BY <1>5, <2>6 DEF ScheduleInv
<1>8. CASE server = "up"
  <2>1. t # Starting
    BY <1>0, <1>8 DEF ScheduleInv, LoopInv, Schedules!Outside
  <2>2. Schedules!FindSystemSchedule(Templates[n]) # {}
    BY <1>1, <1>8 DEF ScheduleInv, LoopInv, Schedules!ActiveOnce
  <2>3. loop'[t].found /\ \A u \in Threads \cup {Starting} : u # t => loop'[u] = loop[u]
    BY <1>1, <1>3, <2>2 DEF Schedules!Looking
  <2>4. QED BY <1>1, <1>5, <1>8, <2>1, <2>3, SameList DEF ScheduleInv, LoopInv
<1>9. QED BY <1>6, <1>7, <1>8 DEF ScheduleInv, Schedules!TypeOK

LEMMA TemplateRegisterStep ==
  ASSUME ScheduleInv, NEW t \in Threads \cup {Starting}, Schedules!TemplateRegister(t)
  PROVE  ScheduleInv'
<1> USE SchedulesAssumption DEF Schedules!Parameters
<1>0. PICK n \in 1..Len(Templates) : n = loop[t].at
  BY DEF Schedules!TemplateRegister, Schedules!InLoop
<1>1. /\ ~loop[t].found /\ Schedules!Register(System, Templates[n])
      /\ server' = server /\ crashes' = crashes
      /\ loop' = [loop EXCEPT ![t] = Schedules!Looking(n + 1)]
  BY <1>0 DEF Schedules!TemplateRegister
<1>2. Len(Templates) \in Nat
  OBVIOUS
<1>3. loop \in [Threads \cup {Starting} -> [at: 0..Len(Templates) + 1, found: BOOLEAN]]
  BY DEF ScheduleInv, Schedules!TypeOK
<1>4. server = "booting" /\ t = Starting
  BY <1>1 DEF ScheduleInv, Schedules!TypeOK, LoopInv, Alone, Schedules!Outside
<1>5. Schedules!FindSystemSchedule(Templates[n]) = {}
  <2>1. RegisteredUpTo(n, n)
    BY <1>0, <1>4 DEF ScheduleInv, LoopInv
  <2>2. QED BY <1>2, <2>1 DEF RegisteredUpTo
<1>6. /\ schedules' \in [ScheduleIds -> Schedules!Schedule \cup {NoSchedule}]
      /\ Schedules!ActiveOnce(n)'
      /\ \A i \in 1..Len(Templates) : i # n =>
           /\ Schedules!FindSystemSchedule(Templates[i])' = Schedules!FindSystemSchedule(Templates[i])
           /\ Schedules!ActiveOnce(i) => Schedules!ActiveOnce(i)'
  BY <1>1, <1>5, TemplateStep
<1>7. loop' \in [Threads \cup {Starting} -> [at: 0..Len(Templates) + 1, found: BOOLEAN]]
  BY <1>1, <1>2, <1>3 DEF Schedules!Looking
<1>8. loop'[Starting].at = n + 1 /\ loop'[Starting].found
  BY <1>1, <1>3, <1>4 DEF Schedules!Looking
<1>9. Alone'
  BY <1>1, <1>3, <1>4 DEF ScheduleInv, LoopInv, Alone
<1>10. Schedules!TypeOK'
  BY <1>1, <1>6, <1>7 DEF ScheduleInv, Schedules!TypeOK
<1>11. ASSUME NEW i \in 1..Len(Templates)
       PROVE  RegisteredUpTo(i, loop[Starting].at)'
  <2>1. RegisteredUpTo(i, n)
    BY <1>0, <1>4 DEF ScheduleInv, LoopInv
  <2>2. CASE i = n
    BY <1>2, <1>6, <1>8, <2>2 DEF RegisteredUpTo
  <2>3. CASE i < n
    BY <1>2, <1>6, <1>8, <2>1, <2>3 DEF RegisteredUpTo
  <2>4. CASE i > n
    BY <1>2, <1>6, <1>8, <2>1, <2>4 DEF RegisteredUpTo
  <2>5. QED BY <1>2, <2>2, <2>3, <2>4
<1>12. LoopInv'
  BY <1>1, <1>2, <1>4, <1>8, <1>9, <1>11 DEF LoopInv
<1>13. QED BY <1>10, <1>12 DEF ScheduleInv

LEMMA LoopEndStep ==
  ASSUME ScheduleInv, NEW t \in Threads \cup {Starting}, Schedules!LoopEnd(t)
  PROVE  ScheduleInv'
<1> USE SchedulesAssumption DEF Schedules!Parameters
<1>1. /\ loop[t].at > Len(Templates) /\ schedules' = schedules /\ crashes' = crashes
      /\ loop' = [loop EXCEPT ![t] = Schedules!Outside]
      /\ server' = IF t = Starting THEN "up" ELSE server
  BY DEF Schedules!LoopEnd
<1>2. Len(Templates) \in Nat
  OBVIOUS
<1>3. loop \in [Threads \cup {Starting} -> [at: 0..Len(Templates) + 1, found: BOOLEAN]]
  BY DEF ScheduleInv, Schedules!TypeOK
<1>4. /\ loop' \in [Threads \cup {Starting} -> [at: 0..Len(Templates) + 1, found: BOOLEAN]]
      /\ loop'[t] = Schedules!Outside
      /\ \A u \in Threads \cup {Starting} : u # t => loop'[u] = loop[u]
  BY <1>1, <1>2, <1>3 DEF Schedules!Outside
<1>5. Schedules!TypeOK'
  BY <1>1, <1>4 DEF ScheduleInv, Schedules!TypeOK
<1>6. server # "down"
  BY <1>1, <1>2 DEF ScheduleInv, LoopInv, Alone, Schedules!Outside
<1>7. CASE server = "booting"
  <2>1. t = Starting
    BY <1>1, <1>2, <1>7 DEF ScheduleInv, LoopInv, Alone, Schedules!Outside
  <2>2. \A n \in 1..Len(Templates) : Schedules!ActiveOnce(n)
    BY <1>1, <1>2, <1>3, <1>7, <2>1 DEF ScheduleInv, LoopInv, RegisteredUpTo
  <2>3. \A u \in Threads : loop'[u].found
    BY <1>4, <1>7, <2>1 DEF ScheduleInv, LoopInv, Alone, Schedules!Outside
  <2>4. QED BY <1>1, <1>4, <1>5, <2>1, <2>2, <2>3, SameList DEF ScheduleInv, LoopInv
<1>8. CASE server = "up"
  BY <1>1, <1>4, <1>5, <1>8, SameList DEF ScheduleInv, LoopInv, Schedules!Outside
<1>9. QED BY <1>6, <1>7, <1>8 DEF ScheduleInv, Schedules!TypeOK

LEMMA SchedulesProcess ==
  ASSUME ScheduleInv, Schedules!BootStart \/ Schedules!Crash \/ \E t \in Threads : Schedules!RecoverTemplates(t)
  PROVE  ScheduleInv'
<1> USE SchedulesAssumption DEF Schedules!Parameters
<1>1. Len(Templates) \in Nat
  OBVIOUS
<1>2. CASE Schedules!BootStart
  <2>1. Schedules!Listed' = {} /\ \A n \in 1..Len(Templates) : Schedules!FindSystemSchedule(Templates[n])' = {}
    BY <1>2, SameList DEF Schedules!BootStart, ScheduleInv, LoopInv, Schedules!FindSystemSchedule, Schedules!OwnedBy
  <2>2. loop'[Starting] = Schedules!Looking(1) /\ Alone'
    BY <1>2 DEF Schedules!BootStart, ScheduleInv, LoopInv, Schedules!TypeOK, Alone
  <2>3. Schedules!TypeOK'
    BY <1>1, <1>2 DEF Schedules!BootStart, ScheduleInv, Schedules!TypeOK, Schedules!Looking
  <2>4. server' = "booting" /\ loop'[Starting].at = 1 /\ loop'[Starting].found
    BY <1>2, <2>2 DEF Schedules!BootStart, Schedules!Looking
  <2>5. ASSUME NEW n \in 1..Len(Templates)
        PROVE  RegisteredUpTo(n, loop[Starting].at)'
    <3>1. Schedules!FindSystemSchedule(Templates[n])' = {} /\ ~(n < 1)
      BY <2>1
    <3>2. QED BY <2>4, <3>1 DEF RegisteredUpTo
  <2>6. QED BY <1>1, <2>2, <2>3, <2>4, <2>5 DEF ScheduleInv, LoopInv
<1>3. CASE Schedules!Crash
  <2>1. Schedules!TypeOK'
    BY <1>1, <1>3 DEF Schedules!Crash, ScheduleInv, Schedules!TypeOK, Schedules!Outside
  <2>2. Schedules!Listed' = {} /\ Alone' /\ loop'[Starting] = Schedules!Outside /\ server' = "down"
    BY <1>3 DEF Schedules!Crash, Schedules!Listed, Alone
  <2>3. QED BY <2>1, <2>2 DEF ScheduleInv, LoopInv
<1>4. ASSUME NEW t \in Threads, Schedules!RecoverTemplates(t)
      PROVE  ScheduleInv'
  <2>1. Schedules!TypeOK'
    BY <1>1, <1>4 DEF Schedules!RecoverTemplates, ScheduleInv, Schedules!TypeOK, Schedules!Looking
  <2>2. loop'[Starting] = loop[Starting] /\ \A u \in Threads : loop'[u].found
    BY <1>4 DEF Schedules!RecoverTemplates, ScheduleInv, LoopInv, Schedules!TypeOK, Schedules!Looking
  <2>3. QED BY <1>4, <2>1, <2>2, SameList DEF Schedules!RecoverTemplates, ScheduleInv, LoopInv
<1>5. QED BY <1>2, <1>3, <1>4

LEMMA UserRequestStep ==
  ASSUME ScheduleInv, NEW u \in Planners,
         \/ \E timing \in Timings : Schedules!ScheduleTask(u, timing)
         \/ \E s \in ScheduleIds : Schedules!StopSchedule(u, s)
  PROVE  ScheduleInv'
<1> USE SchedulesAssumption DEF Schedules!Parameters
<1>1. PICK s \in ScheduleIds, r \in Schedules!Schedule :
        /\ r.owner # System /\ (s \in Schedules!Listed => schedules[s].owner # System)
        /\ schedules' = [schedules EXCEPT ![s] = r]
  <2>1. ASSUME NEW timing \in Timings, Schedules!ScheduleTask(u, timing)
        PROVE  \E s \in ScheduleIds, r \in Schedules!Schedule :
                 /\ r.owner # System /\ (s \in Schedules!Listed => schedules[s].owner # System)
                 /\ schedules' = [schedules EXCEPT ![s] = r]
    <3> DEFINE r == [owner |-> u, timing |-> timing, status |-> "active"]
    <3>1. r \in Schedules!Schedule /\ r.owner # System
      BY DEF Schedules!Schedule
    <3>2. QED BY <2>1, <3>1 DEF Schedules!ScheduleTask, Schedules!Register
  <2>2. ASSUME NEW s \in ScheduleIds, Schedules!StopSchedule(u, s)
        PROVE  \E r \in Schedules!Schedule :
                 /\ r.owner # System /\ schedules[s].owner # System
                 /\ schedules' = [schedules EXCEPT ![s] = r]
    <3> DEFINE r == [schedules[s] EXCEPT !.status = "stopped"]
    <3>1. schedules[s] \in Schedules!Schedule /\ schedules[s].owner = u
      BY <2>2 DEF Schedules!StopSchedule, Schedules!OwnedBy, Schedules!Listed, ScheduleInv, Schedules!TypeOK
    <3>2. r \in Schedules!Schedule /\ r.owner # System /\ schedules[s].owner # System
      BY <3>1 DEF Schedules!Schedule
    <3>3. schedules' = [schedules EXCEPT ![s] = r]
      BY <2>2 DEF Schedules!StopSchedule
    <3>4. QED BY <3>2, <3>3
  <2>3. QED BY <2>1, <2>2
<1>2. server = "up" /\ UNCHANGED <<server, loop, crashes>>
  BY DEF Schedules!ScheduleTask, Schedules!StopSchedule
<1>3. \A n \in 1..Len(Templates) : Schedules!ActiveOnce(n) => Schedules!ActiveOnce(n)'
  BY <1>1, UserScheduleStep
<1>4. Schedules!TypeOK'
  BY <1>1, <1>2 DEF ScheduleInv, Schedules!TypeOK
<1>5. LoopInv'
  BY <1>2, <1>3 DEF ScheduleInv, LoopInv
<1>6. QED BY <1>4, <1>5 DEF ScheduleInv

\* A stuttering step.
LEMMA SchedulesStutter ==
  ASSUME ScheduleInv, UNCHANGED Schedules!vars
  PROVE  ScheduleInv'
BY SameList DEF Schedules!vars, ScheduleInv, Schedules!TypeOK, LoopInv, Alone, RegisteredUpTo


LEMMA SchedulesStep ==
  ASSUME ScheduleInv, [Schedules!Next]_(Schedules!vars)
  PROVE  ScheduleInv'
BY TemplateLookupStep, TemplateRegisterStep, LoopEndStep, SchedulesProcess, UserRequestStep, SchedulesStutter
   DEF Schedules!Next
-----------------------------------------------------------------------------
(* Requests that do not overlap                                            *)

\* One request at a time, of a finite table.
OneRequest == \A s, t \in Threads : s # t => req[s] = Idle \/ req[t] = Idle

\* What the request found when it loaded its row still holds.
Current(t) ==
  LET q == req[t] IN
  /\ q.pc \in {"apply", "settle"} => q.row.status \in AllowedTransitions[jobs[q.id].status]
  /\ q.pc \in {"limit", "refuse", "start"} => jobs[q.id].status = "queued"
  /\ q.pc = "start" => Cardinality(Running(q.row.user, q.row.type)) < Limit[q.row.type]

Serial == OneRequest /\ \A t \in Threads : Current(t)

\* The one request goes on: what has to be shown of its step.
LEMMA SerialMove ==
  ASSUME IInv, Serial, NEW t \in Threads, NEW q, Goto(t, q),
         req[t].pc # "idle" \/ \A s \in Threads : req[s] = Idle,
         req'[t] = q => Current(t)',
         Follows,
         req[t].pc = "start" /\ q.pc = "run" =>
           Cardinality(Running(req[t].row.user, req[t].row.type)') <= Limit[req[t].row.type]
  PROVE  Serial' /\ Follows /\ WithinLimit
<1>1. Idle.pc = "idle"
  BY DEF Idle
<1>2. req'[t] = q /\ \A s \in Threads : s # t => req'[s] = req[s] /\ req[s] = Idle
  BY <1>1 DEF Goto, IInv, TypeOK, Serial, OneRequest
<1>3. OneRequest'
  BY <1>2 DEF OneRequest
<1>4. \A s \in Threads : Current(s)'
  BY <1>1, <1>2 DEF Current
<1>5. WithinLimit
  BY <1>1, <1>2 DEF WithinLimit
<1>6. QED BY <1>3, <1>4, <1>5 DEF Serial

\* Nothing is stored.
LEMMA SerialQuiet ==
  ASSUME IInv, Serial, NEW t \in Threads, NEW q, Goto(t, q), UNCHANGED jobs,
         req[t].pc # "idle" \/ \A s \in Threads : req[s] = Idle,
         req'[t] = q => Current(t)', req[t].pc # "start"
  PROVE  Serial' /\ Follows /\ WithinLimit
<1>1. Follows
  BY DEF Follows
<1>2. QED BY <1>1, SerialMove

\* The row the request holds is stored.
LEMMA SerialSave ==
  ASSUME IInv, Serial, NEW t \in Threads, NEW q, Goto(t, q), Save(req[t].id, req[t].row),
         req[t].pc # "idle", q.pc \in {"idle", "load", "run"},
         req[t].id \in Stored =>
           req[t].row.status \in {jobs[req[t].id].status} \cup AllowedTransitions[jobs[req[t].id].status],
         req[t].pc = "start" /\ q.pc = "run" =>
           Cardinality(Running(req[t].row.user, req[t].row.type)') <= Limit[req[t].row.type]
  PROVE  Serial' /\ Follows /\ WithinLimit
<1>1. Follows
  BY DEF Follows, Save, Stored, IInv, TypeOK
<1>2. req'[t] = q => Current(t)'
  BY DEF Current
<1>3. QED BY <1>1, <1>2, SerialMove

LEMMA StoredFinite ==
  ASSUME IInv, IsFiniteSet(Stored),
         \/ jobs' = jobs
         \/ \E j \in JobIds, r \in Row : Save(j, r)
  PROVE  IsFiniteSet(Stored')
<1>1. CASE jobs' = jobs
  BY <1>1 DEF Stored
<1>2. ASSUME NEW j \in JobIds, NEW r \in Row, Save(j, r)
      PROVE  IsFiniteSet(Stored')
  <2>1. Stored' \in SUBSET (Stored \cup {j})
    BY <1>2 DEF Save, Stored, IInv, TypeOK
  <2>2. IsFiniteSet(Stored \cup {j})
    BY FS_AddElement
  <2>3. QED BY <2>1, <2>2, FS_Subset
<1>3. QED BY <1>1, <1>2

\* The start of a job that was let through when fewer than the limit ran.
LEMMA SerialStart ==
  ASSUME IInv, Serial, IsFiniteSet(Stored), NEW t \in Threads, DispatchStart(t)
  PROVE  Serial' /\ Follows /\ WithinLimit
<1> DEFINE r == req[t].row
           j == req[t].id
           q == [req[t] EXCEPT !.pc = "run"]
<1>1. /\ req[t].pc = "start" /\ Save(j, r) /\ Goto(t, q)
  BY DEF DispatchStart, AtPc
<1>2. RequestInv(t) /\ req[t] \in Request /\ Current(t)
  BY DEF IInv, TypeOK, Serial
<1>3. q.pc = "run" /\ r' = r
  BY <1>1, <1>2 DEF Request, Goto, IInv, TypeOK
<1>4. /\ j \in JobIds /\ r \in Row /\ r.status = "running" /\ jobs[j].status = "queued"
      /\ Cardinality(Running(r.user, r.type)) < Limit[r.type] /\ r.type \in TaskTypes
  BY <1>1, <1>2 DEF RequestInv, Current, Holding, Row
<1> HIDE DEF q
<1>5. Running(r.user, r.type)' \in SUBSET (Running(r.user, r.type) \cup {j})
  <2> DEFINE u == r.user
             ty == r.type
  <2>1. u' = u /\ ty' = ty
    BY <1>3
  <2> HIDE DEF u, ty, j, r
  <2>2. \A k \in JobIds \ {j} : jobs'[k] = jobs[k]
    BY <1>1 DEF Save, IInv, TypeOK
  <2>3. Running(u, ty)' \in SUBSET (Running(u, ty) \cup {j})
    BY <2>1, <2>2 DEF Running, Stored
  <2>4. QED BY <2>3 DEF u, ty
<1>6. IsFiniteSet(Running(r.user, r.type)) /\ Cardinality(Running(r.user, r.type)) \in Nat
  <2>1. Running(r.user, r.type) \in SUBSET Stored
    BY DEF Running
  <2>2. QED BY <2>1, FS_Subset, FS_CardinalityType
<1>7. IsFiniteSet(Running(r.user, r.type) \cup {j})
      /\ Cardinality(Running(r.user, r.type) \cup {j}) <= Cardinality(Running(r.user, r.type)) + 1
      /\ Cardinality(Running(r.user, r.type) \cup {j}) \in Nat
  <2> DEFINE R == Running(r.user, r.type)
  <2>1. IsFiniteSet(R) /\ Cardinality(R) \in Nat
    BY <1>6
  <2> HIDE DEF R
  <2>2. /\ IsFiniteSet(R \cup {j})
        /\ Cardinality(R \cup {j}) <= Cardinality(R) + 1
        /\ Cardinality(R \cup {j}) \in Nat
    <3> HIDE DEF j
    <3>1. /\ IsFiniteSet(R \cup {j})
          /\ Cardinality(R \cup {j}) = IF j \in R THEN Cardinality(R) ELSE Cardinality(R) + 1
      BY <2>1, FS_AddElement
    <3>2. QED BY <2>1, <3>1
  <2>3. QED BY <2>2 DEF R
<1>8. Cardinality(Running(r.user, r.type)') <= Cardinality(Running(r.user, r.type) \cup {j})
      /\ Cardinality(Running(r.user, r.type)') \in Nat
  BY <1>5, <1>7, FS_Subset, FS_CardinalityType
<1>9. Limit[r.type] \in Nat
  BY <1>4, LimitAssumption
<1>10. Cardinality(Running(r.user, r.type)') <= Limit[r.type]
  BY <1>4, <1>6, <1>7, <1>8, <1>9
<1>11. "running" \in AllowedTransitions["queued"]
  BY DEF AllowedTransitions, Statuses
<1>12. QED BY <1>1, <1>3, <1>4, <1>10, <1>11, SerialSave

LEMMA SerialLimit ==
  ASSUME IInv, Serial, IsFiniteSet(Stored), NEW t \in Threads, DispatchLimit(t)
  PROVE  Serial' /\ Follows /\ WithinLimit
<1> DEFINE r == req[t].row
           e == [r EXCEPT !.error = "CONCURRENCY_LIMIT_EXCEEDED"]
           n == StartExecution([r EXCEPT !.error = "none"], dispatched + 1)
           qe == [req[t] EXCEPT !.pc = "refuse", !.row = e]
           qn == [req[t] EXCEPT !.pc = "start", !.did = dispatched + 1, !.row = n]
<1>1. /\ req[t].pc = "limit" /\ jobs' = jobs
      /\ \/ Goto(t, qe)
         \/ Goto(t, qn) /\ ~Full(r)
  BY DEF DispatchLimit, AtPc
<1>2. RequestInv(t) /\ req[t] \in Request /\ Current(t) /\ dispatched + 1 \in Nat
  BY DEF IInv, TypeOK, Serial
<1>3. r \in Row /\ RowCoherent(r) /\ r.status = "queued" /\ jobs[req[t].id].status = "queued"
  BY <1>1, <1>2 DEF RequestInv, Holding, Current
<1>4. IdentityOf(n) = IdentityOf(r)
  <2>1. "none" \in ErrorCodes
    BY DEF ErrorCodes
  <2> HIDE DEF r
  <2>2. QED BY <1>2, <1>3, <2>1, StartRow
<1>5. n.user = r.user /\ n.type = r.type
  BY <1>4 DEF IdentityOf
<1> HIDE DEF e, n
<1>6. CASE Goto(t, qe)
  <2>1. qe.pc = "refuse" /\ qe.id = req[t].id
    BY <1>2 DEF Request
  <2> HIDE DEF qe
  <2>2. req'[t] = qe => Current(t)'
    BY <1>1, <1>3, <2>1 DEF Current
  <2>3. QED BY <1>1, <1>6, <2>2, SerialQuiet
<1>7. CASE Goto(t, qn) /\ ~Full(r)
  <2>1. qn.pc = "start" /\ qn.id = req[t].id /\ qn.row = n
    BY <1>2 DEF Request
  <2> HIDE DEF qn
  <2>2. Cardinality(Running(r.user, r.type)) < Limit[r.type]
    <3>1. Running(r.user, r.type) \in SUBSET Stored
      BY DEF Running
    <3>2. Cardinality(Running(r.user, r.type)) \in Nat /\ Limit[r.type] \in Nat
      BY <1>3, <3>1, FS_Subset, FS_CardinalityType, LimitAssumption DEF Row
    <3>3. QED BY <1>7, <3>2 DEF Full
  <2>3. req'[t] = qn => Current(t)'
    BY <1>1, <1>3, <1>5, <2>1, <2>2 DEF Current, Running, Stored
  <2>4. QED BY <1>1, <1>7, <2>3, SerialQuiet
<1>8. QED BY <1>1, <1>6, <1>7

\* A callback saves what it may.
LEMMA MarkedStatus ==
  ASSUME NEW r \in Row, RowCoherent(r), NEW event \in Events \ {"none"}, NEW d \in Nat
  PROVE  Marked(r, event, d).status = IF event = "succeeded" THEN "succeeded" ELSE "failed"
<1>1. /\ TransitionTo(r, "succeeded") \in Row /\ TransitionTo(r, "succeeded").status = "succeeded"
      /\ \A c \in ErrorCodes : MarkFailed(r, c) \in Row /\ MarkFailed(r, c).status = "failed"
  BY TransitionRow, FailedRow DEF Statuses
<1>2. CASE event = "succeeded"
  BY <1>1, <1>2 DEF Marked, Row
<1>3. CASE event = "failed"
  BY <1>1, <1>3 DEF Marked, Row, ErrorCodes
<1>4. CASE event = "error"
  BY <1>1, <1>4 DEF Marked, Row, ErrorCodes
<1>5. QED BY <1>2, <1>3, <1>4 DEF Events

LEMMA SerialCallback ==
  ASSUME IInv, Serial, NEW t \in Threads, CallbackLoad(t)
  PROVE  Serial' /\ Follows /\ WithinLimit
<1> DEFINE r == jobs[req[t].id]
           to == IF req[t].event = "succeeded" THEN "succeeded" ELSE "failed"
           m == Marked(r, req[t].event, req[t].did)
           qm == [req[t] EXCEPT !.pc = "settle", !.row = m]
           qe == [req[t] EXCEPT !.event = "error", !.again = FALSE]
<1>1. /\ req[t].pc = "callback" /\ jobs' = jobs
      /\ (Goto(t, qm) /\ CanTransition(r, to)) \/ Goto(t, qe) \/ Goto(t, Idle)
  BY DEF CallbackLoad, AtPc
<1>2. RequestInv(t) /\ req[t] \in Request
  BY DEF IInv, TypeOK
<1>3. r \in Row /\ RowCoherent(r) /\ req[t].event \in Events \ {"none"} /\ req[t].did \in Nat
  BY <1>1, <1>2 DEF IInv, TypeOK, RowsCoherent, Stored, RequestInv, Request
<1>4. CASE Goto(t, qm) /\ CanTransition(r, to)
  <2>1. m.status = to
    <3> HIDE DEF r
    <3>1. QED BY <1>3, MarkedStatus
  <2>2. qm.pc = "settle" /\ qm.row = m /\ qm.id = req[t].id
    BY <1>2 DEF Request
  <2> HIDE DEF m, qm, to
  <2>3. req'[t] = qm => Current(t)'
    BY <1>1, <1>4, <2>1, <2>2 DEF Current, CanTransition
  <2>4. QED BY <1>1, <1>4, <2>3, SerialQuiet
<1>5. CASE Goto(t, qe)
  <2>1. qe.pc = "callback"
    BY <1>1, <1>2 DEF Request
  <2>2. req'[t] = qe => Current(t)'
    BY <2>1 DEF Current
  <2> HIDE DEF qe
  <2>3. QED BY <1>1, <1>5, <2>2, SerialQuiet
<1>6. CASE Goto(t, Idle)
  <2>1. req'[t] = Idle => Current(t)'
    BY DEF Current, Idle
  <2>2. QED BY <1>1, <1>6, <2>1, SerialQuiet
<1>7. QED BY <1>1, <1>4, <1>5, <1>6

\* The steps of a request that was accepted.
LEMMA SerialContinue ==
  ASSUME IInv, Serial, IsFiniteSet(Stored), NEW t \in Threads, Continue(t)
  PROVE  Serial' /\ Follows /\ WithinLimit
<1>1. RequestInv(t) /\ req[t] \in Request /\ Current(t)
  BY DEF IInv, TypeOK, Serial
<1>2. Idle.pc = "idle" /\ [req[t] EXCEPT !.pc = "load"].pc = "load"
  BY <1>1 DEF Idle, Request
<1>3. CASE SubmitInsert(t)
  <2>1. req[t].pc = "insert" /\ req[t].id \notin Stored
    BY <1>1, <1>3 DEF SubmitInsert, AtPc, RequestInv, Stored
  <2>2. CASE jobs' = jobs /\ Goto(t, Idle)
    BY <1>2, <2>1, <2>2, SerialQuiet DEF Current
  <2>3. CASE Save(req[t].id, req[t].row) /\ (Goto(t, [req[t] EXCEPT !.pc = "load"]) \/ Goto(t, Idle))
    BY <1>2, <2>1, <2>3, SerialSave
  <2>4. QED BY <1>3, <2>2, <2>3 DEF SubmitInsert
<1>4. CASE TransitionSave(t)
  <2>1. /\ req[t].pc = "apply" /\ Save(req[t].id, req[t].row)
        /\ Goto(t, [req[t] EXCEPT !.pc = "load"]) \/ Goto(t, Idle)
    BY <1>4 DEF TransitionSave, AtPc
  <2>2. req[t].row.status \in AllowedTransitions[jobs[req[t].id].status]
    BY <1>1, <2>1 DEF Current
  <2>3. QED BY <1>2, <2>1, <2>2, SerialSave
<1>5. CASE DispatchLoad(t)
  <2> DEFINE q == [req[t] EXCEPT !.pc = "limit", !.row = jobs[req[t].id]]
  <2>1. /\ req[t].pc = "load" /\ jobs' = jobs
        /\ (Goto(t, q) /\ jobs[req[t].id].status = "queued") \/ Goto(t, Idle)
    BY <1>5 DEF DispatchLoad, AtPc
  <2>2. q.pc = "limit" /\ q.id = req[t].id
    BY <1>1 DEF Request
  <2> HIDE DEF q
  <2>3. CASE Goto(t, q) /\ jobs[req[t].id].status = "queued"
    <3>1. req'[t] = q => Current(t)'
      BY <2>1, <2>2, <2>3 DEF Current
    <3>2. QED BY <2>1, <2>3, <3>1, SerialQuiet
  <2>4. CASE Goto(t, Idle)
    BY <1>2, <2>1, <2>4, SerialQuiet DEF Current
  <2>5. QED BY <2>1, <2>3, <2>4
<1>6. CASE DispatchRefuse(t)
  <2>1. req[t].pc = "refuse" /\ Save(req[t].id, req[t].row) /\ Goto(t, Idle)
    BY <1>6 DEF DispatchRefuse, AtPc
  <2>2. req[t].row.status = jobs[req[t].id].status
    BY <1>1, <2>1 DEF Current, RequestInv
  <2>3. QED BY <1>2, <2>1, <2>2, SerialSave
<1>7. ASSUME NEW event \in Events \ {"none"}, RunTask(t, event)
      PROVE  Serial' /\ Follows /\ WithinLimit
  <2> DEFINE again == req[t].via = "executor" \/ event = "succeeded"
             q == [req[t] EXCEPT !.pc = "callback", !.event = event, !.again = again]
  <2>1. req[t].pc = "run" /\ jobs' = jobs /\ Goto(t, q)
    BY <1>7 DEF RunTask, AtPc
  <2> HIDE DEF again
  <2>2. q.pc = "callback"
    BY <1>1 DEF Request
  <2> HIDE DEF q
  <2>3. req'[t] = q => Current(t)'
    BY <2>2 DEF Current
  <2>4. QED BY <2>1, <2>3, SerialQuiet
<1>8. CASE CallbackSave(t)
  <2>1. req[t].pc = "settle" /\ Save(req[t].id, req[t].row) /\ Goto(t, Idle)
    BY <1>8 DEF CallbackSave, AtPc
  <2>2. req[t].row.status \in AllowedTransitions[jobs[req[t].id].status]
    BY <1>1, <2>1 DEF Current
  <2>3. QED BY <1>2, <2>1, <2>2, SerialSave
<1>9. QED
  BY <1>3, <1>4, <1>5, <1>6, <1>7, <1>8, SerialStart, SerialLimit, SerialCallback DEF Continue

\* A request begins when there is no other.
LEMMA SerialAccept ==
  ASSUME IInv, Serial, NEW t \in Threads, Accept(t), \A s \in Threads : req[s] = Idle
  PROVE  Serial' /\ Follows /\ WithinLimit
<1>1. Idle.pc = "idle"
  BY DEF Idle
<1>2. ASSUME NEW u \in Users, NEW ty \in TaskTypes, NEW k \in Keys, NEW then \in {"idle", "load"},
             NEW via \in {"callable", "executor"}, SubmitFind(t, u, ty, k, then, via)
      PROVE  Serial' /\ Follows /\ WithinLimit
  <2>1. PICK j \in JobIds : Goto(t, [Idle EXCEPT !.pc = "insert", !.id = j, !.then = then, !.via = via,
                                               !.row = CreateJob(u, ty, k)])
    BY <1>2 DEF SubmitFind
  <2> DEFINE q == [Idle EXCEPT !.pc = "insert", !.id = j, !.then = then, !.via = via,
                               !.row = CreateJob(u, ty, k)]
  <2>2. q.pc = "insert"
    BY DEF Idle
  <2>3. Goto(t, q) /\ jobs' = jobs
    BY <1>2, <2>1 DEF SubmitFind
  <2> HIDE DEF q
  <2>4. req'[t] = q => Current(t)'
    BY <2>2 DEF Current
  <2>5. QED BY <1>1, <2>3, <2>4, SerialQuiet
<1>3. ASSUME NEW u \in Users, NEW j \in JobIds, NEW to \in Statuses,
             NEW then \in {"idle", "load"}, TransitionLoad(t, u, j, to, then)
      PROVE  Serial' /\ Follows /\ WithinLimit
  <2> DEFINE q == [Idle EXCEPT !.pc = "apply", !.id = j, !.then = then,
                               !.row = TransitionTo(jobs[j], to)]
  <2>1. /\ Goto(t, q) /\ jobs' = jobs /\ j \in Stored /\ to \in AllowedTransitions[jobs[j].status]
    BY <1>3 DEF TransitionLoad, Owned, CanTransition
  <2>2. TransitionTo(jobs[j], to).status = to
    BY <2>1, TransitionRow DEF IInv, RowsCoherent, TypeOK, Stored
  <2>3. q.pc = "apply" /\ q.id = j /\ q.row = TransitionTo(jobs[j], to)
    BY DEF Idle
  <2> HIDE DEF q
  <2>4. req'[t] = q => Current(t)'
    BY <2>1, <2>2, <2>3 DEF Current
  <2>5. QED BY <1>1, <2>1, <2>4, SerialQuiet
<1>4. QED BY <1>2, <1>3 DEF Accept

\* The process stops, recovers and starts when there is no request.
LEMMA SerialProcess ==
  ASSUME IInv, Serial, Crash \/ Boot
  PROVE  Serial' /\ Follows /\ WithinLimit
<1>1. Idle.pc = "idle"
  BY DEF Idle
<1>2. \A s \in Threads : req'[s] = Idle
  BY DEF Crash, Boot, RecoverList, RecoverSave, Serve, IInv, ServerInv
<1>3. Serial' /\ WithinLimit
  BY <1>1, <1>2 DEF Serial, OneRequest, Current, WithinLimit
<1>4. Follows
  <2>1. CASE jobs' = jobs
    BY <2>1 DEF Follows
  <2>2. ASSUME NEW j \in JobIds, RecoverSave(j)
        PROVE  Follows
    <3>1. /\ jobs' = [jobs EXCEPT ![j] = MarkFailed(jobs[j], "RUNTIME_RECOVERY")]
          /\ j \in Stored /\ jobs[j].status = "running"
      BY <2>2 DEF RecoverSave, Save, IInv, ServerInv
    <3>2. MarkFailed(jobs[j], "RUNTIME_RECOVERY").status = "failed"
      BY <3>1, FailedRow DEF IInv, TypeOK, RowsCoherent, Stored, ErrorCodes
    <3>3. "failed" \in AllowedTransitions["running"]
      BY DEF AllowedTransitions, Statuses
    <3>4. QED BY <3>1, <3>2, <3>3 DEF Follows, IInv, TypeOK
  <2>3. QED BY <2>1, <2>2 DEF Crash, Boot, RecoverList, Serve
<1>5. QED BY <1>3, <1>4

-----------------------------------------------------------------------------
(* Jobs and schedules together                                             *)

MCInv ==
  /\ part \in Parts
  /\ part = "jobs" => IInv /\ IsFiniteSet(Stored) /\ (~overlap => Serial)
  /\ part = "schedules" => ScheduleInv

LEMMA MCInitInv == MCInit => MCInv
<1> SUFFICES ASSUME MCInit
             PROVE  MCInv
  OBVIOUS
<1>1. IInv /\ ScheduleInv
  BY InitIInv, SchedulesInit DEF MCInit
<1>2. Stored = {} /\ IsFiniteSet({})
  BY FS_EmptySet DEF MCInit, Init, Stored
<1>3. Serial
  BY DEF MCInit, Init, Serial, OneRequest, Current, Idle
<1>4. QED BY <1>1, <1>2, <1>3 DEF MCInv, MCInit

\* What a step of the jobs saves, it saves under the id of a job.
LEMMA JobsSaved ==
  ASSUME IInv, JobsNext
  PROVE  jobs' = jobs \/ \E j \in JobIds, r \in Row : Save(j, r)
<1>1. ASSUME NEW t \in Threads, Continue(t)
      PROVE  jobs' = jobs \/ \E j \in JobIds, r \in Row : Save(j, r)
  <2>1. jobs' = jobs \/ (req[t].pc \in Holding /\ Save(req[t].id, req[t].row))
    BY <1>1 DEF Continue, SubmitInsert, TransitionSave, DispatchLoad, DispatchLimit, DispatchRefuse,
                DispatchStart, RunTask, CallbackLoad, CallbackSave, AtPc, Holding
  <2>2. req[t].pc \in Holding => req[t].id \in JobIds /\ req[t].row \in Row
    BY DEF IInv, RequestInv, Holding
  <2>3. QED BY <2>1, <2>2
<1>2. ASSUME NEW j \in JobIds, RecoverSave(j)
      PROVE  \E r \in Row : Save(j, r)
  <2>1. jobs[j] \in Row /\ RowCoherent(jobs[j])
    BY <1>2 DEF RecoverSave, IInv, ServerInv, TypeOK, RowsCoherent, Stored
  <2>2. MarkFailed(jobs[j], "RUNTIME_RECOVERY") \in Row
    BY <2>1, FailedRow DEF ErrorCodes
  <2>3. QED BY <1>2, <2>2 DEF RecoverSave
<1>3. QED
  BY <1>1, <1>2 DEF JobsNext, Crash, Boot, RecoverList, Serve, Accept, SubmitFind, TransitionLoad

LEMMA MCStepInv == MCInv /\ [MCNext]_mcvars => MCInv'
<1> SUFFICES ASSUME MCInv, [MCNext]_mcvars
             PROVE  MCInv'
  OBVIOUS
<1>1. CASE part = "jobs" /\ JobsNext /\ UNCHANGED <<part, overlap, schedules, loop>>
  <2>1. Next
    BY <1>1 DEF JobsNext, Next
  <2>2. IInv' /\ IsFiniteSet(Stored')
    BY <1>1, <2>1, NextIInv, JobsSaved, StoredFinite DEF MCInv
  <2>3. ~overlap => Serial'
    BY <1>1, SerialContinue, SerialAccept, SerialProcess DEF MCInv, JobsNext
  <2>4. QED BY <1>1, <2>2, <2>3 DEF MCInv
<1>2. CASE part = "schedules" /\ Schedules!Next /\ UNCHANGED <<part, overlap>>
  BY <1>2, SchedulesStep DEF MCInv
<1>3. CASE UNCHANGED mcvars
  <2>1. UNCHANGED vars /\ UNCHANGED Schedules!vars /\ UNCHANGED <<part, overlap>>
    BY <1>3 DEF mcvars, vars, Schedules!vars
  <2>2. IInv => IInv'
    BY <2>1, StutterStep
  <2>3. ScheduleInv => ScheduleInv'
    BY <2>1, SchedulesStep
  <2>4. Stored' = Stored /\ (Serial => Serial')
    BY <2>1 DEF vars, Stored, Serial, OneRequest, Current, Running
  <2>5. QED BY <2>1, <2>2, <2>3, <2>4 DEF MCInv
<1>4. QED BY <1>1, <1>2, <1>3 DEF MCNext

\* Jobs and schedules, and what requests may rely on while they do not overlap,
\* in every reachable state of the run.
THEOREM MCInvariant == MCSpec => []MCInv
BY MCInitInv, MCStepInv, PTL DEF MCSpec

\* The types of schedules (domain.py), of requests and of the process.
THEOREM SchedulesTypes == MCSpec => [](part = "schedules" => Schedules!TypeOK)
<1>1. MCInv => (part = "schedules" => Schedules!TypeOK)
  BY DEF MCInv, ScheduleInv
<1>2. QED BY <1>1, MCInvariant, PTL

\* register_system_schedule_templates: whatever administrators and users do at
\* once, a serving process has one active system schedule per template.
THEOREM TemplatesCorrect == MCSpec => []TemplatesActiveOnce
<1>1. MCInv => TemplatesActiveOnce
  BY DEF MCInv, ScheduleInv, LoopInv, Schedules!TemplatesActiveOnce, TemplatesActiveOnce
<1>2. QED BY <1>1, MCInvariant, PTL

\* transition_job and dispatch_job: requests that do not overlap follow the
\* state machine of domain.py and start no more jobs of a task type than its
\* limit, through crashes and recovery.
THEOREM SerialCorrect == MCSpec => SerialLifecycle
<1>1. MCInv /\ [MCNext]_mcvars => [~overlap => Follows /\ WithinLimit]_vars
  <2> SUFFICES ASSUME MCInv, [MCNext]_mcvars, ~overlap
               PROVE  (Follows /\ WithinLimit) \/ UNCHANGED vars
    OBVIOUS
  <2>1. CASE part = "jobs" /\ JobsNext
    BY <2>1, SerialContinue, SerialAccept, SerialProcess DEF MCInv, JobsNext
  <2>2. CASE UNCHANGED <<jobs, req>>
    BY <2>2 DEF Follows, WithinLimit
  <2>3. QED BY <2>1, <2>2 DEF MCNext, mcvars, vars
<1>2. QED BY <1>1, MCInvariant, PTL DEF MCSpec, SerialLifecycle
=============================================================================
