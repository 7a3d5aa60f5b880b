-------------------------- MODULE MarketDataProofs --------------------------
(***************************************************************************)
(* The safety properties of market data for every set of symbols, users,   *)
(* threads, sockets and jobs: the cache of quotes and its limiter, the     *)
(* subscriptions of the stream, and the synchronization tasks. Each has an *)
(* inductive invariant of its own; a step of one leaves the others. Then   *)
(* what is computed of a history: a simulation is a fold over its days,    *)
(* and what it keeps from day to day is found to hold of the arithmetic of *)
(* reduced fractions, whatever the prices; so are the indicators, sums and *)
(* moving means of prices.                                                 *)
(***************************************************************************)
EXTENDS MCMarketData, FiniteSetTheorems, SequenceTheorems, TLAPS

Won(row) == row.status = "succeeded" /\ row.result # NoResult

\* What a request holds agrees with what was synchronized, S.
Held(r, S) ==
  LET j == r.job IN
  /\ j \in Jobs
  /\ r.result.ok \subseteq S[Owner[j]]
  /\ r.at = "callback" /\ r.event # "error" =>
       Sync!Complete(j, r.result) /\ (r.event = "succeeded" <=> r.result.failed = {})
  /\ r.at = "save" => Sync!RowFits(j, r.row) /\ (Won(r.row) => Payload[j] \subseteq S[Owner[j]])

\* And so does what is recorded in memory of a job.
Recorded(j, r, S) == r # NoResult => Sync!Complete(j, r) /\ r.ok \subseteq S[Owner[j]]

Unheld(j) == \A t \in Threads : syncer[t].at # "idle" => syncer[t].job # j

\* A task that succeeded before the restart is never taken up again.
JobFits(j) ==
  /\ Sync!RowFits(j, job[j])
  /\ Recorded(j, results[j], synced)
  /\ Won(job[j]) => Payload[j] \subseteq synced[Owner[j]] \/ (results[j] = NoResult /\ Unheld(j))

SyncInv ==
  /\ Sync!TypeOK
  /\ \A t \in Threads : syncer[t].at # "idle" => Held(syncer[t], synced)
  /\ \A j \in Jobs : JobFits(j)

LEMMA SyncIdle == Sync!Idle \in Sync!Request /\ Sync!Idle.at = "idle" /\ Sync!Idle.result = Sync!Empty
BY DEF Sync!Idle, Sync!Request, Sync!Result, Sync!Empty, Sync!Unborn, Sync!Job

LEMMA SyncInit ==
  ASSUME Sync!Init
  PROVE  SyncInv
<1>1. Sync!TypeOK
  BY SyncIdle DEF Sync!Init, Sync!TypeOK, Sync!Job, Sync!Unborn
<1>2. QED
  BY <1>1, SyncIdle DEF Sync!Init, SyncInv, JobFits, Recorded, Won, Sync!RowFits, Sync!Unborn

\* A request goes on with job j, over a row that fits; what was synchronized
\* only grows.
LEMMA SyncMoves ==
  ASSUME SyncInv, NEW t \in Threads, NEW j \in Jobs, NEW row \in Sync!Job, NEW r \in Sync!Request,
         job' = [job EXCEPT ![j] = row], syncer' = [syncer EXCEPT ![t] = r],
         synced' \in [Users -> SUBSET Symbols], \A u \in Users : synced[u] \subseteq synced'[u],
         results' \in [Jobs -> Sync!Result \cup {NoResult}],
         \A i \in Jobs \ {j} : results'[i] = results[i],
         r.at # "idle" => r.job = j /\ Held(r, synced'),
         Sync!RowFits(j, row), Recorded(j, results'[j], synced'),
         Won(row) => Payload[j] \subseteq synced'[Owner[j]]
  PROVE  SyncInv'
<1> USE MCParameters DEF Sync!Parameters
<1>1. Sync!TypeOK'
  BY DEF SyncInv, Sync!TypeOK
<1>2. /\ \A u \in Threads : syncer'[u] = IF u = t THEN r ELSE syncer[u]
      /\ \A i \in Jobs : job'[i] = IF i = j THEN row ELSE job[i]
  BY DEF SyncInv, Sync!TypeOK
<1>3. ASSUME NEW u \in Threads, syncer'[u].at # "idle"
      PROVE  Held(syncer'[u], synced')
  <2>1. CASE u = t
    BY <1>2, <1>3, <2>1
  <2>2. CASE u # t
    <3>1. Held(syncer[u], synced)
      BY <1>2, <1>3, <2>2 DEF SyncInv
    <3>2. synced[Owner[syncer[u].job]] \subseteq synced'[Owner[syncer[u].job]]
      BY <3>1 DEF Held
    <3>3. QED BY <1>2, <2>2, <3>1, <3>2 DEF Held
  <2>3. QED BY <2>1, <2>2
<1>4. ASSUME NEW i \in Jobs
      PROVE  JobFits(i)'
  <2>1. CASE i = j
    BY <1>2, <2>1 DEF JobFits
  <2>2. CASE i # j
    <3>1. JobFits(i) /\ results'[i] = results[i] /\ job'[i] = job[i]
      BY <1>2, <2>2 DEF SyncInv
    <3>2. synced[Owner[i]] \subseteq synced'[Owner[i]]
      OBVIOUS
    <3>3. Unheld(i) => Unheld(i)'
      BY <1>2, <2>2 DEF Unheld
    <3>4. QED BY <3>1, <3>2, <3>3 DEF JobFits, Recorded
  <2>3. QED BY <2>1, <2>2
<1>5. QED BY <1>1, <1>3, <1>4 DEF SyncInv

\* A request that is under way holds a job, whose row fits.
LEMMA SyncHolds ==
  ASSUME SyncInv, NEW t \in Threads, syncer[t].at # "idle"
  PROVE  /\ syncer[t] \in Sync!Request /\ syncer[t].job \in Jobs /\ Held(syncer[t], synced)
         /\ job[syncer[t].job] \in Sync!Job /\ Sync!RowFits(syncer[t].job, job[syncer[t].job])
         /\ Recorded(syncer[t].job, results[syncer[t].job], synced)
         /\ Won(job[syncer[t].job]) => Payload[syncer[t].job] \subseteq synced[Owner[syncer[t].job]]
BY DEF SyncInv, Sync!TypeOK, Held, JobFits, Unheld

\* It goes on and leaves the tables alone.
LEMMA SyncGoesOn ==
  ASSUME SyncInv, NEW t \in Threads, syncer[t].at # "idle", NEW r \in Sync!Request,
         r.at # "idle" => r.job = syncer[t].job /\ Held(r, synced),
         syncer' = [syncer EXCEPT ![t] = r], UNCHANGED <<job, synced, results>>
  PROVE  SyncInv'
<1> DEFINE j == syncer[t].job
<1>1. j \in Jobs /\ job' = [job EXCEPT ![j] = job[j]] /\ job[j] \in Sync!Job
  BY SyncHolds DEF SyncInv, Sync!TypeOK
<1>2. synced' \in [Users -> SUBSET Symbols] /\ results' \in [Jobs -> Sync!Result \cup {NoResult}]
  BY DEF SyncInv, Sync!TypeOK
<1>3. Sync!RowFits(j, job[j]) /\ Recorded(j, results'[j], synced')
      /\ (Won(job[j]) => Payload[j] \subseteq synced'[Owner[j]])
  BY SyncHolds
<1> HIDE DEF j
<1>4. r.at # "idle" => r.job = j /\ Held(r, synced')
  BY DEF j
<1>5. QED BY <1>1, <1>2, <1>3, <1>4, SyncMoves

LEMMA SyncSubmit ==
  ASSUME SyncInv, NEW t \in Threads, NEW j \in Jobs, NEW then \in {"idle", "load"},
         Sync!SubmitSync(t, j, then)
  PROVE  SyncInv'
<1> USE MCParameters DEF Sync!Parameters
<1> DEFINE r   == IF then = "load" THEN [Sync!Idle EXCEPT !.at = "load", !.job = j] ELSE Sync!Idle
           row == [job[j] EXCEPT !.status = "queued"]
<1>1. r \in Sync!Request /\ (r.at # "idle" => r.at = "load" /\ r.job = j) /\ r.result.ok = {}
  BY SyncIdle DEF Sync!Idle, Sync!Request, Sync!Empty
<1>2. job[j] \in Sync!Job /\ Sync!RowFits(j, job[j]) /\ job[j].status = "unborn"
      /\ Recorded(j, results[j], synced)
  BY DEF SyncInv, Sync!TypeOK, JobFits, Sync!SubmitSync
<1>3. row \in Sync!Job /\ row.status = "queued" /\ Sync!RowFits(j, row)
  BY <1>2 DEF Sync!Job, Sync!RowFits
<1>4. r.at # "idle" => r.job = j /\ Held(r, synced')
  BY <1>1 DEF Held
<1>5. /\ job' = [job EXCEPT ![j] = row] /\ syncer' = [syncer EXCEPT ![t] = r]
      /\ UNCHANGED <<synced, results>>
      /\ synced' \in [Users -> SUBSET Symbols] /\ results' \in [Jobs -> Sync!Result \cup {NoResult}]
  BY DEF Sync!SubmitSync, Sync!Goto, SyncInv, Sync!TypeOK
<1>6. ~Won(row)
  BY <1>3 DEF Won
<1> HIDE DEF r, row
<1>7. QED BY <1>1, <1>2, <1>3, <1>4, <1>5, <1>6, SyncMoves

LEMMA SyncTransition ==
  ASSUME SyncInv, NEW t \in Threads, NEW j \in Jobs, NEW then \in {"idle", "load"},
         NEW to \in {"queued", "running", "succeeded", "failed", "cancelled"},
         Sync!Transition(t, j, to, then)
  PROVE  SyncInv'
<1> USE MCParameters DEF Sync!Parameters
<1> DEFINE row == Sync!TransitionTo(job[j], to)
           r   == [Sync!Idle EXCEPT !.at = "save", !.job = j, !.then = then, !.row = row]
<1>1. job[j] \in Sync!Job /\ Sync!RowFits(j, job[j]) /\ Sync!CanTransition(job[j], to)
      /\ Recorded(j, results[j], synced)
  BY DEF SyncInv, Sync!TypeOK, JobFits, Sync!Transition
<1>2. row \in Sync!Job /\ Sync!RowFits(j, row) /\ ~Won(row) /\ ~Won(job[j])
  BY <1>1 DEF Sync!Job, Sync!RowFits, Sync!TransitionTo, Sync!CanTransition, Won
<1>3. r \in Sync!Request /\ r.at = "save" /\ r.job = j /\ r.row = row /\ r.result.ok = {}
  BY <1>2, SyncIdle DEF Sync!Idle, Sync!Request, Sync!Empty
<1>4. /\ job' = [job EXCEPT ![j] = job[j]] /\ syncer' = [syncer EXCEPT ![t] = r]
      /\ UNCHANGED <<synced, results>>
      /\ synced' \in [Users -> SUBSET Symbols] /\ results' \in [Jobs -> Sync!Result \cup {NoResult}]
  BY DEF Sync!Transition, Sync!Goto, SyncInv, Sync!TypeOK
<1> HIDE DEF r, row
<1>5. Held(r, synced')
  BY <1>2, <1>3 DEF Held
<1>6. QED BY <1>1, <1>2, <1>3, <1>4, <1>5, SyncMoves

LEMMA SyncSave ==
  ASSUME SyncInv, NEW t \in Threads, Sync!SaveRow(t)
  PROVE  SyncInv'
<1> USE MCParameters DEF Sync!Parameters
<1> DEFINE j   == syncer[t].job
           row == syncer[t].row
           r   == IF syncer[t].then = "idle" THEN Sync!Idle ELSE [syncer[t] EXCEPT !.at = syncer[t].then]
<1>1. /\ syncer[t].at = "save" /\ syncer[t] \in Sync!Request /\ j \in Jobs /\ Held(syncer[t], synced)
      /\ Recorded(j, results[j], synced)
  BY SyncHolds DEF Sync!SaveRow, Sync!At
<1>2. row \in Sync!Job /\ Sync!RowFits(j, row) /\ (Won(row) => Payload[j] \subseteq synced[Owner[j]])
  BY <1>1 DEF Held, Sync!Request
<1>3. r \in Sync!Request /\ (r.at # "idle" => r.at \in {"load", "sync"} /\ r.job = j /\ r.result = syncer[t].result)
  BY <1>1, SyncIdle DEF Sync!Request
<1>4. r.at # "idle" => r.job = j /\ Held(r, synced)
  BY <1>1, <1>3 DEF Held
<1>5. /\ job' = [job EXCEPT ![j] = row] /\ syncer' = [syncer EXCEPT ![t] = r]
      /\ UNCHANGED <<synced, results>>
      /\ synced' \in [Users -> SUBSET Symbols] /\ results' \in [Jobs -> Sync!Result \cup {NoResult}]
  BY DEF Sync!SaveRow, Sync!Goto, Sync!Its, SyncInv, Sync!TypeOK
<1> HIDE DEF j, row, r
<1>6. QED BY <1>1, <1>2, <1>3, <1>4, <1>5, SyncMoves

LEMMA SyncDispatch ==
  ASSUME SyncInv, NEW t \in Threads, Sync!DispatchLoad(t)
  PROVE  SyncInv'
<1> DEFINE j == syncer[t].job
           r(row, then) == [syncer[t] EXCEPT !.at = "save", !.then = then, !.row = row]
<1>1. /\ syncer[t].at = "load" /\ syncer[t] \in Sync!Request /\ Held(syncer[t], synced)
      /\ job[j] \in Sync!Job /\ Sync!RowFits(j, job[j])
  BY SyncHolds DEF Sync!DispatchLoad, Sync!At
<1>2. ASSUME NEW row \in Sync!Job, NEW then \in {"idle", "sync"}, ~Won(row), Sync!RowFits(j, row),
             syncer' = [syncer EXCEPT ![t] = r(row, then)], UNCHANGED <<job, synced, results>>
      PROVE  SyncInv'
  <2>1. /\ r(row, then) \in Sync!Request /\ r(row, then).at = "save" /\ r(row, then).row = row
        /\ r(row, then).job = j /\ r(row, then).result = syncer[t].result
    BY <1>1 DEF Sync!Request
  <2>2. Held(r(row, then), synced)
    BY <1>1, <1>2, <2>1 DEF Held
  <2>3. QED BY <1>1, <1>2, <2>1, <2>2, SyncGoesOn
<1>3. job[j].status = "queued" =>
        /\ ~Won(job[j]) /\ Sync!TransitionTo(job[j], "running") \in Sync!Job
        /\ ~Won(Sync!TransitionTo(job[j], "running"))
        /\ Sync!RowFits(j, Sync!TransitionTo(job[j], "running"))
  BY <1>1 DEF Won, Sync!TransitionTo, Sync!Job, Sync!RowFits
<1>4. QED BY <1>1, <1>2, <1>3, SyncIdle, SyncGoesOn DEF Sync!DispatchLoad, Sync!Goto, Sync!Its

LEMMA SyncSymbolStep ==
  ASSUME SyncInv, NEW t \in Threads, NEW s \in Symbols, Sync!SyncSymbol(t, s)
  PROVE  SyncInv'
<1> USE MCParameters DEF Sync!Parameters
<1> DEFINE j == syncer[t].job
<1>1. /\ syncer[t].at = "sync" /\ syncer[t] \in Sync!Request /\ j \in Jobs /\ Held(syncer[t], synced)
      /\ job[j] \in Sync!Job /\ Sync!RowFits(j, job[j]) /\ Recorded(j, results[j], synced)
      /\ (Won(job[j]) => Payload[j] \subseteq synced[Owner[j]]) /\ job' = [job EXCEPT ![j] = job[j]]
      /\ results' = results /\ results' \in [Jobs -> Sync!Result \cup {NoResult}]
  BY SyncHolds DEF Sync!SyncSymbol, Sync!At, SyncInv, Sync!TypeOK
<1>2. CASE /\ synced' = [synced EXCEPT ![Owner[j]] = @ \cup {s}]
           /\ syncer' = [syncer EXCEPT ![t] = [syncer[t] EXCEPT !.result.ok = @ \cup {s}]]
  <2> DEFINE r == [syncer[t] EXCEPT !.result.ok = @ \cup {s}]
  <2>1. r \in Sync!Request /\ r.at = "sync" /\ r.job = j /\ r.result.ok = syncer[t].result.ok \cup {s}
    BY <1>1 DEF Sync!Request, Sync!Result
  <2>2. /\ synced' \in [Users -> SUBSET Symbols] /\ \A u \in Users : synced[u] \subseteq synced'[u]
        /\ synced'[Owner[j]] = synced[Owner[j]] \cup {s}
    BY <1>1, <1>2 DEF SyncInv, Sync!TypeOK
  <2>3. Held(r, synced')
    BY <1>1, <2>1, <2>2 DEF Held
  <2>4. Recorded(j, results'[j], synced') /\ (Won(job[j]) => Payload[j] \subseteq synced'[Owner[j]])
    BY <1>1, <2>2 DEF Recorded
  <2> HIDE DEF r, j
  <2>5. syncer' = [syncer EXCEPT ![t] = r]
    BY <1>2 DEF r
  <2>6. QED BY <1>1, <2>1, <2>2, <2>3, <2>4, <2>5, SyncMoves
<1>3. CASE syncer' = [syncer EXCEPT ![t] = [syncer[t] EXCEPT !.result.failed = @ \cup {s}]] /\ synced' = synced
  <2> DEFINE r == [syncer[t] EXCEPT !.result.failed = @ \cup {s}]
  <2>1. r \in Sync!Request /\ r.at = "sync" /\ r.job = j /\ r.result.ok = syncer[t].result.ok
    BY <1>1 DEF Sync!Request, Sync!Result
  <2>2. Held(r, synced)
    BY <1>1, <2>1 DEF Held
  <2> HIDE DEF r
  <2>3. syncer' = [syncer EXCEPT ![t] = r]
    BY <1>3 DEF r
  <2>4. QED BY <1>1, <1>3, <2>1, <2>2, <2>3, SyncGoesOn DEF Sync!SyncSymbol
<1>4. QED BY <1>2, <1>3 DEF Sync!SyncSymbol, Sync!Goto, Sync!Its

LEMMA SyncRaises ==
  ASSUME SyncInv, NEW t \in Threads, Sync!RunnerRaises(t)
  PROVE  SyncInv'
<1> DEFINE r == [syncer[t] EXCEPT !.at = "callback", !.event = "error"]
<1>1. syncer[t].at = "sync" /\ syncer[t] \in Sync!Request /\ Held(syncer[t], synced)
  BY SyncHolds DEF Sync!RunnerRaises, Sync!At
<1>2. /\ r \in Sync!Request /\ r.at = "callback" /\ r.event = "error" /\ r.job = syncer[t].job
      /\ r.result = syncer[t].result
  BY <1>1 DEF Sync!Request
<1>3. Held(r, synced)
  BY <1>1, <1>2 DEF Held
<1>4. QED BY <1>1, <1>2, <1>3, SyncGoesOn DEF Sync!RunnerRaises, Sync!Goto

LEMMA SyncRecord ==
  ASSUME SyncInv, NEW t \in Threads, Sync!RecordResult(t)
  PROVE  SyncInv'
<1> USE MCParameters DEF Sync!Parameters
<1> DEFINE j    == syncer[t].job
           done == syncer[t].result
           r    == [syncer[t] EXCEPT !.at = "callback",
                     !.event = IF done.failed = {} THEN "succeeded" ELSE "failed"]
<1>1. /\ syncer[t].at = "sync" /\ syncer[t] \in Sync!Request /\ j \in Jobs /\ Held(syncer[t], synced)
      /\ job[j] \in Sync!Job /\ Sync!RowFits(j, job[j])
      /\ (Won(job[j]) => Payload[j] \subseteq synced[Owner[j]]) /\ job' = [job EXCEPT ![j] = job[j]]
  BY SyncHolds DEF Sync!RecordResult, Sync!At, SyncInv, Sync!TypeOK
<1>2. /\ r \in Sync!Request /\ r.at = "callback" /\ r.job = j /\ r.result = done /\ done \in Sync!Result
      /\ r.event = (IF done.failed = {} THEN "succeeded" ELSE "failed")
  BY <1>1 DEF Sync!Request
<1>3. /\ synced' = synced /\ results' = [results EXCEPT ![j] = done] /\ Payload[j] = done.ok \cup done.failed
      /\ synced' \in [Users -> SUBSET Symbols] /\ syncer' = [syncer EXCEPT ![t] = r]
  BY DEF Sync!RecordResult, Sync!Its, Sync!Goto, SyncInv, Sync!TypeOK
<1>4. results' \in [Jobs -> Sync!Result \cup {NoResult}] /\ results'[j] = done
      /\ \A i \in Jobs \ {j} : results'[i] = results[i]
  BY <1>1, <1>2, <1>3 DEF SyncInv, Sync!TypeOK
<1>5. Recorded(j, results'[j], synced') /\ Held(r, synced')
  BY <1>1, <1>2, <1>3, <1>4 DEF Held, Recorded, Sync!Complete
<1> HIDE DEF j, done, r
<1>6. QED BY <1>1, <1>2, <1>3, <1>4, <1>5, SyncMoves

LEMMA SyncCallback ==
  ASSUME SyncInv, NEW t \in Threads, Sync!Callback(t)
  PROVE  SyncInv'
<1> USE MCParameters DEF Sync!Parameters
<1> DEFINE j   == syncer[t].job
           row == Sync!Marked(syncer[t].event, syncer[t].result)
           r   == [syncer[t] EXCEPT !.at = "save", !.then = "idle", !.row = row]
           e   == [syncer[t] EXCEPT !.event = "error"]
<1>1. syncer[t].at = "callback" /\ syncer[t] \in Sync!Request /\ j \in Jobs /\ Held(syncer[t], synced)
      /\ UNCHANGED <<job, synced, results>>
  BY SyncHolds DEF Sync!Callback, Sync!At
<1>2. row \in Sync!Job /\ Sync!RowFits(j, row) /\ (Won(row) => Payload[j] \subseteq synced[Owner[j]])
  BY <1>1 DEF Sync!Marked, Sync!Job, Sync!Request, Sync!RowFits, Sync!Complete, Held, Won
<1>3. r \in Sync!Request /\ r.at = "save" /\ r.job = j /\ r.row = row /\ r.result = syncer[t].result
  BY <1>1, <1>2 DEF Sync!Request
<1>4. e \in Sync!Request /\ e.at = "callback" /\ e.job = j /\ e.event = "error" /\ e.result = syncer[t].result
  BY <1>1 DEF Sync!Request
<1>5. \/ syncer' = [syncer EXCEPT ![t] = r] \/ syncer' = [syncer EXCEPT ![t] = e]
      \/ syncer' = [syncer EXCEPT ![t] = Sync!Idle]
  BY DEF Sync!Callback, Sync!Goto
<1> HIDE DEF row, r, e
<1>6. Held(r, synced) /\ Held(e, synced)
  BY <1>1, <1>2, <1>3, <1>4 DEF Held
<1>7. QED BY <1>1, <1>3, <1>4, <1>5, <1>6, SyncIdle, SyncGoesOn

LEMMA SyncRestart ==
  ASSUME SyncInv, Sync!Restart
  PROVE  SyncInv'
<1>1. \A j \in Jobs : job'[j] = IF job[j].status = "running" THEN Sync!Marked("error", Sync!Empty) ELSE job[j]
  BY DEF Sync!Restart
<1>2. Sync!Marked("error", Sync!Empty) \in Sync!Job /\ Sync!Marked("error", Sync!Empty).result = NoResult
  BY DEF Sync!Marked, Sync!Job
<1>3. Sync!TypeOK' /\ \A t \in Threads : syncer'[t].at = "idle"
  BY <1>2, SyncIdle DEF Sync!Restart, SyncInv, Sync!TypeOK
<1>4. ASSUME NEW j \in Jobs
      PROVE  JobFits(j)'
  <2>1. JobFits(j) /\ results'[j] = NoResult /\ Unheld(j)'
    BY <1>3 DEF SyncInv, Sync!Restart, Unheld
  <2>2. Sync!RowFits(j, job'[j])
    BY <1>1, <1>2, <2>1 DEF JobFits, Sync!RowFits
  <2>3. QED BY <2>1, <2>2 DEF JobFits, Recorded
<1>5. QED BY <1>3, <1>4 DEF SyncInv

LEMMA SyncStep ==
  ASSUME SyncInv, [Sync!Next]_(Sync!vars)
  PROVE  SyncInv'
<1>1. ASSUME NEW t \in Threads, Sync!SyncRoutes(t)
      PROVE  SyncInv'
  BY <1>1, SyncSubmit, SyncTransition, SyncSave, SyncDispatch, SyncSymbolStep, SyncRaises, SyncRecord,
     SyncCallback DEF Sync!SyncRoutes
<1>2. CASE UNCHANGED Sync!vars
  BY <1>2 DEF Sync!vars, SyncInv, JobFits, Unheld, Sync!TypeOK
<1>3. QED BY <1>1, <1>2, SyncRestart DEF Sync!Next

\* What rows and memory say agrees with what was synchronized.
LEMMA SyncInvFits ==
  ASSUME SyncInv
  PROVE  Sync!ResultsFit /\ Sync!SyncedKept
<1> USE MCParameters DEF Sync!Parameters
<1>1. Sync!ResultsFit
  BY DEF SyncInv, JobFits, Recorded, Sync!ResultsFit
<1>2. Sync!SyncedKept
  BY DEF SyncInv, JobFits, Recorded, Won, Sync!SyncedKept, Sync!Missing
<1>3. QED BY <1>1, <1>2

-----------------------------------------------------------------------------
(* The quote stream                                                        *)

Serving(s) == socket[s].at \in {"receiving", "polling"}

\* Whoever looks after a user's subscriptions is past its greeting: the
\* handler ends with the finally that clears them.
Kept == \A u \in Users : subscriptions[u] # {} => \E s \in Sockets : socket[s].user = u /\ Serving(s)

Counted ==
  \A u \in Users :
    /\ connections[u] = {s \in Sockets : socket[s].user = u /\ (Stream!Live(s) \/ Stream!At(s, "leaked"))}
    /\ IsFiniteSet(connections[u]) /\ Cardinality(connections[u]) <= MaxConnections

\* A user whose sockets were never together has its subscriptions on the one
\* socket that is served, and the one that is polled is among them.
OnOne ==
  ~together =>
    /\ \A s \in Sockets : \A v \in Sockets \ {s} :
         socket[s].user = socket[v].user => ~(Stream!Live(s) /\ Stream!Live(v))
    /\ \A u \in Users : \A i \in subscriptions[u] :
         opener[i] \in Sockets /\ socket[opener[i]].user = u /\ Serving(opener[i])
    /\ \A s \in Sockets : Stream!At(s, "polling") => socket[s].sub \in Stream!Mine(s)

Users_ == \A s \in Sockets : ~Stream!At(s, "unborn") => socket[s].user \in Users

StreamInv == Stream!TypeOK /\ Users_ /\ Counted /\ Kept /\ OnOne

\* How together goes on.
Watched == together' = (together \/ Together)

\* The instance counts as this module does.
LEMMA SameCardinality == \A S : Stream!Cardinality(S) = Cardinality(S)
BY DEF Stream!Cardinality, Cardinality

LEMMA StreamOpen ==
  ASSUME StreamInv, NEW s \in Sockets, NEW u \in Users, Stream!Open(s, u), Watched
  PROVE  StreamInv'
<1> DEFINE r(p) == [socket[s] EXCEPT !.at = p, !.user = u]
<1>1. /\ socket[s].at = "unborn" /\ UNCHANGED <<subscriptions, opener>>
      /\ \/ /\ Cardinality(connections[u]) >= MaxConnections
            /\ socket' = [socket EXCEPT ![s] = r("ended")] /\ connections' = connections
         \/ /\ ~(Cardinality(connections[u]) >= MaxConnections)
            /\ socket' = [socket EXCEPT ![s] = r("greeting")]
            /\ connections' = [connections EXCEPT ![u] = @ \cup {s}]
  BY SameCardinality DEF Stream!Open, Stream!At
<1>2. PICK p \in {"ended", "greeting"} : 
        /\ socket' = [socket EXCEPT ![s] = r(p)]
        /\ connections' = IF p = "ended" THEN connections ELSE [connections EXCEPT ![u] = @ \cup {s}]
        /\ p = "greeting" => ~(Cardinality(connections[u]) >= MaxConnections)
  BY <1>1
<1>3. r(p) \in Stream!Socket /\ r(p).at = p /\ r(p).user = u
  BY DEF StreamInv, Stream!TypeOK, Stream!Socket
<1> HIDE DEF r
<1>4. Stream!TypeOK'
  BY <1>1, <1>2, <1>3 DEF StreamInv, Stream!TypeOK
<1>5. \A v \in Sockets : socket'[v] = IF v = s THEN r(p) ELSE socket[v]
  BY <1>2 DEF StreamInv, Stream!TypeOK
<1>6. Users_'
  BY <1>3, <1>5 DEF StreamInv, Users_, Stream!At
<1>7. Counted'
  <2> SUFFICES ASSUME NEW w \in Users
               PROVE  /\ connections'[w] = {v \in Sockets : socket'[v].user = w /\ (Stream!Live(v)' \/ Stream!At(v, "leaked")')}
                      /\ IsFiniteSet(connections'[w]) /\ Cardinality(connections'[w]) <= MaxConnections
    BY DEF Counted
  <2>1. connections[w] = {v \in Sockets : socket[v].user = w /\ (Stream!Live(v) \/ Stream!At(v, "leaked"))}
        /\ IsFiniteSet(connections[w]) /\ Cardinality(connections[w]) <= MaxConnections
    BY DEF StreamInv, Counted
  <2>2. s \notin connections[w]
    BY <1>1, <2>1 DEF Stream!Live, Stream!At
  <2>3. connections'[w] = IF p = "greeting" /\ w = u THEN connections[w] \cup {s} ELSE connections[w]
    BY <1>2 DEF StreamInv, Stream!TypeOK
  <2>4. connections'[w] = {v \in Sockets : socket'[v].user = w /\ (Stream!Live(v)' \/ Stream!At(v, "leaked")')}
    BY <1>1, <1>3, <1>5, <2>1, <2>3 DEF Stream!Live, Stream!At
  <2>5. IsFiniteSet(connections[w] \cup {s}) /\ Cardinality(connections[w] \cup {s}) = Cardinality(connections[w]) + 1
        /\ Cardinality(connections[w]) \in Nat
    BY <2>1, <2>2, FS_AddElement, FS_CardinalityType
  <2>6. CASE p = "greeting" /\ w = u
    <3>1. ~(Cardinality(connections[w]) >= MaxConnections)
      BY <1>2, <2>6
    <3>2. Cardinality(connections[w]) + 1 <= MaxConnections
      BY <2>5, <3>1, MCParameters DEF Stream!Parameters
    <3>3. QED BY <2>3, <2>4, <2>5, <2>6, <3>2
  <2>7. CASE ~(p = "greeting" /\ w = u)
    BY <2>1, <2>3, <2>4, <2>7
  <2>8. QED BY <2>6, <2>7
<1>8. Kept'
  BY <1>1, <1>5 DEF StreamInv, Kept, Serving
<1>9. OnOne'
  <2> SUFFICES ASSUME ~together'
               PROVE  OnOne'
    BY DEF OnOne
  <2>1. OnOne /\ ~together /\ ~Together
    BY DEF Watched, StreamInv
  <2>2. ASSUME NEW v \in Sockets, NEW w \in Sockets \ {v}, socket'[v].user = socket'[w].user
        PROVE  ~(Stream!Live(v)' /\ Stream!Live(w)')
    BY <2>1, <2>2 DEF Together, Stream!Live
  <2>3. ASSUME NEW w \in Users, NEW i \in subscriptions'[w]
        PROVE  opener'[i] \in Sockets /\ socket'[opener'[i]].user = w /\ Serving(opener[i])'
    BY <1>1, <1>5, <2>1, <2>3 DEF OnOne, Serving
  <2>4. ASSUME NEW v \in Sockets, Stream!At(v, "polling")'
        PROVE  socket'[v].sub \in Stream!Mine(v)'
    BY <1>1, <1>3, <1>5, <2>1, <2>4 DEF OnOne, Stream!At, Stream!Mine
  <2>5. QED BY <2>2, <2>3, <2>4 DEF OnOne
<1>10. QED BY <1>4, <1>6, <1>7, <1>8, <1>9 DEF StreamInv

\* A socket that stays served, or is left as it is greeted, by a step that
\* touches nothing else.
LEMMA StreamGoesOn ==
  ASSUME StreamInv, NEW s \in Sockets, NEW q \in Stream!Socket, Watched,
         socket' = [socket EXCEPT ![s] = q], UNCHANGED <<connections, subscriptions, opener>>,
         Stream!Live(s), q.user = socket[s].user,
         q.at \in {"greeting", "receiving", "polling", "leaked"},
         Serving(s) => q.at \in {"receiving", "polling"},
         q.at = "polling" => socket[s].at = "polling" /\ q.sub = socket[s].sub
  PROVE  StreamInv'
<1>1. Stream!TypeOK'
  BY DEF StreamInv, Stream!TypeOK
<1>2. \A v \in Sockets : socket'[v] = IF v = s THEN q ELSE socket[v]
  BY DEF StreamInv, Stream!TypeOK
<1>3. Users_'
  BY <1>2 DEF StreamInv, Users_, Stream!At, Stream!Live
<1>4. Counted'
  <2> SUFFICES ASSUME NEW w \in Users
               PROVE  connections'[w] = {v \in Sockets : socket'[v].user = w /\ (Stream!Live(v)' \/ Stream!At(v, "leaked")')}
    BY DEF StreamInv, Counted
  <2>1. connections[w] = {v \in Sockets : socket[v].user = w /\ (Stream!Live(v) \/ Stream!At(v, "leaked"))}
    BY DEF StreamInv, Counted
  <2>2. \A v \in Sockets : /\ socket'[v].user = socket[v].user
                           /\ Stream!Live(v)' \/ Stream!At(v, "leaked")' <=> Stream!Live(v) \/ Stream!At(v, "leaked")
    BY <1>2 DEF Stream!Live, Stream!At
  <2>3. QED BY <2>1, <2>2
<1>5. Kept'
  BY <1>2 DEF StreamInv, Kept, Serving
<1>6. OnOne'
  <2> SUFFICES ASSUME ~together'
               PROVE  OnOne'
    BY DEF OnOne
  <2>1. OnOne /\ ~together /\ ~Together
    BY DEF Watched, StreamInv
  <2>2. ASSUME NEW v \in Sockets, NEW w \in Sockets \ {v}, socket'[v].user = socket'[w].user
        PROVE  ~(Stream!Live(v)' /\ Stream!Live(w)')
    BY <2>1, <2>2 DEF Together, Stream!Live
  <2>3. ASSUME NEW w \in Users, NEW i \in subscriptions'[w]
        PROVE  opener'[i] \in Sockets /\ socket'[opener'[i]].user = w /\ Serving(opener[i])'
    BY <1>2, <2>1, <2>3 DEF OnOne, Serving
  <2>4. ASSUME NEW v \in Sockets, Stream!At(v, "polling")'
        PROVE  socket'[v].sub \in Stream!Mine(v)'
    BY <1>2, <2>1, <2>4 DEF OnOne, Stream!At, Stream!Mine
  <2>5. QED BY <2>2, <2>3, <2>4 DEF OnOne
<1>7. QED BY <1>1, <1>3, <1>4, <1>5, <1>6 DEF StreamInv

\* The end of a handler.
LEMMA StreamEnds ==
  ASSUME StreamInv, NEW s \in Sockets, Serving(s), Stream!Finish(s), UNCHANGED opener, Watched
  PROVE  StreamInv'
<1> DEFINE q == [socket[s] EXCEPT !.at = "ended", !.sub = NoSub]
<1>1. /\ q \in Stream!Socket /\ q.at = "ended" /\ q.user = socket[s].user
      /\ socket[s].user \in Users
  BY DEF StreamInv, Stream!TypeOK, Stream!Socket, Users_, Serving, Stream!At
<1>2. /\ socket' = [socket EXCEPT ![s] = q]
      /\ subscriptions' = [subscriptions EXCEPT ![socket[s].user] = {}]
      /\ connections' = [connections EXCEPT ![socket[s].user] = @ \ {s}]
  BY DEF Stream!Finish
<1> HIDE DEF q
<1>3. Stream!TypeOK'
  BY <1>1, <1>2 DEF StreamInv, Stream!TypeOK
<1>4. /\ \A v \in Sockets : socket'[v] = IF v = s THEN q ELSE socket[v]
      /\ \A w \in Users : subscriptions'[w] = IF w = socket[s].user THEN {} ELSE subscriptions[w]
      /\ \A w \in Users : connections'[w] = IF w = socket[s].user THEN connections[w] \ {s} ELSE connections[w]
  BY <1>2 DEF StreamInv, Stream!TypeOK
<1>5. Users_'
  BY <1>1, <1>4 DEF StreamInv, Users_, Stream!At
<1>6. Counted'
  <2> SUFFICES ASSUME NEW w \in Users
               PROVE  /\ connections'[w] = {v \in Sockets : socket'[v].user = w /\ (Stream!Live(v)' \/ Stream!At(v, "leaked")')}
                      /\ IsFiniteSet(connections'[w]) /\ Cardinality(connections'[w]) <= MaxConnections
    BY DEF Counted
  <2>1. connections[w] = {v \in Sockets : socket[v].user = w /\ (Stream!Live(v) \/ Stream!At(v, "leaked"))}
        /\ IsFiniteSet(connections[w]) /\ Cardinality(connections[w]) <= MaxConnections
    BY DEF StreamInv, Counted
  <2>2. connections'[w] = {v \in Sockets : socket'[v].user = w /\ (Stream!Live(v)' \/ Stream!At(v, "leaked")')}
    <3>1. ASSUME NEW v \in Sockets
          PROVE  v \in connections'[w] <=> socket'[v].user = w /\ (Stream!Live(v)' \/ Stream!At(v, "leaked")')
      <4>1. CASE v = s
        BY <1>1, <1>4, <2>1, <4>1 DEF Stream!Live, Stream!At
      <4>2. CASE v # s
        <5>1. socket'[v] = socket[v] /\ (v \in connections'[w] <=> v \in connections[w])
          BY <1>4, <4>2
        <5>2. QED BY <2>1, <5>1 DEF Stream!Live, Stream!At
      <4>3. QED BY <4>1, <4>2
    <3>2. connections'[w] \in SUBSET Sockets
      BY <1>3 DEF Stream!TypeOK
    <3>3. QED BY <3>1, <3>2
  <2>3. connections'[w] \in SUBSET connections[w]
    BY <1>4
  <2>4. IsFiniteSet(connections'[w]) /\ Cardinality(connections'[w]) <= Cardinality(connections[w])
    BY <2>1, <2>3, FS_Subset
  <2>5. Cardinality(connections'[w]) \in Nat /\ Cardinality(connections[w]) \in Nat
    BY <2>1, <2>4, FS_CardinalityType
  <2>6. QED BY <2>1, <2>2, <2>4, <2>5, MCParameters DEF Stream!Parameters
<1>7. Kept'
  <2> SUFFICES ASSUME NEW w \in Users, subscriptions'[w] # {}
               PROVE  \E v \in Sockets : socket'[v].user = w /\ Serving(v)'
    BY DEF Kept
  <2>1. w # socket[s].user /\ subscriptions[w] # {}
    BY <1>4
  <2>2. PICK v \in Sockets : socket[v].user = w /\ Serving(v)
    BY <2>1 DEF StreamInv, Kept
  <2>3. v # s /\ socket'[v] = socket[v]
    BY <1>4, <2>1, <2>2
  <2>4. QED BY <2>2, <2>3 DEF Serving
<1>8. OnOne'
  <2> SUFFICES ASSUME ~together'
               PROVE  OnOne'
    BY DEF OnOne
  <2>1. OnOne /\ ~together /\ ~Together
    BY DEF Watched, StreamInv
  <2>2. ASSUME NEW v \in Sockets, NEW w \in Sockets \ {v}, socket'[v].user = socket'[w].user
        PROVE  ~(Stream!Live(v)' /\ Stream!Live(w)')
    BY <2>1, <2>2 DEF Together, Stream!Live
  <2>3. ASSUME NEW w \in Users, NEW i \in subscriptions'[w]
        PROVE  opener'[i] \in Sockets /\ socket'[opener'[i]].user = w /\ Serving(opener[i])'
    <3>1. w # socket[s].user /\ i \in subscriptions[w]
      BY <1>4, <2>3
    <3>2. opener[i] \in Sockets /\ socket[opener[i]].user = w /\ Serving(opener[i])
      BY <2>1, <3>1 DEF OnOne
    <3>3. QED BY <1>4, <3>1, <3>2 DEF Serving
  <2>4. ASSUME NEW v \in Sockets, Stream!At(v, "polling")'
        PROVE  socket'[v].sub \in Stream!Mine(v)'
    <3>1. v # s /\ socket'[v] = socket[v] /\ Stream!At(v, "polling")
      BY <1>1, <1>4, <2>4 DEF Stream!At
    <3>2. socket[v].user # socket[s].user /\ socket[v].user \in Users
      BY <2>1, <3>1 DEF OnOne, Stream!Live, Serving, Stream!At, StreamInv, Users_
    <3>3. socket[v].sub \in Stream!Mine(v)
      BY <2>1, <3>1 DEF OnOne
    <3>4. QED BY <1>4, <3>1, <3>2, <3>3 DEF Stream!Mine
  <2>5. QED BY <2>2, <2>3, <2>4 DEF OnOne
<1>9. QED BY <1>3, <1>5, <1>6, <1>7, <1>8 DEF StreamInv

LEMMA StreamSubscribe ==
  ASSUME StreamInv, NEW s \in Sockets, NEW i \in SubIds, Stream!Subscribe(s, i), Watched
  PROVE  StreamInv'
<1> DEFINE q == [socket[s] EXCEPT !.at = "polling", !.sub = i]
<1>1. /\ q \in Stream!Socket /\ q.at = "polling" /\ q.user = socket[s].user /\ q.sub = i
      /\ socket[s].user \in Users /\ socket[s].at = "receiving"
  BY DEF StreamInv, Stream!TypeOK, Stream!Socket, Users_, Stream!Subscribe, Stream!At
<1>2. /\ socket' = [socket EXCEPT ![s] = q]
      /\ subscriptions' = [subscriptions EXCEPT ![socket[s].user] = @ \cup {i}]
      /\ opener' = [opener EXCEPT ![i] = s] /\ opener[i] \notin Sockets
      /\ connections' = connections
  BY MCParameters DEF Stream!Subscribe, Stream!Used, Stream!Parameters
<1> HIDE DEF q
<1>3. Stream!TypeOK'
  BY <1>1, <1>2 DEF StreamInv, Stream!TypeOK
<1>4. /\ \A v \in Sockets : socket'[v] = IF v = s THEN q ELSE socket[v]
      /\ \A w \in Users : subscriptions'[w] = IF w = socket[s].user THEN subscriptions[w] \cup {i} ELSE subscriptions[w]
      /\ \A k \in SubIds : opener'[k] = IF k = i THEN s ELSE opener[k]
  BY <1>2 DEF StreamInv, Stream!TypeOK
<1>5. Users_'
  BY <1>1, <1>4 DEF StreamInv, Users_, Stream!At
<1>6. Counted'
  <2> SUFFICES ASSUME NEW w \in Users
               PROVE  connections'[w] = {v \in Sockets : socket'[v].user = w /\ (Stream!Live(v)' \/ Stream!At(v, "leaked")')}
    BY <1>2 DEF StreamInv, Counted
  <2>1. connections[w] = {v \in Sockets : socket[v].user = w /\ (Stream!Live(v) \/ Stream!At(v, "leaked"))}
    BY DEF StreamInv, Counted
  <2>2. \A v \in Sockets : /\ socket'[v].user = socket[v].user
                           /\ Stream!Live(v)' \/ Stream!At(v, "leaked")' <=> Stream!Live(v) \/ Stream!At(v, "leaked")
    BY <1>1, <1>4 DEF Stream!Live, Stream!At
  <2>3. QED BY <1>2, <2>1, <2>2
<1>7. Kept'
  <2> SUFFICES ASSUME NEW w \in Users, subscriptions'[w] # {}
               PROVE  \E v \in Sockets : socket'[v].user = w /\ Serving(v)'
    BY DEF Kept
  <2>1. CASE w = socket[s].user
    BY <1>1, <1>4, <2>1 DEF Serving
  <2>2. CASE w # socket[s].user
    <3>1. PICK v \in Sockets : socket[v].user = w /\ Serving(v)
      BY <1>4, <2>2 DEF StreamInv, Kept
    <3>2. v # s /\ socket'[v] = socket[v]
      BY <1>4, <2>2, <3>1
    <3>3. QED BY <3>1, <3>2 DEF Serving
  <2>3. QED BY <2>1, <2>2
<1>8. OnOne'
  <2> SUFFICES ASSUME ~together'
               PROVE  OnOne'
    BY DEF OnOne
  <2>1. OnOne /\ ~together /\ ~Together
    BY DEF Watched, StreamInv
  <2>2. ASSUME NEW v \in Sockets, NEW w \in Sockets \ {v}, socket'[v].user = socket'[w].user
        PROVE  ~(Stream!Live(v)' /\ Stream!Live(w)')
    BY <2>1, <2>2 DEF Together, Stream!Live
  <2>3. ASSUME NEW w \in Users, NEW k \in subscriptions'[w]
        PROVE  opener'[k] \in Sockets /\ socket'[opener'[k]].user = w /\ Serving(opener[k])'
    <3>1. CASE k \in subscriptions[w]
      <4>1. /\ opener[k] \in Sockets /\ socket[opener[k]].user = w /\ Serving(opener[k])
            /\ k \in SubIds
        BY <2>1, <3>1 DEF OnOne, StreamInv, Stream!TypeOK
      <4>2. opener'[k] = opener[k]
        BY <1>2, <1>4, <4>1
      <4>3. QED BY <1>1, <1>4, <4>1, <4>2 DEF Serving
    <3>2. CASE k \notin subscriptions[w]
      <4>1. w = socket[s].user /\ k = i /\ opener'[k] = s
        BY <1>4, <2>3, <3>2
      <4>2. QED BY <1>1, <1>4, <4>1 DEF Serving
    <3>3. QED BY <3>1, <3>2
  <2>4. ASSUME NEW v \in Sockets, Stream!At(v, "polling")'
        PROVE  socket'[v].sub \in Stream!Mine(v)'
    <3>1. CASE v = s
      BY <1>1, <1>4, <3>1 DEF Stream!Mine
    <3>2. CASE v # s
      <4>1. /\ socket'[v] = socket[v] /\ socket[v].sub \in Stream!Mine(v)
            /\ socket[v].user \in Users
        BY <1>4, <2>1, <2>4, <3>2 DEF OnOne, Stream!At, StreamInv, Users_
      <4>2. QED BY <1>4, <4>1 DEF Stream!Mine
    <3>3. QED BY <3>1, <3>2
  <2>5. QED BY <2>2, <2>3, <2>4 DEF OnOne
<1>9. QED BY <1>3, <1>5, <1>6, <1>7, <1>8 DEF StreamInv

LEMMA StreamUnsubscribe ==
  ASSUME StreamInv, NEW s \in Sockets, NEW i \in SubIds, Stream!Unsubscribe(s, i), Watched
  PROVE  StreamInv'
<1>1. /\ socket[s].at = "receiving" /\ socket[s].user \in Users
      /\ subscriptions' = [subscriptions EXCEPT ![socket[s].user] = @ \ {i}]
      /\ connections' = connections /\ socket' = socket /\ opener' = opener
  BY DEF StreamInv, Users_, Stream!Unsubscribe, Stream!At
<1>2. \A w \in Users : subscriptions'[w] = IF w = socket[s].user THEN subscriptions[w] \ {i} ELSE subscriptions[w]
  BY <1>1 DEF StreamInv, Stream!TypeOK
<1>3. Stream!TypeOK' /\ Kept'
  BY <1>1, <1>2 DEF StreamInv, Stream!TypeOK, Kept, Serving
<1> Users_' /\ Counted'
  BY <1>1 DEF StreamInv, Users_, Counted, Stream!Live, Stream!At
<1>4. OnOne'
  <2> SUFFICES ASSUME ~together'
               PROVE  OnOne'
    BY DEF OnOne
  <2>1. OnOne /\ ~together
    BY DEF Watched, StreamInv
  <2>2. ASSUME NEW v \in Sockets, NEW w \in Sockets \ {v}, socket'[v].user = socket'[w].user
        PROVE  ~(Stream!Live(v)' /\ Stream!Live(w)')
    BY <1>1, <2>1, <2>2 DEF OnOne, Stream!Live
  <2>3. ASSUME NEW w \in Users, NEW k \in subscriptions'[w]
        PROVE  opener'[k] \in Sockets /\ socket'[opener'[k]].user = w /\ Serving(opener[k])'
    BY <1>1, <1>2, <2>1, <2>3 DEF OnOne, Serving
  <2>4. ASSUME NEW v \in Sockets, Stream!At(v, "polling")'
        PROVE  socket'[v].sub \in Stream!Mine(v)'
    <3>1. socket[v].at = "polling" /\ v # s /\ socket[v].user \in Users /\ socket[v].sub \in Stream!Mine(v)
      BY <1>1, <2>1, <2>4 DEF OnOne, Stream!At, StreamInv, Users_
    <3>2. socket[v].user # socket[s].user
      BY <1>1, <2>1, <3>1 DEF OnOne, Stream!Live
    <3>3. QED BY <1>1, <1>2, <3>1, <3>2 DEF Stream!Mine
  <2>5. QED BY <2>2, <2>3, <2>4 DEF OnOne
<1>5. QED BY <1>3, <1>4 DEF StreamInv

\* A poll ends one way or the other.
LEMMA StreamPoll ==
  ASSUME StreamInv, NEW s \in Sockets, Stream!Poll(s), Watched
  PROVE  StreamInv'
<1>1. Serving(s) /\ Stream!Live(s) /\ socket[s].at = "polling"
  BY DEF Stream!Poll, Stream!At, Serving, Stream!Live
<1>2. CASE socket[s].sub \in Stream!Mine(s) /\ ~socket[s].lost
  <2> DEFINE q == [socket[s] EXCEPT !.at = "receiving", !.sub = NoSub]
  <2>1. q \in Stream!Socket /\ q.at = "receiving" /\ q.user = socket[s].user
    BY DEF StreamInv, Stream!TypeOK, Stream!Socket
  <2>2. socket' = [socket EXCEPT ![s] = q] /\ UNCHANGED <<connections, subscriptions, opener>>
    BY <1>2 DEF Stream!Poll
  <2> HIDE DEF q
  <2>3. QED BY <1>1, <2>1, <2>2, StreamGoesOn
<1>3. CASE ~(socket[s].sub \in Stream!Mine(s) /\ ~socket[s].lost)
  BY <1>1, <1>3, StreamEnds DEF Stream!Poll
<1>4. QED BY <1>2, <1>3

\* The client goes away.
LEMMA StreamLose ==
  ASSUME StreamInv, NEW s \in Sockets, Stream!Lose(s), Watched
  PROVE  StreamInv'
<1> DEFINE q == [socket[s] EXCEPT !.lost = TRUE]
<1>1. /\ q \in Stream!Socket /\ q.at = socket[s].at /\ q.user = socket[s].user
      /\ q.sub = socket[s].sub /\ Stream!Live(s)
  BY DEF StreamInv, Stream!TypeOK, Stream!Socket, Stream!Lose, Stream!Live
<1>2. socket' = [socket EXCEPT ![s] = q] /\ UNCHANGED <<connections, subscriptions, opener>>
  BY DEF Stream!Lose
<1> HIDE DEF q
<1>3. QED BY <1>1, <1>2, StreamGoesOn DEF Serving, Stream!Live

\* A greeting that is heard, or raises.
LEMMA StreamGreet ==
  ASSUME StreamInv, NEW s \in Sockets, Stream!Greet(s), Watched
  PROVE  StreamInv'
<1>1. /\ Stream!Live(s) /\ ~Serving(s) /\ UNCHANGED <<connections, subscriptions, opener>>
      /\ socket[s] \in Stream!Socket
  BY DEF Stream!Greet, Stream!At, Stream!Live, Serving, StreamInv, Stream!TypeOK
<1>2. CASE socket' = [socket EXCEPT ![s] = [@ EXCEPT !.at = "receiving", !.sub = NoSub]]
  <2> DEFINE q == [socket[s] EXCEPT !.at = "receiving", !.sub = NoSub]
  <2>1. q \in Stream!Socket /\ q.at = "receiving" /\ q.user = socket[s].user
    BY <1>1 DEF Stream!Socket
  <2>2. socket' = [socket EXCEPT ![s] = q]
    BY <1>2
  <2> HIDE DEF q
  <2>3. QED BY <1>1, <2>1, <2>2, StreamGoesOn
<1>3. CASE socket' = [socket EXCEPT ![s].at = "leaked"]
  <2> DEFINE q == [socket[s] EXCEPT !.at = "leaked"]
  <2>1. q \in Stream!Socket /\ q.at = "leaked" /\ q.user = socket[s].user
    BY <1>1 DEF Stream!Socket
  <2>2. socket' = [socket EXCEPT ![s] = q]
    BY <1>3
  <2> HIDE DEF q
  <2>3. QED BY <1>1, <2>1, <2>2, StreamGoesOn
<1>4. QED BY <1>2, <1>3 DEF Stream!Greet

LEMMA StreamStep ==
  ASSUME StreamInv, \/ Stream!Next /\ Watched
                    \/ UNCHANGED streamVars
  PROVE  StreamInv'
<1>1. ASSUME NEW s \in Sockets, Stream!Handler(s), Watched
      PROVE  StreamInv'
  <2>1. CASE Stream!Break(s)
    BY <1>1, <2>1, StreamEnds DEF Stream!Break, Serving, Stream!At
  <2>2. QED BY <1>1, <2>1, StreamGreet, StreamPoll, StreamSubscribe, StreamUnsubscribe DEF Stream!Handler
<1>2. CASE Stream!Next /\ Watched
  BY <1>1, <1>2, StreamOpen, StreamLose DEF Stream!Next
<1>3. CASE UNCHANGED streamVars
  BY <1>3 DEF streamVars, StreamInv, Stream!TypeOK, Users_, Counted, Kept, OnOne, Serving,
              Stream!Live, Stream!At, Stream!Mine
<1>4. QED BY <1>2, <1>3

LEMMA StreamInit ==
  ASSUME Stream!Init, together = FALSE
  PROVE  StreamInv
<1>1. Stream!Unborn \in Stream!Socket /\ Stream!Unborn.at = "unborn"
  BY DEF Stream!Unborn, Stream!Socket
<1>2. Stream!TypeOK
  BY <1>1 DEF Stream!Init, Stream!TypeOK
<1>3. \A s \in Sockets : socket[s].at = "unborn"
  BY <1>1 DEF Stream!Init
<1>4. Users_ /\ Kept
  BY <1>3 DEF Stream!Init, Users_, Kept, Stream!At
<1>5. Counted
  <2>1. IsFiniteSet({}) /\ Cardinality({}) = 0
    BY FS_EmptySet
  <2>2. 0 <= MaxConnections
    BY MCParameters DEF Stream!Parameters
  <2>3. QED BY <1>3, <2>1, <2>2 DEF Counted, Stream!Init, Stream!Live, Stream!At
<1>6. OnOne
  BY <1>3 DEF OnOne, Stream!Init, Stream!Live, Stream!At
<1>7. QED BY <1>2, <1>4, <1>5, <1>6 DEF StreamInv

LEMMA StreamInvFits ==
  ASSUME StreamInv
  PROVE  Stream!PlacesCounted /\ Stream!NoneOutlives
<1>1. Stream!NoneOutlives
  BY DEF StreamInv, Kept, Serving, Stream!NoneOutlives, Stream!Live
<1>2. Stream!PlacesCounted
  BY SameCardinality DEF StreamInv, Counted, Stream!PlacesCounted
<1>3. QED BY <1>1, <1>2

\* A subscription that goes away while the user's sockets are one at a time.
LEMMA SerialGone ==
  ASSUME StreamInv, Stream!Next /\ Watched, ~together', NEW u \in Users,
         NEW i \in subscriptions[u] \ subscriptions'[u]
  PROVE  \/ socket'[opener[i]].at = "ended" /\ (socket[opener[i]].lost \/ Stream!At(opener[i], "receiving"))
         \/ subscriptions[u] \ subscriptions'[u] = {i} /\ socket' = socket
<1>1. OnOne /\ ~together
  BY DEF StreamInv, Watched
<1>2. opener[i] \in Sockets /\ socket[opener[i]].user = u /\ Serving(opener[i])
  BY <1>1 DEF OnOne
<1>3. subscriptions # subscriptions'
  OBVIOUS
<1>4. ASSUME NEW s \in Sockets, Stream!Finish(s), Serving(s)
      PROVE  opener[i] = s /\ socket'[s].at = "ended"
  <2>1. socket[s].user \in Users
    BY <1>4 DEF StreamInv, Users_, Serving, Stream!At
  <2>2. u = socket[s].user
    BY <1>4, <2>1 DEF Stream!Finish, StreamInv, Stream!TypeOK
  <2>3. opener[i] = s
    BY <1>1, <1>2, <1>4, <2>2 DEF OnOne, Serving, Stream!Live
  <2>4. QED BY <1>4, <2>3 DEF Stream!Finish, StreamInv, Stream!TypeOK, Stream!Socket
<1>5. PICK s \in Sockets : Stream!Break(s) \/ Stream!Poll(s) \/ \E k \in SubIds : Stream!Subscribe(s, k) \/ Stream!Unsubscribe(s, k)
  BY <1>3 DEF Stream!Next, Stream!Handler, Stream!Open, Stream!Lose, Stream!Greet
<1>6. CASE Stream!Break(s)
  BY <1>4, <1>6 DEF Stream!Break, Serving, Stream!At
<1>7. CASE Stream!Poll(s)
  <2>1. socket[s].at = "polling" /\ socket[s].sub \in Stream!Mine(s)
    BY <1>1, <1>7 DEF Stream!Poll, OnOne, Stream!At
  <2>2. socket[s].lost /\ Stream!Finish(s)
    BY <1>3, <1>7, <2>1 DEF Stream!Poll
  <2>3. QED BY <1>4, <2>1, <2>2 DEF Serving
<1>8. ASSUME NEW k \in SubIds, Stream!Subscribe(s, k) \/ Stream!Unsubscribe(s, k)
      PROVE  subscriptions[u] \ subscriptions'[u] = {i} /\ socket' = socket
  <2>1. subscriptions \in [Users -> SUBSET SubIds] /\ socket[s].user \in Users
    BY <1>8 DEF StreamInv, Stream!TypeOK, Users_, Stream!At, Stream!Subscribe, Stream!Unsubscribe
  <2>2. CASE Stream!Subscribe(s, k)
    BY <2>1, <2>2 DEF Stream!Subscribe
  <2>3. CASE Stream!Unsubscribe(s, k)
    BY <2>1, <2>3 DEF Stream!Unsubscribe
  <2>4. QED BY <1>8, <2>2, <2>3
<1>9. QED BY <1>5, <1>6, <1>7, <1>8

-----------------------------------------------------------------------------
(* Quotes: the answers                                                     *)

\* The symbols of the quotes a request has so far.
Found(r) == {i.of : i \in r.items}

\* What is to be looked up, what was missed and what was found are all that was
\* asked for, and are apart, but for the symbol that is looked up right now.
Split(r, left) ==
  /\ \A x : x \in r.asked <=> x \in r.todo \/ x \in r.missed \/ x \in Found(r)
  /\ \A x \in Found(r) : x \notin left /\ x \notin r.missed
  /\ left \cap r.missed = {}

\* The quotes of a request: of what was asked for, one of a symbol.
ItemsFit(r, now) ==
  /\ \A i \in r.items : /\ i.of \in r.asked
                        /\ i.hit => i.seen < i.stored + Ttl
                        /\ i.taken <= i.stored /\ i.taken <= now
  /\ \A i, k \in r.items : i.of = k.of => i = k

FetchedAll(r, S) == \A x \in S : \E i \in r.items : i.of = x /\ ~i.hit

RequestFits(r, now) ==
  /\ r.at # "idle" => r.user \in Asker
  /\ ItemsFit(r, now)
  /\ r.at \in {"prune", "pop", "count", "append", "look"} => Split(r, r.todo)
  /\ r.at = "evict" => \E x : r.todo \cap r.missed = {x} /\ Split(r, r.todo \ {x})
  /\ r.at = "fetch" => /\ \A x : x \in r.asked <=> x \in r.todo \/ x \in Found(r)
                       /\ \A x \in Found(r) : x \notin r.todo
                       /\ r.todo \subseteq r.missed /\ FetchedAll(r, r.missed \ r.todo)
  /\ r.at = "store" => r.todo \subseteq r.missed /\ FetchedAll(r, r.missed)
  /\ r.at \in {"store", "answered"} => r.asked = Found(r)

CacheFits ==
  \A s \in Symbols : cache[s] # NoEntry =>
    cache[s].of = s /\ cache[s].taken <= clock /\ cache[s].taken + Ttl <= cache[s].expires

AnswersInv == Quotes!TypeOK /\ CacheFits /\ \A t \in Threads : RequestFits(thread[t], clock)

LEMMA IdleFits == Quotes!Idle \in Quotes!Request /\ \A now \in Nat : RequestFits(Quotes!Idle, now)
BY LimitAssumption DEF Quotes!Idle, Quotes!Request, Quotes!Stages, Quotes!Times, RequestFits, ItemsFit

\* A request goes on and the others, the cache and the clock stay.
LEMMA RequestGoesOn ==
  ASSUME AnswersInv, NEW t \in Threads, NEW r \in Quotes!Request, RequestFits(r, clock),
         thread' = [thread EXCEPT ![t] = r], clock' = clock, health' \in Failure \cup {"ok"},
         cache' \in [Symbols -> Quotes!Entry \cup {NoEntry}], CacheFits',
         events' \in [Asker -> Seq(Quotes!Times)], granted' \in [Asker -> Seq(Quotes!Times)]
  PROVE  AnswersInv'
<1>1. \A v \in Threads : thread'[v] = IF v = t THEN r ELSE thread[v]
  BY DEF AnswersInv, Quotes!TypeOK
<1>2. Quotes!TypeOK'
  BY DEF AnswersInv, Quotes!TypeOK
<1>3. ASSUME NEW v \in Threads
      PROVE  RequestFits(thread[v], clock)'
  <2>1. CASE v = t
    BY <1>1, <2>1 DEF RequestFits, ItemsFit, Split, FetchedAll, Found
  <2>2. CASE v # t
    <3>1. RequestFits(thread[v], clock) /\ thread'[v] = thread[v]
      BY <1>1, <2>2 DEF AnswersInv
    <3>2. QED BY <3>1 DEF RequestFits, ItemsFit, Split, FetchedAll, Found
  <2>3. QED BY <2>1, <2>2
<1>4. QED BY <1>2, <1>3 DEF AnswersInv

\* Once a symbol has been looked up, missed or found, the request goes on with
\* the others, or with what was missed.
LEMMA LookedFits ==
  ASSUME NEW r \in Quotes!Request, NEW now, NEW s \in r.todo, r.user \in Asker,
         ItemsFit(r, now), Split(r, r.todo \ {s}), s \in r.missed \/ s \in Found(r)
  PROVE  Quotes!Looked(r, s) \in Quotes!Request /\ RequestFits(Quotes!Looked(r, s), now)
<1> DEFINE left == r.todo \ {s}
           a == [r EXCEPT !.at = "look", !.todo = left]
           b == [r EXCEPT !.at = IF r.missed = {} THEN "answered" ELSE "fetch", !.todo = r.missed]
<1>1. left \subseteq Symbols /\ r.missed \subseteq Symbols
  BY DEF Quotes!Request
<1>2. CASE left # {}
  <2>1. Quotes!Looked(r, s) = a
    BY <1>2 DEF Quotes!Looked
  <2>2. /\ a \in Quotes!Request /\ a.at = "look" /\ a.todo = left /\ a.missed = r.missed
        /\ a.items = r.items /\ a.asked = r.asked /\ a.user = r.user
    BY <1>1 DEF Quotes!Request, Quotes!Stages
  <2> HIDE DEF a
  <2>3. Split(a, a.todo) /\ ItemsFit(a, now)
    BY <2>2 DEF Split, Found, ItemsFit
  <2>4. QED BY <2>1, <2>2, <2>3 DEF RequestFits
<1>3. CASE left = {}
  <2>1. Quotes!Looked(r, s) = b
    BY <1>3 DEF Quotes!Looked
  <2>2. /\ b \in Quotes!Request /\ b.at = (IF r.missed = {} THEN "answered" ELSE "fetch")
        /\ b.todo = r.missed /\ b.missed = r.missed
        /\ b.items = r.items /\ b.asked = r.asked /\ b.user = r.user
    BY <1>1 DEF Quotes!Request, Quotes!Stages
  <2> HIDE DEF b
  <2>3. ItemsFit(b, now) /\ Found(b) = Found(r)
    BY <2>2 DEF Found, ItemsFit
  <2>4. \A x : x \in r.asked <=> x \in r.missed \/ x \in Found(r)
    BY <1>3 DEF Split
  <2>5. CASE r.missed = {}
    <3>1. b.asked = Found(b)
      BY <2>2, <2>3, <2>4, <2>5
    <3>2. QED BY <2>1, <2>2, <2>3, <2>5, <3>1 DEF RequestFits
  <2>6. CASE r.missed # {}
    <3>1. \A x \in Found(b) : x \notin b.todo
      BY <2>2, <2>3 DEF Split
    <3>2. QED BY <2>1, <2>2, <2>3, <2>4, <2>6, <3>1 DEF RequestFits, FetchedAll
  <2>7. QED BY <2>5, <2>6
<1>4. QED BY <1>2, <1>3

\* A request that goes to another place and keeps what it has.
LEMMA PlaceFits ==
  ASSUME NEW q \in Quotes!Request, NEW now, RequestFits(q, now), q.at # "idle",
         NEW p \in Quotes!Stages,
         \/ p \in {"refused", "failed"}
         \/ /\ q.at \in {"prune", "pop", "count", "append"}
            /\ p \in {"prune", "pop", "count", "append", "look"}
  PROVE  [q EXCEPT !.at = p] \in Quotes!Request /\ RequestFits([q EXCEPT !.at = p], now)
<1> DEFINE r == [q EXCEPT !.at = p]
<1>1. /\ r \in Quotes!Request /\ r.at = p /\ r.todo = q.todo /\ r.missed = q.missed
      /\ r.items = q.items /\ r.asked = q.asked /\ r.user = q.user
  BY DEF Quotes!Request
<1> HIDE DEF r
<1>2. ItemsFit(r, now)
  BY <1>1 DEF RequestFits, ItemsFit
<1>3. p \in {"prune", "pop", "count", "append", "look"} => Split(r, r.todo)
  BY <1>1 DEF RequestFits, Split, Found
<1>4. p \notin {"evict", "fetch", "store", "answered"}
  OBVIOUS
<1>5. RequestFits(r, now)
  BY <1>1, <1>2, <1>3, <1>4 DEF RequestFits
<1>6. QED BY <1>1, <1>5 DEF r

LEMMA AnswersStart ==
  ASSUME AnswersInv, NEW t \in Threads, NEW u \in Asker, NEW S \in SUBSET Symbols,
         Quotes!StartQuotes(t, u, S)
  PROVE  AnswersInv'
<1> DEFINE r == [Quotes!Idle EXCEPT !.at = "prune", !.user = u, !.now = clock, !.asked = S, !.todo = S]
<1>1. /\ r \in Quotes!Request /\ r.at = "prune" /\ r.todo = S /\ r.missed = {}
      /\ r.items = {} /\ r.asked = S /\ r.user = u
  BY IdleFits DEF Quotes!Idle, Quotes!Request, Quotes!Stages, AnswersInv, Quotes!TypeOK
<1>2. thread' = [thread EXCEPT ![t] = r] /\ UNCHANGED <<clock, events, cache, health, granted>>
  BY DEF Quotes!StartQuotes, Quotes!Goto
<1> HIDE DEF r
<1>3. RequestFits(r, clock)
  BY <1>1 DEF RequestFits, ItemsFit, Split, Found
<1>4. QED BY <1>1, <1>2, <1>3, RequestGoesOn DEF AnswersInv, Quotes!TypeOK, CacheFits

\* The limiter moves the request and its own times only.
LEMMA AnswersConsume ==
  ASSUME AnswersInv, NEW t \in Threads, Quotes!Consume(t)
  PROVE  AnswersInv'
<1>1. thread[t] \in Quotes!Request /\ RequestFits(thread[t], clock)
  BY DEF AnswersInv, Quotes!TypeOK
<1>2. /\ thread[t].at \in {"prune", "pop", "count", "append"} /\ thread[t].user \in Asker
      /\ UNCHANGED <<clock, cache, health>>
  BY <1>1 DEF Quotes!Consume, Quotes!Prune, Quotes!Pop, Quotes!Count, Quotes!Grant, Quotes!At, RequestFits
<1>3. ASSUME NEW p \in {"prune", "pop", "count", "append", "look", "refused", "failed"},
             Quotes!Step(t, p), events' \in [Asker -> Seq(Quotes!Times)],
             granted' \in [Asker -> Seq(Quotes!Times)]
      PROVE  AnswersInv'
  <2> DEFINE r == [thread[t] EXCEPT !.at = p]
  <2>1. r \in Quotes!Request /\ RequestFits(r, clock)
    BY <1>1, <1>2, PlaceFits DEF Quotes!Stages
  <2>2. thread' = [thread EXCEPT ![t] = r]
    BY <1>3 DEF Quotes!Step
  <2> HIDE DEF r
  <2>3. QED BY <1>2, <1>3, <2>1, <2>2, RequestGoesOn DEF AnswersInv, Quotes!TypeOK, CacheFits
<1>4. events \in [Asker -> Seq(Quotes!Times)] /\ granted \in [Asker -> Seq(Quotes!Times)]
      /\ thread[t].now \in Quotes!Times
  BY <1>1 DEF AnswersInv, Quotes!TypeOK, Quotes!Request
<1>5. CASE Quotes!Prune(t)
  BY <1>3, <1>4, <1>5 DEF Quotes!Prune
<1>6. CASE Quotes!Pop(t)
  <2>1. CASE Quotes!Deque(t) = <<>>
    BY <1>3, <1>4, <1>6, <2>1 DEF Quotes!Pop
  <2>2. CASE Quotes!Deque(t) # <<>>
    <3>1. Tail(events[thread[t].user]) \in Seq(Quotes!Times)
      BY <1>2, <1>4, <2>2 DEF Quotes!Deque
    <3>2. events' \in [Asker -> Seq(Quotes!Times)] /\ granted' = granted /\ Quotes!Step(t, "prune")
      BY <1>4, <1>6, <2>2, <3>1 DEF Quotes!Pop
    <3>3. QED BY <1>3, <1>4, <3>2
  <2>3. QED BY <2>1, <2>2
<1>7. CASE Quotes!Count(t)
  BY <1>3, <1>4, <1>7 DEF Quotes!Count
<1>8. CASE Quotes!Grant(t)
  <2>1. /\ Append(events[thread[t].user], thread[t].now) \in Seq(Quotes!Times)
        /\ Append(granted[thread[t].user], thread[t].now) \in Seq(Quotes!Times)
    BY <1>2, <1>4
  <2>2. events' \in [Asker -> Seq(Quotes!Times)] /\ granted' \in [Asker -> Seq(Quotes!Times)]
        /\ Quotes!Step(t, "look")
    BY <1>4, <1>8, <2>1 DEF Quotes!Grant
  <2>3. QED BY <1>3, <2>2
<1>9. QED BY <1>5, <1>6, <1>7, <1>8 DEF Quotes!Consume

LEMMA AnswersLook ==
  ASSUME AnswersInv, NEW t \in Threads, NEW s \in Symbols, Quotes!Look(t, s)
  PROVE  AnswersInv'
<1> DEFINE q == thread[t]
<1>1. q \in Quotes!Request /\ RequestFits(q, clock) /\ clock \in Quotes!Times
  BY DEF AnswersInv, Quotes!TypeOK
<1>2. /\ q.at = "look" /\ s \in q.todo /\ q.user \in Asker /\ Split(q, q.todo) /\ ItemsFit(q, clock)
      /\ UNCHANGED <<clock, events, cache, health, granted>>
  BY <1>1 DEF Quotes!Look, Quotes!At, RequestFits
<1>3. ASSUME NEW r \in Quotes!Request, RequestFits(r, clock), thread' = [thread EXCEPT ![t] = r]
      PROVE  AnswersInv'
  BY <1>2, <1>3, RequestGoesOn DEF AnswersInv, Quotes!TypeOK, CacheFits
<1> HIDE DEF q
<1>4. CASE cache[s] = NoEntry
  <2> DEFINE m == [q EXCEPT !.missed = @ \cup {s}]
  <2>1. /\ m \in Quotes!Request /\ m.todo = q.todo /\ m.missed = q.missed \cup {s}
        /\ m.items = q.items /\ m.asked = q.asked /\ m.user = q.user
    BY <1>1 DEF Quotes!Request
  <2>2. thread' = [thread EXCEPT ![t] = Quotes!Looked(m, s)]
    BY <1>4 DEF Quotes!Look, Quotes!Goto, Quotes!Missing, q
  <2> HIDE DEF m
  <2>3. ItemsFit(m, clock) /\ Split(m, m.todo \ {s})
    BY <1>2, <2>1 DEF ItemsFit, Split, Found
  <2>4. QED BY <1>2, <1>3, <2>1, <2>2, <2>3, LookedFits
<1>5. CASE cache[s] # NoEntry /\ clock < cache[s].expires
  <2> DEFINE e == cache[s]
             new == [of |-> e.of, taken |-> e.taken, hit |-> TRUE, seen |-> clock, stored |-> e.expires - Ttl]
             m == [q EXCEPT !.items = @ \cup {new}]
  <2>1. e \in Quotes!Entry /\ e.of = s /\ e.taken <= clock /\ e.taken + Ttl <= e.expires
    BY <1>5 DEF AnswersInv, CacheFits, Quotes!TypeOK
  <2>2. e.taken \in Nat /\ e.expires \in 0..(MaxClock + Ttl) /\ Ttl \in Nat /\ MaxClock \in Nat /\ clock \in Nat
    BY <1>1, <2>1, LimitAssumption DEF Quotes!Entry, Quotes!Times
  <2>3. e.expires - Ttl \in 0..MaxClock /\ e.taken <= e.expires - Ttl /\ clock < (e.expires - Ttl) + Ttl
    BY <1>5, <2>1, <2>2
  <2>4. new \in Quotes!Item /\ new.of = s /\ new.taken <= new.stored /\ new.taken <= clock
        /\ new.seen < new.stored + Ttl
    BY <1>1, <2>1, <2>3 DEF Quotes!Item, Quotes!Entry, Quotes!Times
  <2>5. thread' = [thread EXCEPT ![t] = Quotes!Looked(m, s)]
    BY <1>5 DEF Quotes!Look, Quotes!Goto, Quotes!Hit, q
  <2> HIDE DEF new
  <2>6. /\ m \in Quotes!Request /\ m.todo = q.todo /\ m.missed = q.missed
        /\ m.items = q.items \cup {new} /\ m.asked = q.asked /\ m.user = q.user
    BY <1>1, <2>4 DEF Quotes!Request
  <2> HIDE DEF m, e
  <2>7. \A x : x \in Found(m) <=> x \in Found(q) \/ x = s
    BY <2>4, <2>6 DEF Found
  <2>8. s \notin Found(q) /\ s \in q.asked /\ s \notin q.missed
    BY <1>2 DEF Split
  <2>9. ItemsFit(m, clock)
    BY <1>2, <2>4, <2>6, <2>8 DEF ItemsFit, Found
  <2>10. Split(m, m.todo \ {s})
    BY <1>2, <2>6, <2>7, <2>8 DEF Split
  <2>11. QED BY <1>2, <1>3, <2>5, <2>6, <2>7, <2>9, <2>10, LookedFits
<1>6. CASE cache[s] # NoEntry /\ ~(clock < cache[s].expires)
  <2> DEFINE m == [q EXCEPT !.at = "evict", !.missed = @ \cup {s}]
  <2>1. /\ m \in Quotes!Request /\ m.at = "evict" /\ m.todo = q.todo /\ m.missed = q.missed \cup {s}
        /\ m.items = q.items /\ m.asked = q.asked /\ m.user = q.user
    BY <1>1 DEF Quotes!Request, Quotes!Stages
  <2>2. thread' = [thread EXCEPT ![t] = m]
    BY <1>6 DEF Quotes!Look, Quotes!Goto, q
  <2> HIDE DEF m
  <2>3. ItemsFit(m, clock) /\ Split(m, m.todo \ {s}) /\ m.todo \cap m.missed = {s}
    BY <1>2, <2>1 DEF ItemsFit, Split, Found
  <2>4. QED BY <1>2, <1>3, <2>1, <2>2, <2>3 DEF RequestFits
<1>7. QED BY <1>4, <1>5, <1>6

LEMMA AnswersEvict ==
  ASSUME AnswersInv, NEW t \in Threads, Quotes!Evict(t)
  PROVE  AnswersInv'
<1>1. thread[t] \in Quotes!Request /\ RequestFits(thread[t], clock) /\ thread[t].at = "evict"
  BY DEF AnswersInv, Quotes!TypeOK, Quotes!Evict, Quotes!At
<1>2. PICK x : thread[t].todo \cap thread[t].missed = {x} /\ Split(thread[t], thread[t].todo \ {x})
  BY <1>1 DEF RequestFits
<1>3. (CHOOSE y \in thread[t].todo \cap thread[t].missed : TRUE) = x
  BY <1>2
<1>4. /\ cache' = [cache EXCEPT ![x] = NoEntry]
      /\ thread' = [thread EXCEPT ![t] = Quotes!Looked(thread[t], x)]
      /\ UNCHANGED <<clock, events, health, granted>>
  BY <1>3 DEF Quotes!Evict, Quotes!Goto
<1>5. x \in thread[t].todo /\ x \in thread[t].missed
  BY <1>2
<1>6. /\ Quotes!Looked(thread[t], x) \in Quotes!Request
      /\ RequestFits(Quotes!Looked(thread[t], x), clock)
  BY <1>1, <1>2, <1>5, LookedFits DEF RequestFits
<1>7. cache' \in [Symbols -> Quotes!Entry \cup {NoEntry}] /\ CacheFits'
  BY <1>4 DEF AnswersInv, Quotes!TypeOK, CacheFits
<1>8. QED BY <1>4, <1>6, <1>7, RequestGoesOn DEF AnswersInv, Quotes!TypeOK

LEMMA AnswersFetch ==
  ASSUME AnswersInv, NEW t \in Threads, NEW s \in Symbols, Quotes!Fetch(t, s)
  PROVE  AnswersInv'
<1> DEFINE q == thread[t]
           left == q.todo \ {s}
           new == [of |-> s, taken |-> clock, hit |-> FALSE, seen |-> clock, stored |-> clock]
           r == [q EXCEPT !.at = IF left = {} THEN "store" ELSE "fetch",
                          !.todo = IF left = {} THEN q.missed ELSE left,
                          !.items = @ \cup {new}]
<1>1. q \in Quotes!Request /\ RequestFits(q, clock) /\ clock \in Quotes!Times /\ q.at = "fetch" /\ s \in q.todo
  BY DEF AnswersInv, Quotes!TypeOK, Quotes!Fetch, Quotes!At
<1>2. /\ q.user \in Asker /\ ItemsFit(q, clock) /\ q.todo \subseteq q.missed
      /\ FetchedAll(q, q.missed \ q.todo)
      /\ \A x : x \in q.asked <=> x \in q.todo \/ x \in Found(q)
      /\ \A x \in Found(q) : x \notin q.todo
  BY <1>1 DEF RequestFits
<1>3. new \in Quotes!Item /\ new.of = s /\ new.taken = clock /\ new.hit = FALSE /\ new.stored = clock
  BY <1>1 DEF Quotes!Item
<1>4. thread' = [thread EXCEPT ![t] = r] /\ health' = "ok" /\ UNCHANGED <<clock, events, cache, granted>>
  BY DEF Quotes!Fetch, Quotes!Goto, Quotes!Fetched
<1> HIDE DEF new
<1>5. /\ r \in Quotes!Request /\ r.at = (IF left = {} THEN "store" ELSE "fetch")
      /\ r.todo = (IF left = {} THEN q.missed ELSE left) /\ r.missed = q.missed
      /\ r.items = q.items \cup {new} /\ r.asked = q.asked /\ r.user = q.user
  BY <1>1, <1>3 DEF Quotes!Request, Quotes!Stages
<1> HIDE DEF r, q
<1>6. \A x : x \in Found(r) <=> x \in Found(q) \/ x = s
  BY <1>3, <1>5 DEF Found
<1>7. ItemsFit(r, clock)
  BY <1>1, <1>2, <1>3, <1>5, LimitAssumption DEF ItemsFit, Found, Quotes!Times
<1>8. FetchedAll(r, q.missed \ left)
  BY <1>2, <1>3, <1>5 DEF FetchedAll
<1>9. RequestFits(r, clock)
  <2>1. CASE left = {}
    <3>1. r.asked = Found(r)
      BY <1>1, <1>2, <1>5, <1>6, <2>1
    <3>2. FetchedAll(r, r.missed)
      BY <1>5, <1>8, <2>1
    <3>3. QED BY <1>2, <1>5, <1>7, <2>1, <3>1, <3>2 DEF RequestFits
  <2>2. CASE left # {}
    <3>1. /\ \A x : x \in r.asked <=> x \in r.todo \/ x \in Found(r)
          /\ \A x \in Found(r) : x \notin r.todo
          /\ r.todo \subseteq r.missed /\ FetchedAll(r, r.missed \ r.todo)
      BY <1>1, <1>2, <1>5, <1>6, <1>8, <2>2
    <3>2. QED BY <1>2, <1>5, <1>7, <2>2, <3>1 DEF RequestFits
  <2>3. QED BY <2>1, <2>2
<1>10. QED BY <1>4, <1>5, <1>9, RequestGoesOn DEF AnswersInv, Quotes!TypeOK, CacheFits

LEMMA AnswersStore ==
  ASSUME AnswersInv, NEW t \in Threads, NEW s \in Symbols, Quotes!Store(t, s)
  PROVE  AnswersInv'
<1> DEFINE q == thread[t]
           left == q.todo \ {s}
           r == [q EXCEPT !.todo = left, !.at = IF left = {} THEN "answered" ELSE "store"]
<1>1. q \in Quotes!Request /\ RequestFits(q, clock) /\ clock \in Quotes!Times /\ q.at = "store" /\ s \in q.todo
  BY DEF AnswersInv, Quotes!TypeOK, Quotes!Store, Quotes!At
<1>2. /\ q.user \in Asker /\ ItemsFit(q, clock) /\ q.todo \subseteq q.missed
      /\ FetchedAll(q, q.missed) /\ q.asked = Found(q)
  BY <1>1 DEF RequestFits
<1>3. PICK k \in q.items : k = CHOOSE i \in q.items : i.of = s /\ ~i.hit
  BY <1>1, <1>2 DEF FetchedAll
<1>4. k.of = s /\ k \in Quotes!Item
  BY <1>1, <1>2, <1>3 DEF FetchedAll, Quotes!Request
<1>5. /\ cache' = [cache EXCEPT ![s] = [expires |-> clock + Ttl, of |-> k.of, taken |-> k.taken]]
      /\ thread' = [thread EXCEPT ![t] = r] /\ UNCHANGED <<clock, events, health, granted>>
  BY <1>3 DEF Quotes!Store, Quotes!Goto
<1>6. /\ r \in Quotes!Request /\ r.at = (IF left = {} THEN "answered" ELSE "store")
      /\ r.todo = left /\ r.missed = q.missed
      /\ r.items = q.items /\ r.asked = q.asked /\ r.user = q.user
  BY <1>1 DEF Quotes!Request, Quotes!Stages
<1> HIDE DEF r, q
<1>7. RequestFits(r, clock)
  BY <1>2, <1>6 DEF RequestFits, ItemsFit, Found, FetchedAll
<1>8. k.taken <= clock /\ k.taken \in Nat /\ clock \in 0..MaxClock /\ k.taken \in 0..MaxClock
  BY <1>1, <1>2, <1>4 DEF ItemsFit, Quotes!Item, Quotes!Times
<1>9. [expires |-> clock + Ttl, of |-> k.of, taken |-> k.taken] \in Quotes!Entry
  BY <1>4, <1>8, LimitAssumption DEF Quotes!Entry, Quotes!Times
<1>10. cache' \in [Symbols -> Quotes!Entry \cup {NoEntry}]
  BY <1>5, <1>9 DEF AnswersInv, Quotes!TypeOK
<1>11. CacheFits'
  <2> SUFFICES ASSUME NEW x \in Symbols, cache'[x] # NoEntry
               PROVE  cache'[x].of = x /\ cache'[x].taken <= clock' /\ cache'[x].taken + Ttl <= cache'[x].expires
    BY DEF CacheFits
  <2>1. CASE x = s
    <3>1. cache'[x] = [expires |-> clock + Ttl, of |-> k.of, taken |-> k.taken]
      BY <1>5, <2>1 DEF AnswersInv, Quotes!TypeOK
    <3>2. k.taken + Ttl <= clock + Ttl
      BY <1>8, LimitAssumption
    <3>3. QED BY <1>4, <1>5, <1>8, <2>1, <3>1, <3>2
  <2>2. CASE x # s
    BY <1>5, <2>2 DEF AnswersInv, Quotes!TypeOK, CacheFits
  <2>3. QED BY <2>1, <2>2
<1>12. QED BY <1>5, <1>6, <1>7, <1>10, <1>11, RequestGoesOn DEF AnswersInv, Quotes!TypeOK

LEMMA AnswersTick ==
  ASSUME AnswersInv, Quotes!Tick
  PROVE  AnswersInv'
<1>1. clock' = clock + 1 /\ clock < MaxClock /\ clock \in 0..MaxClock /\ MaxClock \in Nat
      /\ UNCHANGED <<events, cache, health, thread, granted>>
  BY LimitAssumption DEF Quotes!Tick, AnswersInv, Quotes!TypeOK, Quotes!Times
<1>2. clock' \in Quotes!Times
  BY <1>1 DEF Quotes!Times
<1>3. Quotes!TypeOK'
  BY <1>1, <1>2 DEF AnswersInv, Quotes!TypeOK
<1>4. CacheFits'
  <2> SUFFICES ASSUME NEW s \in Symbols, cache[s] # NoEntry
               PROVE  cache[s].of = s /\ cache[s].taken <= clock' /\ cache[s].taken + Ttl <= cache[s].expires
    BY <1>1 DEF CacheFits
  <2>1. cache[s].of = s /\ cache[s].taken <= clock /\ cache[s].taken + Ttl <= cache[s].expires
        /\ cache[s] \in Quotes!Entry
    BY DEF AnswersInv, CacheFits, Quotes!TypeOK
  <2>2. cache[s].taken \in Nat
    BY <2>1, <1>1 DEF Quotes!Entry, Quotes!Times
  <2>3. QED BY <1>1, <2>1, <2>2
<1>5. ASSUME NEW t \in Threads
      PROVE  RequestFits(thread[t], clock')
  <2>1. thread[t] \in Quotes!Request /\ RequestFits(thread[t], clock)
    BY DEF AnswersInv, Quotes!TypeOK
  <2>2. ItemsFit(thread[t], clock')
    <3>1. ASSUME NEW i \in thread[t].items
          PROVE  i.taken <= clock'
      <4>1. i.taken <= clock /\ i.taken \in 0..MaxClock
        BY <2>1 DEF RequestFits, ItemsFit, Quotes!Request, Quotes!Item, Quotes!Times
      <4>2. QED BY <1>1, <4>1
    <3>2. QED BY <2>1, <3>1 DEF RequestFits, ItemsFit
  <2>3. QED BY <2>1, <2>2 DEF RequestFits
<1>6. \A t \in Threads : RequestFits(thread[t], clock)'
  <2> TAKE t \in Threads
  <2>1. RequestFits(thread[t], clock') /\ thread'[t] = thread[t]
    BY <1>1, <1>5
  <2>2. QED BY <2>1 DEF RequestFits, ItemsFit, Split, FetchedAll, Found
<1>7. QED BY <1>3, <1>4, <1>6 DEF AnswersInv

LEMMA AnswersStep ==
  ASSUME AnswersInv, [Quotes!Next]_(Quotes!vars)
  PROVE  AnswersInv'
<1>1. ASSUME NEW t \in Threads, Quotes!QuoteRoutes(t)
      PROVE  AnswersInv'
  <2>1. thread[t] \in Quotes!Request /\ RequestFits(thread[t], clock) /\ clock \in Nat
    BY LimitAssumption DEF AnswersInv, Quotes!TypeOK, Quotes!Times
  <2>2. ASSUME NEW code \in Failure, Quotes!FetchFails(t, code)
        PROVE  AnswersInv'
    <3> DEFINE r == [thread[t] EXCEPT !.at = "failed"]
    <3>1. r \in Quotes!Request /\ RequestFits(r, clock)
      BY <2>1, <2>2, PlaceFits DEF Quotes!FetchFails, Quotes!At, Quotes!Stages
    <3>2. thread' = [thread EXCEPT ![t] = r] /\ health' = code /\ UNCHANGED <<clock, events, cache, granted>>
      BY <2>2 DEF Quotes!FetchFails, Quotes!Step
    <3> HIDE DEF r
    <3>3. QED BY <3>1, <3>2, RequestGoesOn DEF AnswersInv, Quotes!TypeOK, CacheFits
  <2>3. CASE Quotes!Respond(t)
    <3>1. thread' = [thread EXCEPT ![t] = Quotes!Idle] /\ UNCHANGED <<clock, events, cache, health, granted>>
      BY <2>3 DEF Quotes!Respond, Quotes!Goto
    <3>2. QED BY <2>1, <3>1, IdleFits, RequestGoesOn DEF AnswersInv, Quotes!TypeOK, CacheFits
  <2>4. QED
    BY <1>1, <2>2, <2>3, AnswersStart, AnswersConsume, AnswersLook, AnswersFetch, AnswersStore, AnswersEvict
    DEF Quotes!QuoteRoutes
<1>2. CASE UNCHANGED Quotes!vars
  <2>1. UNCHANGED <<thread, cache, clock, events, granted, health>>
    BY <1>2 DEF Quotes!vars
  <2>2. Quotes!TypeOK' /\ CacheFits'
    BY <2>1 DEF AnswersInv, Quotes!TypeOK, CacheFits
  <2>3. \A t \in Threads : RequestFits(thread[t], clock)
    BY DEF AnswersInv
  <2>4. \A t \in Threads : RequestFits(thread[t], clock)'
    <3> TAKE t \in Threads
    <3>1. RequestFits(thread[t], clock) /\ thread'[t] = thread[t] /\ clock' = clock BY <2>1, <2>3
    <3>2. QED BY <3>1 DEF RequestFits, ItemsFit, Split, FetchedAll, Found
  <2>5. QED BY <2>2, <2>4 DEF AnswersInv
<1>3. QED BY <1>1, <1>2, AnswersTick DEF Quotes!Next

\* An answer has one quote of each symbol.
LEMMA AnswersInvFits ==
  ASSUME AnswersInv
  PROVE  AnswersFit
<1> SUFFICES ASSUME NEW t \in Threads, thread[t].at = "answered"
             PROVE  /\ \A s \in thread[t].asked : Cardinality({i \in thread[t].items : i.of = s}) = 1
                    /\ \A i \in thread[t].items : /\ i.of \in thread[t].asked
                                                  /\ i.hit => i.seen < i.stored + Ttl
                                                  /\ i.taken <= i.stored
  BY DEF AnswersFit, At
<1>1. ItemsFit(thread[t], clock) /\ thread[t].asked = Found(thread[t])
  BY DEF AnswersInv, RequestFits
<1>2. ASSUME NEW s \in thread[t].asked
      PROVE  Cardinality({i \in thread[t].items : i.of = s}) = 1
  <2>1. PICK k \in thread[t].items : k.of = s
    BY <1>1 DEF Found
  <2>2. {i \in thread[t].items : i.of = s} = {k}
    BY <1>1, <2>1 DEF ItemsFit
  <2>3. QED BY <2>2, FS_Singleton
<1>3. QED BY <1>1, <1>2 DEF ItemsFit

-----------------------------------------------------------------------------
(* Quotes: the limiter                                                     *)

Counted_(t) == thread[t].at \in {"prune", "pop", "count", "append"}

\* The times of the limiter are the last of those granted, the others have left
\* the window, and no window has more than the limit.
Granting(g, e, now) ==
  /\ Len(e) <= Len(g)
  /\ \A k \in 1..Len(e) : e[k] = g[Len(g) - Len(e) + k]
  /\ \A k \in 1..(Len(g) - Len(e)) : g[k] + Window <= now
  /\ \A k \in 1..Len(g) : g[k] <= now
  /\ \A k, l \in 1..Len(g) : k <= l => g[k] <= g[l]
  /\ \A k \in (MaxRequests + 1)..Len(g) : g[k] >= g[k - MaxRequests] + Window

\* What the one request that is counted knows.
Knows(t) ==
  LET e == events[thread[t].user]
      now == thread[t].now IN
  /\ now <= clock
  /\ Granting(granted[thread[t].user], e, now)
  /\ thread[t].at = "pop" => Len(e) > 0 /\ e[1] + Window <= now
  /\ thread[t].at = "count" => (Len(e) > 0 => e[1] + Window > now)
  /\ thread[t].at = "append" => Len(e) < MaxRequests

Full(t) ==
  LET g == granted[thread[t].user] IN
  Len(g) >= MaxRequests /\ g[Len(g) - MaxRequests + 1] + Window > thread[t].now

LimitInv ==
  ~raced => /\ \A t \in Threads : \A v \in Threads \ {t} : ~(Counted_(t) /\ Counted_(v))
            /\ \A u \in Asker : Granting(granted[u], events[u], clock)
            /\ \A t \in Threads : Counted_(t) => Knows(t)
            /\ \A t \in Threads : thread[t].at = "refused" => Full(t)

Noticed == raced' = (raced \/ \E t \in Threads : \E v \in Threads \ {t} : Counting(t) /\ Counting(v))

LEMMA LimitInvFits ==
  ASSUME AnswersInv, LimitInv
  PROVE  SerialWindow /\ SerialRefusal
<1>1. SerialWindow
  BY DEF LimitInv, Granting, SerialWindow
<1>2. SerialRefusal
  BY DEF LimitInv, Full, SerialRefusal, At
<1>3. QED BY <1>1, <1>2

\* A step that leaves the limiter alone.
LEMMA LimitKeeps ==
  ASSUME AnswersInv, LimitInv, NEW t \in Threads, NEW r \in Quotes!Request,
         thread' = [thread EXCEPT ![t] = r], UNCHANGED <<clock, events, granted>>, Noticed,
         r.at \notin {"prune", "pop", "count", "append", "refused"}
  PROVE  LimitInv'
<1> SUFFICES ASSUME ~raced'
             PROVE  LimitInv'
  BY DEF LimitInv
<1>1. ~raced
  BY DEF Noticed
<1>2. \A v \in Threads : thread'[v] = IF v = t THEN r ELSE thread[v]
  BY DEF AnswersInv, Quotes!TypeOK
<1>3. \A u \in Asker : Granting(granted[u], events[u], clock)'
  BY <1>1 DEF LimitInv, Granting
<1>4. \A v \in Threads : \A w \in Threads \ {v} : ~(Counted_(v)' /\ Counted_(w)')
  BY <1>1, <1>2 DEF LimitInv, Counted_
<1>5. ASSUME NEW v \in Threads
      PROVE  (Counted_(v) => Knows(v))' /\ (thread[v].at = "refused" => Full(v))'
  <2>1. CASE v = t
    BY <1>2, <2>1 DEF Counted_
  <2>2. CASE v # t
    <3>1. thread'[v] = thread[v] /\ (Counted_(v) => Knows(v)) /\ (thread[v].at = "refused" => Full(v))
      BY <1>1, <1>2, <2>2 DEF LimitInv
    <3>2. QED BY <3>1 DEF Counted_, Knows, Full, Granting
  <2>3. QED BY <2>1, <2>2
<1>6. QED BY <1>3, <1>4, <1>5 DEF LimitInv

LEMMA GrantingLater ==
  ASSUME NEW g \in Seq(Nat), NEW e \in Seq(Nat), NEW a \in Nat, NEW b \in Nat, a <= b, Granting(g, e, a)
  PROVE  Granting(g, e, b)
<1>1. \A k \in 1..Len(g) : g[k] \in Nat /\ g[k] <= b
  <2> TAKE k \in 1..Len(g)
  <2>1. g[k] \in Nat /\ g[k] <= a
    BY DEF Granting
  <2>2. QED BY <2>1
<1>2. \A k \in 1..(Len(g) - Len(e)) : g[k] + Window <= b
  <2> TAKE k \in 1..(Len(g) - Len(e))
  <2>1. k \in 1..Len(g) /\ g[k] + Window <= a
    BY DEF Granting
  <2>2. QED BY <1>1, <2>1, LimitAssumption
<1>3. QED BY <1>1, <1>2 DEF Granting

\* The oldest time is dropped when it has left the window ...
LEMMA GrantingPop ==
  ASSUME NEW g \in Seq(Nat), NEW e \in Seq(Nat), NEW now \in Nat, Granting(g, e, now),
         Len(e) > 0, e[1] + Window <= now
  PROVE  Granting(g, Tail(e), now)
<1>1. Len(Tail(e)) = Len(e) - 1 /\ \A k \in 1..(Len(e) - 1) : Tail(e)[k] = e[k + 1]
  OBVIOUS
<1>2. Len(e) \in Nat /\ Len(g) \in Nat /\ Len(e) <= Len(g)
  BY DEF Granting
<1>3. \A k \in 1..Len(Tail(e)) : Tail(e)[k] = g[Len(g) - Len(Tail(e)) + k]
  <2> TAKE k \in 1..Len(Tail(e))
  <2>0. k \in 1..(Len(e) - 1)
    BY <1>1
  <2>1. k + 1 \in 1..Len(e) /\ Len(g) - (Len(e) - 1) + k = Len(g) - Len(e) + (k + 1)
    BY <1>2, <2>0
  <2>2. e[k + 1] = g[Len(g) - Len(e) + (k + 1)]
    BY <2>1 DEF Granting
  <2>3. QED BY <1>1, <2>0, <2>1, <2>2
<1>4. \A k \in 1..(Len(g) - Len(Tail(e))) : g[k] + Window <= now
  <2> TAKE k \in 1..(Len(g) - Len(Tail(e)))
  <2>1. k \in 1..(Len(g) - Len(e)) \/ k = Len(g) - Len(e) + 1
    BY <1>1, <1>2
  <2>2. g[Len(g) - Len(e) + 1] = e[1]
    BY <1>2 DEF Granting
  <2>3. CASE k \in 1..(Len(g) - Len(e))
    BY <2>3 DEF Granting
  <2>4. CASE k = Len(g) - Len(e) + 1
    BY <2>2, <2>4
  <2>5. QED BY <2>1, <2>3, <2>4
<1>5. Len(Tail(e)) <= Len(g)
  BY <1>1, <1>2
<1>6. /\ \A k \in 1..Len(g) : g[k] <= now
      /\ \A k, l \in 1..Len(g) : k <= l => g[k] <= g[l]
      /\ \A k \in (MaxRequests + 1)..Len(g) : g[k] >= g[k - MaxRequests] + Window
  BY DEF Granting
<1> DEFINE f == Tail(e)
<1> HIDE DEF f
<1>7. Granting(g, f, now)
  BY <1>3, <1>4, <1>5, <1>6 DEF Granting, f
<1>8. QED BY <1>7 DEF f

\* ... and one is granted when there is room.
LEMMA GrantingGrant ==
  ASSUME NEW g \in Seq(Nat), NEW e \in Seq(Nat), NEW now \in Nat, Granting(g, e, now),
         Len(e) < MaxRequests
  PROVE  Granting(Append(g, now), Append(e, now), now)
<1> DEFINE h == Append(g, now)
           f == Append(e, now)
<1>1. /\ Len(h) = Len(g) + 1 /\ h[Len(g) + 1] = now /\ \A k \in 1..Len(g) : h[k] = g[k]
      /\ Len(f) = Len(e) + 1 /\ f[Len(e) + 1] = now /\ \A k \in 1..Len(e) : f[k] = e[k]
  OBVIOUS
<1>2. Len(e) \in Nat /\ Len(g) \in Nat /\ Len(e) <= Len(g) /\ MaxRequests \in Nat \ {0} /\ Window \in Nat
  BY LimitAssumption DEF Granting
<1> HIDE DEF h, f
<1>3. \A k \in 1..Len(f) : f[k] = h[Len(h) - Len(f) + k]
  <2> TAKE k \in 1..Len(f)
  <2>1. CASE k \in 1..Len(e)
    <3>1. Len(h) - Len(f) + k = Len(g) - Len(e) + k /\ Len(g) - Len(e) + k \in 1..Len(g)
      BY <1>1, <1>2, <2>1
    <3>2. QED BY <1>1, <2>1, <3>1 DEF Granting
  <2>2. CASE k = Len(e) + 1
    BY <1>1, <1>2, <2>2
  <2>3. QED BY <1>1, <1>2, <2>1, <2>2
<1>4. \A k \in 1..(Len(h) - Len(f)) : h[k] + Window <= now
  <2> TAKE k \in 1..(Len(h) - Len(f))
  <2>1. k \in 1..(Len(g) - Len(e)) /\ k \in 1..Len(g)
    BY <1>1, <1>2
  <2>2. QED BY <1>1, <2>1 DEF Granting
<1>5. \A k \in 1..Len(h) : h[k] <= now
  <2> TAKE k \in 1..Len(h)
  <2>1. CASE k \in 1..Len(g)
    BY <1>1, <2>1 DEF Granting
  <2>2. CASE k = Len(g) + 1
    BY <1>1, <2>2
  <2>3. QED BY <1>1, <1>2, <2>1, <2>2
<1>6. \A k, l \in 1..Len(h) : k <= l => h[k] <= h[l]
  <2> SUFFICES ASSUME NEW k \in 1..Len(h), NEW l \in 1..Len(h), k <= l
               PROVE  h[k] <= h[l]
    OBVIOUS
  <2>1. CASE l = Len(g) + 1
    BY <1>1, <1>5, <2>1
  <2>2. CASE l \in 1..Len(g)
    <3>1. k \in 1..Len(g) /\ h[k] = g[k] /\ h[l] = g[l]
      BY <1>1, <1>2, <2>2
    <3>2. QED BY <2>2, <3>1 DEF Granting
  <2>3. QED BY <1>1, <1>2, <2>1, <2>2
<1>7. \A k \in (MaxRequests + 1)..Len(h) : h[k] >= h[k - MaxRequests] + Window
  <2> TAKE k \in (MaxRequests + 1)..Len(h)
  <2>1. CASE k \in (MaxRequests + 1)..Len(g)
    <3>1. k \in 1..Len(g) /\ k - MaxRequests \in 1..Len(g)
      BY <1>2, <2>1
    <3>2. g[k] >= g[k - MaxRequests] + Window
      BY <2>1 DEF Granting
    <3>3. QED BY <1>1, <3>1, <3>2
  <2>2. CASE k = Len(g) + 1
    <3>1. k - MaxRequests \in 1..(Len(g) - Len(e)) /\ k - MaxRequests \in 1..Len(g)
      BY <1>1, <1>2, <2>2
    <3>2. g[k - MaxRequests] + Window <= now /\ g[k - MaxRequests] \in Nat
      BY <3>1 DEF Granting
    <3>3. h[k - MaxRequests] = g[k - MaxRequests] /\ h[k] = now
      BY <1>1, <2>2, <3>1
    <3>4. QED BY <1>2, <3>2, <3>3
  <2>3. k \in (MaxRequests + 1)..(Len(g) + 1)
    BY <1>1
  <2>4. k \in (MaxRequests + 1)..Len(g) \/ k = Len(g) + 1
    BY <1>2, <2>3
  <2>5. QED BY <2>1, <2>2, <2>4
<1>8. Len(f) <= Len(h)
  BY <1>1, <1>2
<1>9. Granting(h, f, now)
  BY <1>3, <1>4, <1>5, <1>6, <1>7, <1>8 DEF Granting
<1>10. QED BY <1>9 DEF h, f

\* A window that is full: the oldest of its last times is at least as young as
\* the oldest the limiter has.
LEMMA FullEdge ==
  ASSUME NEW g \in Seq(Nat), NEW e \in Seq(Nat), NEW now \in Nat, Granting(g, e, now),
         Len(e) >= MaxRequests, e[1] + Window > now
  PROVE  Len(g) >= MaxRequests /\ g[Len(g) - MaxRequests + 1] + Window > now
<1>1. PICK m \in Nat, n \in Nat : m = Len(e) /\ n = Len(g)
  OBVIOUS
<1>2. m <= n /\ MaxRequests <= m /\ MaxRequests \in Nat /\ 1 <= MaxRequests /\ Window \in Nat
  BY <1>1, LimitAssumption DEF Granting
<1>3. 1 \in 1..m /\ n - m + 1 \in 1..n /\ n - MaxRequests + 1 \in 1..n
  BY <1>2
<1>4. n - m + 1 <= n - MaxRequests + 1
  BY <1>2
<1>5. e[1] = g[n - m + 1]
  BY <1>1, <1>3 DEF Granting
<1>6. g[n - m + 1] <= g[n - MaxRequests + 1]
  BY <1>1, <1>3, <1>4 DEF Granting
<1>7. g[n - m + 1] \in Nat /\ g[n - MaxRequests + 1] \in Nat
  <2>1. \A k \in 1..n : g[k] \in Nat
    BY <1>1
  <2>2. QED BY <1>3, <2>1
<1>8. g[n - MaxRequests + 1] + Window > now
  <2>1. \A x, y \in Nat : x <= y /\ x + Window > now => y + Window > now
    BY <1>2
  <2>2. g[n - m + 1] + Window > now
    BY <1>5
  <2>3. QED BY <1>6, <1>7, <2>1, <2>2
<1>9. QED BY <1>1, <1>2, <1>8

\* And stays full when one more is granted.
LEMMA FullLater ==
  ASSUME NEW g \in Seq(Nat), NEW f \in Seq(Nat), NEW a \in Nat, NEW now \in Nat,
         Granting(Append(g, a), f, a),
         Len(g) >= MaxRequests, g[Len(g) - MaxRequests + 1] + Window > now
  PROVE  /\ Len(Append(g, a)) >= MaxRequests
         /\ Append(g, a)[Len(Append(g, a)) - MaxRequests + 1] + Window > now
<1> DEFINE h == Append(g, a)
<1>1. PICK n \in Nat : n = Len(g)
  OBVIOUS
<1>2. Len(h) = n + 1 /\ h \in Seq(Nat) /\ \A k \in 1..n : h[k] = g[k]
  BY <1>1
<1>3. MaxRequests <= n /\ MaxRequests \in Nat /\ 1 <= MaxRequests /\ Window \in Nat
  BY <1>1, LimitAssumption
<1>4. n - MaxRequests + 1 \in 1..n /\ n - MaxRequests + 1 \in 1..(n + 1)
      /\ (n + 1) - MaxRequests + 1 \in 1..(n + 1) /\ n - MaxRequests + 1 <= (n + 1) - MaxRequests + 1
  BY <1>3
<1> HIDE DEF h
<1>5. Granting(h, f, a)
  BY DEF h
<1>6. h[n - MaxRequests + 1] <= h[(n + 1) - MaxRequests + 1]
  BY <1>2, <1>4, <1>5 DEF Granting
<1>7. h[n - MaxRequests + 1] \in Nat /\ h[(n + 1) - MaxRequests + 1] \in Nat
  BY <1>2, <1>4
<1>8. h[n - MaxRequests + 1] + Window > now
  BY <1>1, <1>2, <1>4
<1>9. h[(n + 1) - MaxRequests + 1] + Window > now /\ n + 1 >= MaxRequests
  BY <1>3, <1>6, <1>7, <1>8
<1>10. QED BY <1>2, <1>9 DEF h

LEMMA TimesNat ==
  ASSUME AnswersInv
  PROVE  /\ clock \in Nat
         /\ \A u \in Asker : granted[u] \in Seq(Nat) /\ events[u] \in Seq(Nat)
         /\ \A t \in Threads : thread[t].now \in Nat
<1>1. Quotes!Times \subseteq Nat
  BY LimitAssumption DEF Quotes!Times
<1>2. \A x \in Seq(Quotes!Times) : x \in Seq(Nat)
  BY <1>1, SeqMonotonic
<1>3. \A t \in Threads : thread[t].now \in Quotes!Times
  BY DEF AnswersInv, Quotes!TypeOK, Quotes!Request
<1>4. QED BY <1>1, <1>2, <1>3 DEF AnswersInv, Quotes!TypeOK

LEMMA LimitStart ==
  ASSUME AnswersInv, LimitInv, NEW t \in Threads, NEW u \in Asker, NEW S \in SUBSET Symbols,
         Quotes!StartQuotes(t, u, S), Noticed
  PROVE  LimitInv'
<1> SUFFICES ASSUME ~raced'
             PROVE  LimitInv'
  BY DEF LimitInv
<1> DEFINE r == [Quotes!Idle EXCEPT !.at = "prune", !.user = u, !.now = clock, !.asked = S, !.todo = S]
<1>1. ~raced /\ \A v \in Threads : \A w \in Threads \ {v} : ~(Counted_(v)' /\ Counted_(w)')
  BY DEF Noticed, Counting, Counted_
<1>2. r.at = "prune" /\ r.user = u /\ r.now = clock
  BY DEF Quotes!Idle
<1>3. thread' = [thread EXCEPT ![t] = r] /\ UNCHANGED <<clock, events, granted>>
  BY DEF Quotes!StartQuotes, Quotes!Goto
<1> HIDE DEF r
<1>4. \A v \in Threads : thread'[v] = IF v = t THEN r ELSE thread[v]
  BY <1>3 DEF AnswersInv, Quotes!TypeOK
<1>5. \A x \in Asker : Granting(granted[x], events[x], clock)
  BY <1>1 DEF LimitInv
<1>6. Knows(t)'
  BY <1>2, <1>3, <1>4, <1>5, TimesNat DEF Knows
<1>7. ASSUME NEW v \in Threads
      PROVE  (Counted_(v) => Knows(v))' /\ (thread[v].at = "refused" => Full(v))'
  <2>1. CASE v = t
    BY <1>2, <1>4, <1>6, <2>1
  <2>2. CASE v # t
    <3>1. ~Counted_(v)'
      BY <1>1, <1>2, <1>4, <2>2 DEF Counted_
    <3>2. thread'[v] = thread[v] /\ (thread[v].at = "refused" => Full(v))
      BY <1>1, <1>4, <2>2 DEF LimitInv
    <3>3. QED BY <1>3, <3>1, <3>2 DEF Full
  <2>3. QED BY <2>1, <2>2
<1>8. QED BY <1>1, <1>3, <1>5, <1>7 DEF LimitInv

\* The only request that is counted goes on.
LEMMA LimitMoves ==
  ASSUME AnswersInv, LimitInv, ~raced, NEW t \in Threads, Counted_(t), NEW r,
         thread' = [thread EXCEPT ![t] = r], r.user = thread[t].user, r.now = thread[t].now,
         clock' = clock,
         \A u \in Asker : Granting(granted'[u], events'[u], thread[t].now),
         Counted_(t)' => Knows(t)', r.at = "refused" => Full(t)',
         \A v \in Threads : thread[v].at = "refused" /\ Full(v) =>
           LET g == granted'[thread[v].user] IN
           Len(g) >= MaxRequests /\ g[Len(g) - MaxRequests + 1] + Window > thread[v].now,
         granted' \in [Asker -> Seq(Nat)], events' \in [Asker -> Seq(Nat)]
  PROVE  LimitInv'
<1>1. \A v \in Threads : thread'[v] = IF v = t THEN r ELSE thread[v]
  BY DEF AnswersInv, Quotes!TypeOK
<1>2. Knows(t) /\ \A v \in Threads \ {t} : ~Counted_(v)
  BY DEF LimitInv
<1>3. \A u \in Asker : Granting(granted[u], events[u], clock)'
  BY <1>2, TimesNat, GrantingLater DEF Knows
<1>4. ASSUME NEW v \in Threads
      PROVE  (Counted_(v) => Knows(v))' /\ (thread[v].at = "refused" => Full(v))'
  <2>1. CASE v = t
    BY <1>1, <2>1
  <2>2. CASE v # t
    <3>1. ~Counted_(v)'
      BY <1>1, <1>2, <2>2 DEF Counted_
    <3>2. thread'[v] = thread[v] /\ (thread[v].at = "refused" => Full(v))
      BY <1>1, <2>2 DEF LimitInv
    <3>3. QED BY <3>1, <3>2 DEF Full
  <2>3. QED BY <2>1, <2>2
<1>5. \A v \in Threads : \A w \in Threads \ {v} : ~(Counted_(v)' /\ Counted_(w)')
  BY <1>1, <1>2 DEF Counted_
<1>6. QED BY <1>3, <1>4, <1>5 DEF LimitInv

LEMMA LimitConsume ==
  ASSUME AnswersInv, LimitInv, NEW t \in Threads, Quotes!Consume(t), Noticed
  PROVE  LimitInv'
<1> SUFFICES ASSUME ~raced'
             PROVE  LimitInv'
  BY DEF LimitInv
<1> DEFINE q == thread[t]
           u == thread[t].user
<1>1. ~raced /\ Counted_(t)
  BY DEF Noticed, Quotes!Consume, Quotes!Prune, Quotes!Pop, Quotes!Count, Quotes!Grant, Quotes!At, Counted_
<1>2. /\ q \in Quotes!Request /\ u \in Asker /\ \A x \in Asker : x = u
      /\ \A v \in Threads : thread[v].at = "refused" => thread[v].user = u
  <2>1. \A v \in Threads : thread[v] \in Quotes!Request /\ (thread[v].at # "idle" => thread[v].user \in Asker)
    BY DEF AnswersInv, Quotes!TypeOK, RequestFits
  <2>2. u \in Asker
    BY <1>1, <2>1 DEF Counted_
  <2>3. \A x, y \in Asker : x = y
    BY DEF Asker
  <2>4. QED BY <2>1, <2>2, <2>3
<1>3. Knows(t)
  BY <1>1 DEF LimitInv
<1>4. /\ q.now \in Nat /\ granted[u] \in Seq(Nat) /\ events[u] \in Seq(Nat)
      /\ Granting(granted[u], events[u], q.now)
  BY <1>2, <1>3, TimesNat DEF Knows
<1>5. ASSUME NEW p \in Quotes!Stages, NEW e \in Seq(Nat), Quotes!Step(t, p), clock' = clock, granted' = granted,
             events' = [events EXCEPT ![u] = e], Granting(granted[u], e, q.now),
             p = "pop" => Len(e) > 0 /\ e[1] + Window <= q.now,
             p = "count" => (Len(e) > 0 => e[1] + Window > q.now),
             p = "append" => Len(e) < MaxRequests,
             p = "refused" => Full(t)
      PROVE  LimitInv'
  <2> DEFINE r == [q EXCEPT !.at = p]
  <2>1. r.at = p /\ r.user = u /\ r.now = q.now
    BY <1>2 DEF Quotes!Request
  <2>2. thread' = [thread EXCEPT ![t] = r] /\ thread'[t] = r
    BY <1>5 DEF Quotes!Step, AnswersInv, Quotes!TypeOK
  <2>3. events'[u] = e /\ events' \in [Asker -> Seq(Nat)] /\ granted' \in [Asker -> Seq(Nat)]
    BY <1>2, <1>5, TimesNat DEF AnswersInv, Quotes!TypeOK
  <2>4. q.now <= clock
    BY <1>3 DEF Knows
  <2> HIDE DEF r
  <2>5. Knows(t)'
    BY <1>5, <2>1, <2>2, <2>3, <2>4 DEF Knows
  <2>6. r.at = "refused" => Full(t)'
    BY <1>5, <2>1, <2>2 DEF Full
  <2>7. \A x \in Asker : Granting(granted'[x], events'[x], q.now)
    BY <1>2, <1>5, <2>3
  <2>8. \A v \in Threads : thread[v].at = "refused" /\ Full(v) =>
           LET g == granted'[thread[v].user] IN
           Len(g) >= MaxRequests /\ g[Len(g) - MaxRequests + 1] + Window > thread[v].now
    BY <1>5 DEF Full
  <2>9. QED BY <1>1, <1>5, <2>1, <2>2, <2>3, <2>5, <2>6, <2>7, <2>8, LimitMoves
<1>6. CASE Quotes!Prune(t)
  <2> DEFINE p == IF events[u] # <<>> /\ Head(events[u]) + Window <= q.now THEN "pop" ELSE "count"
  <2>1. Quotes!Step(t, p) /\ UNCHANGED <<clock, events, granted>> /\ events' = [events EXCEPT ![u] = events[u]]
    BY <1>2, <1>6 DEF Quotes!Prune, Quotes!Deque, AnswersInv, Quotes!TypeOK
  <2>2. p = "pop" => Len(events[u]) > 0 /\ events[u][1] + Window <= q.now
    BY <1>4
  <2>3. p = "count" => (Len(events[u]) > 0 => events[u][1] + Window > q.now)
    <3>1. Len(events[u]) > 0 => events[u] # <<>> /\ Head(events[u]) = events[u][1] /\ events[u][1] \in Nat
      BY <1>4
    <3>2. QED BY <1>4, <3>1, LimitAssumption
  <2>4. p \in Quotes!Stages /\ p \notin {"append", "refused"}
    BY DEF Quotes!Stages
  <2> HIDE DEF p, q, u
  <2>5. QED BY <1>4, <1>5, <2>1, <2>2, <2>3, <2>4
<1>7. CASE Quotes!Pop(t)
  <2>1. Len(events[u]) > 0 /\ events[u][1] + Window <= q.now
    BY <1>3, <1>7 DEF Knows, Quotes!Pop, Quotes!At
  <2>2. events[u] # <<>> /\ Tail(events[u]) \in Seq(Nat)
    BY <1>4, <2>1
  <2>3. Granting(granted[u], Tail(events[u]), q.now)
    BY <1>4, <2>1, GrantingPop
  <2>4. Quotes!Step(t, "prune") /\ events' = [events EXCEPT ![u] = Tail(events[u])] /\ UNCHANGED <<clock, granted>>
    BY <1>7, <2>2 DEF Quotes!Pop, Quotes!Deque
  <2> HIDE DEF q, u
  <2>5. QED BY <1>5, <2>2, <2>3, <2>4 DEF Quotes!Stages
<1>8. CASE Quotes!Count(t)
  <2>1. Len(events[u]) > 0 => events[u][1] + Window > q.now
    BY <1>3, <1>8 DEF Knows, Quotes!Count, Quotes!At
  <2>2. /\ Quotes!Step(t, IF Len(events[u]) >= MaxRequests THEN "refused" ELSE "append")
        /\ UNCHANGED <<clock, events, granted>> /\ events' = [events EXCEPT ![u] = events[u]]
    BY <1>2, <1>8 DEF Quotes!Count, Quotes!Deque, AnswersInv, Quotes!TypeOK
  <2>3. CASE Len(events[u]) >= MaxRequests
    <3>1. Len(events[u]) > 0
      BY <1>4, <2>3, LimitAssumption
    <3>2. Full(t)
      BY <1>4, <2>1, <2>3, <3>1, FullEdge DEF Full
    <3> HIDE DEF q, u
    <3>3. QED BY <1>4, <1>5, <2>1, <2>2, <2>3, <3>2 DEF Quotes!Stages
  <2>4. CASE ~(Len(events[u]) >= MaxRequests)
    <3>1. Len(events[u]) < MaxRequests
      BY <1>4, <2>4, LimitAssumption
    <3> HIDE DEF q, u
    <3>2. QED BY <1>4, <1>5, <2>2, <2>4, <3>1 DEF Quotes!Stages
  <2>5. QED BY <2>3, <2>4
<1>9. CASE Quotes!Grant(t)
  <2> DEFINE r == [q EXCEPT !.at = "look"]
             g == granted[u]
             h == Append(g, q.now)
             f == Append(events[u], q.now)
  <2>1. r.at = "look" /\ r.user = u /\ r.now = q.now
    BY <1>2 DEF Quotes!Request
  <2>2. thread' = [thread EXCEPT ![t] = r] /\ thread'[t] = r /\ clock' = clock
    BY <1>9 DEF Quotes!Grant, Quotes!Step, AnswersInv, Quotes!TypeOK
  <2>3. granted' = [granted EXCEPT ![u] = h] /\ events' = [events EXCEPT ![u] = f]
    BY <1>9 DEF Quotes!Grant
  <2>4. h \in Seq(Nat) /\ f \in Seq(Nat) /\ g \in Seq(Nat)
    BY <1>4
  <2>5. Granting(h, f, q.now)
    BY <1>3, <1>4, <1>9, GrantingGrant DEF Knows, Quotes!Grant, Quotes!At
  <2>6. /\ Len(h) = Len(g) + 1 /\ \A k \in 1..Len(g) : h[k] = g[k]
    BY <1>4
  <2> HIDE DEF r, h, f
  <2>7. /\ granted'[u] = h /\ events'[u] = f
        /\ granted' \in [Asker -> Seq(Nat)] /\ events' \in [Asker -> Seq(Nat)]
    BY <1>2, <2>3, <2>4, TimesNat DEF AnswersInv, Quotes!TypeOK
  <2>8. ~Counted_(t)'
    BY <2>1, <2>2 DEF Counted_
  <2>9. ASSUME NEW v \in Threads, thread[v].at = "refused", Full(v)
        PROVE  Len(h) >= MaxRequests /\ h[Len(h) - MaxRequests + 1] + Window > thread[v].now
    <3>1. Len(g) >= MaxRequests /\ g[Len(g) - MaxRequests + 1] + Window > thread[v].now /\ thread[v].now \in Nat
      BY <1>2, <2>9, TimesNat DEF Full
    <3>2. QED BY <1>4, <2>4, <2>5, <3>1, FullLater DEF h
  <2>10. \A v \in Threads : thread[v].at = "refused" /\ Full(v) =>
           LET g0 == granted'[thread[v].user] IN
           Len(g0) >= MaxRequests /\ g0[Len(g0) - MaxRequests + 1] + Window > thread[v].now
    BY <1>2, <2>7, <2>9
  <2>11. \A x \in Asker : Granting(granted'[x], events'[x], q.now)
    BY <1>2, <2>5, <2>7
  <2>12. QED BY <1>1, <2>1, <2>2, <2>7, <2>8, <2>10, <2>11, LimitMoves
<1>10. QED BY <1>6, <1>7, <1>8, <1>9 DEF Quotes!Consume

LEMMA LimitTick ==
  ASSUME AnswersInv, LimitInv, Quotes!Tick, Noticed
  PROVE  LimitInv'
<1> SUFFICES ASSUME ~raced'
             PROVE  LimitInv'
  BY DEF LimitInv
<1>1. ~raced /\ clock' = clock + 1 /\ UNCHANGED <<events, thread, granted>> /\ clock \in Nat
  BY TimesNat DEF Noticed, Quotes!Tick
<1>2. \A u \in Asker : Granting(granted[u], events[u], clock + 1)
  BY <1>1, TimesNat, GrantingLater DEF LimitInv
<1>3. ASSUME NEW t \in Threads, Counted_(t)
      PROVE  Knows(t)'
  <2>1. Knows(t) /\ thread[t].now \in Nat
    BY <1>1, <1>3, TimesNat DEF LimitInv
  <2>2. thread[t].now <= clock + 1
    BY <1>1, <2>1 DEF Knows
  <2>3. QED BY <1>1, <2>1, <2>2 DEF Knows
<1>4. QED BY <1>1, <1>2, <1>3 DEF LimitInv, Counted_, Full

LEMMA LimitStep ==
  ASSUME AnswersInv, LimitInv, Quotes!Next, Noticed
  PROVE  LimitInv'
<1> SUFFICES ASSUME NEW t \in Threads, Quotes!QuoteRoutes(t)
             PROVE  LimitInv'
  BY LimitTick DEF Quotes!Next
<1>1. thread[t] \in Quotes!Request /\ RequestFits(thread[t], clock)
  BY DEF AnswersInv, Quotes!TypeOK
<1>2. ASSUME NEW r, r.at \notin {"prune", "pop", "count", "append", "refused"},
             thread' = [thread EXCEPT ![t] = r], UNCHANGED <<clock, events, granted>>
      PROVE  LimitInv'
  <2>1. AnswersInv'
    BY AnswersStep DEF Quotes!Next
  <2>2. r \in Quotes!Request
    BY <1>2, <2>1 DEF AnswersInv, Quotes!TypeOK
  <2>3. QED BY <1>2, <2>2, LimitKeeps
<1>3. ASSUME NEW q \in Quotes!Request, NEW s
      PROVE  Quotes!Looked(q, s).at \in {"look", "answered", "fetch"}
  BY <1>3 DEF Quotes!Looked, Quotes!Request
<1>4. ASSUME NEW s \in Symbols, Quotes!Look(t, s)
      PROVE  LimitInv'
  <2>1. AnswersInv' /\ UNCHANGED <<clock, events, granted>>
    BY <1>4, AnswersStep DEF Quotes!Next, Quotes!QuoteRoutes, Quotes!Look
  <2>2. PICK r : thread' = [thread EXCEPT ![t] = r]
                 /\ r \in {Quotes!Missing(thread[t], s), Quotes!Hit(thread[t], s),
                           [thread[t] EXCEPT !.at = "evict", !.missed = @ \cup {s}]}
    BY <1>4 DEF Quotes!Look, Quotes!Goto
  <2>3. \A m \in {[thread[t] EXCEPT !.missed = @ \cup {s}]} : Quotes!Looked(m, s).at \in {"look", "answered", "fetch"}
    BY <1>1 DEF Quotes!Looked, Quotes!Request
  <2>4. ASSUME NEW new
        PROVE  Quotes!Looked([thread[t] EXCEPT !.items = @ \cup {new}], s).at \in {"look", "answered", "fetch"}
    BY <1>1 DEF Quotes!Looked, Quotes!Request
  <2>5. r.at \in {"look", "answered", "fetch", "evict"}
    BY <1>1, <2>2, <2>3, <2>4 DEF Quotes!Missing, Quotes!Hit, Quotes!Request
  <2>6. QED BY <1>2, <2>1, <2>2, <2>5
<1>5. CASE Quotes!Evict(t)
  <2> DEFINE x == CHOOSE x \in thread[t].todo \cap thread[t].missed : TRUE
  <2>1. thread' = [thread EXCEPT ![t] = Quotes!Looked(thread[t], x)] /\ UNCHANGED <<clock, events, granted>>
    BY <1>5 DEF Quotes!Evict, Quotes!Goto
  <2> HIDE DEF x
  <2>2. QED BY <1>1, <1>2, <1>3, <2>1
<1>6. ASSUME NEW s \in Symbols, Quotes!Fetch(t, s)
      PROVE  LimitInv'
  <2> DEFINE r == Quotes!Fetched(thread[t], s)
  <2>1. r.at \in {"store", "fetch"}
    BY <1>1 DEF Quotes!Fetched, Quotes!Request
  <2>2. thread' = [thread EXCEPT ![t] = r] /\ UNCHANGED <<clock, events, granted>>
    BY <1>6 DEF Quotes!Fetch, Quotes!Goto
  <2> HIDE DEF r
  <2>3. QED BY <1>2, <2>1, <2>2
<1>7. ASSUME NEW s \in Symbols, Quotes!Store(t, s)
      PROVE  LimitInv'
  <2> DEFINE left == thread[t].todo \ {s}
             r == [thread[t] EXCEPT !.todo = left, !.at = IF left = {} THEN "answered" ELSE "store"]
  <2>1. r.at \in {"answered", "store"}
    BY <1>1 DEF Quotes!Request
  <2>2. thread' = [thread EXCEPT ![t] = r] /\ UNCHANGED <<clock, events, granted>>
    BY <1>7 DEF Quotes!Store, Quotes!Goto
  <2> HIDE DEF r
  <2>3. QED BY <1>2, <2>1, <2>2
<1>8. ASSUME NEW code \in Failure, Quotes!FetchFails(t, code)
      PROVE  LimitInv'
  <2> DEFINE r == [thread[t] EXCEPT !.at = "failed"]
  <2>1. r.at = "failed"
    BY <1>1 DEF Quotes!Request
  <2>2. thread' = [thread EXCEPT ![t] = r] /\ UNCHANGED <<clock, events, granted>>
    BY <1>8 DEF Quotes!FetchFails, Quotes!Step
  <2> HIDE DEF r
  <2>3. QED BY <1>2, <2>1, <2>2
<1>9. CASE Quotes!Respond(t)
  <2>1. thread' = [thread EXCEPT ![t] = Quotes!Idle] /\ UNCHANGED <<clock, events, granted>> /\ Quotes!Idle.at = "idle"
    BY <1>9 DEF Quotes!Respond, Quotes!Goto, Quotes!Idle
  <2>2. QED BY <1>2, <2>1
<1>10. QED
  BY <1>4, <1>5, <1>6, <1>7, <1>8, <1>9, LimitStart, LimitConsume DEF Quotes!QuoteRoutes

-----------------------------------------------------------------------------
(* The whole of market data                                                *)

MarketInv ==
  /\ AnswersInv /\ LimitInv
  /\ StreamInv
  /\ SyncInv
  /\ close \in Seq(Prices)

LEMMA MarketInit == MCInit => MarketInv
<1> SUFFICES ASSUME MCInit
             PROVE  MarketInv
  OBVIOUS
<1>1. StreamInv /\ SyncInv
  BY StreamInit, SyncInit DEF MCInit
<1>2. close \in Seq(Prices)
  BY DEF MCInit, Charts!Init
<1>3. PICK answered \in {{}, Asked} :
        /\ cache = [s \in Symbols |-> IF s \in answered
                                       THEN [expires |-> Ttl, of |-> s, taken |-> 0] ELSE NoEntry]
        /\ events = [u \in Asker |-> IF answered = {} THEN <<>> ELSE <<0>>]
        /\ granted = events /\ clock = 0 /\ health = "ok"
        /\ thread = [t \in Threads |-> Idle]
  BY DEF MCInit
<1>4. Ttl \in Nat /\ MaxClock \in Nat /\ 0 \in Quotes!Times /\ Ttl \in 0..(MaxClock + Ttl)
  BY LimitAssumption DEF Quotes!Times
<1>5. ASSUME NEW u \in Asker
      PROVE  events[u] = granted[u] /\ (events[u] = <<>> \/ events[u] = <<0>>) /\ events[u] \in Seq(Quotes!Times)
  BY <1>3, <1>4
<1>6. events \in [Asker -> Seq(Quotes!Times)] /\ granted \in [Asker -> Seq(Quotes!Times)]
  BY <1>3, <1>5
<1>7. \A s \in Symbols : [expires |-> Ttl, of |-> s, taken |-> 0] \in Quotes!Entry
  BY <1>4 DEF Quotes!Entry
<1>8. cache \in [Symbols -> Quotes!Entry \cup {NoEntry}]
  BY <1>3, <1>7
<1>9. CacheFits
  <2> SUFFICES ASSUME NEW s \in Symbols, cache[s] # NoEntry
               PROVE  cache[s].of = s /\ cache[s].taken <= clock /\ cache[s].taken + Ttl <= cache[s].expires
    BY DEF CacheFits
  <2>1. cache[s] = [expires |-> Ttl, of |-> s, taken |-> 0]
    BY <1>3
  <2>2. QED BY <1>3, <1>4, <2>1
<1>10. Idle = Quotes!Idle /\ Quotes!Idle.at = "idle"
  BY DEF Idle, Quotes!Idle
<1>11. AnswersInv
  BY <1>3, <1>4, <1>6, <1>8, <1>9, <1>10, IdleFits DEF AnswersInv, Quotes!TypeOK
<1>12. \A u \in Asker : Granting(granted[u], events[u], clock)
  <2> TAKE u \in Asker
  <2>1. CASE events[u] = <<>>
    BY <1>5, <2>1, LimitAssumption DEF Granting
  <2>2. CASE events[u] = <<0>>
    BY <1>3, <1>5, <2>2, LimitAssumption DEF Granting
  <2>3. QED BY <1>5, <2>1, <2>2
<1>13. LimitInv
  BY <1>3, <1>10, <1>12 DEF LimitInv, Counted_
<1>14. QED BY <1>1, <1>2, <1>11, <1>13 DEF MarketInv

LEMMA MarketStep == MarketInv /\ [MCNext]_mcvars => MarketInv'
<1> SUFFICES ASSUME MarketInv, [MCNext]_mcvars
             PROVE  MarketInv'
  OBVIOUS
<1>1. CASE part = "quotes" /\ QuotesNext /\ UNCHANGED <<streamVars, syncVars, close, healthVars>>
  <2>1. AnswersInv' /\ LimitInv'
    BY <1>1, AnswersStep, LimitStep DEF MarketInv, QuotesNext, Noticed
  <2>2. StreamInv'
    BY <1>1, StreamStep DEF MarketInv
  <2>3. SyncInv'
    BY <1>1, SyncStep DEF MarketInv, syncVars, Sync!vars
  <2>4. QED BY <1>1, <2>1, <2>2, <2>3 DEF MarketInv
<1>2. ASSUME UNCHANGED quoteVars
      PROVE  AnswersInv' /\ LimitInv'
  <2>1. AnswersInv'
    BY <1>2, AnswersStep DEF MarketInv, quoteVars, vars, Quotes!vars
  <2>2. UNCHANGED <<clock, events, thread, granted, raced>>
    BY <1>2 DEF quoteVars, vars
  <2>3. LimitInv'
    BY <2>2 DEF MarketInv, LimitInv, Counted_, Granting, Knows, Full
  <2>4. QED BY <2>1, <2>3
<1>3. CASE part = "stream" /\ StreamNext /\ UNCHANGED <<quoteVars, syncVars, close, healthVars>>
  <2>1. StreamInv'
    BY <1>3, StreamStep DEF MarketInv, StreamNext, Watched
  <2>2. SyncInv'
    BY <1>3, SyncStep DEF MarketInv, syncVars, Sync!vars
  <2>3. QED BY <1>2, <1>3, <2>1, <2>2 DEF MarketInv
<1>4. CASE part = "sync" /\ SyncNext /\ UNCHANGED <<quoteVars, streamVars, close, healthVars>>
  <2>1. StreamInv'
    BY <1>4, StreamStep DEF MarketInv
  <2>2. SyncInv'
    BY <1>4, SyncStep DEF MarketInv, SyncNext
  <2>3. QED BY <1>2, <1>4, <2>1, <2>2 DEF MarketInv
<1>5. CASE part = "charts" /\ Charts!Next /\ UNCHANGED <<quoteVars, streamVars, syncVars, healthVars>>
  <2>1. StreamInv'
    BY <1>5, StreamStep DEF MarketInv
  <2>2. SyncInv'
    BY <1>5, SyncStep DEF MarketInv, syncVars, Sync!vars
  <2>3. close' \in Seq(Prices)
    BY <1>5 DEF MarketInv, Charts!Next, Charts!Candle
  <2>4. QED BY <1>2, <1>5, <2>1, <2>2, <2>3 DEF MarketInv
<1>6. CASE \/ part = "health" /\ Health!Next /\ UNCHANGED <<quoteVars, streamVars, syncVars, close>>
           \/ UNCHANGED mcvars
  <2>1. UNCHANGED <<quoteVars, streamVars, syncVars, close>>
    BY <1>6 DEF mcvars
  <2>2. StreamInv'
    BY <2>1, StreamStep DEF MarketInv
  <2>3. SyncInv'
    BY <2>1, SyncStep DEF MarketInv, syncVars, Sync!vars
  <2>4. QED BY <1>2, <2>1, <2>2, <2>3 DEF MarketInv
<1>7. QED BY <1>1, <1>3, <1>4, <1>5, <1>6 DEF MCNext

\* The invariants of the three parts hold together in every reachable state:
\* what quotes, slots and windows, sockets and subscriptions, jobs and the
\* requests that hold them may be.
THEOREM MarketInvariant == MCSpec => []MarketInv
BY MarketInit, MarketStep, PTL DEF MCSpec

\* However requests interleave with each other and with the clock, an answer
\* has one quote of each symbol asked for, none that had expired, and a limiter
\* that counts one request at a time is exact in every window.
THEOREM QuotesAreFit == MCSpec => []QuotesFit
<1>1. MarketInv => QuotesFit
  BY AnswersInvFits, LimitInvFits DEF MarketInv, QuotesFit
<1>2. QED BY <1>1, MarketInvariant, PTL

\* However requests for tasks overlap, retry, cancel or move them by hand, and
\* whenever the process dies, no row mixes two attempts, and what a recorded
\* result calls synchronized is.
THEOREM SyncIsFit == MCSpec => [](Sync!ResultsFit /\ Sync!SyncedKept)
<1>1. MarketInv => Sync!ResultsFit /\ Sync!SyncedKept
  BY SyncInvFits DEF MarketInv
<1>2. QED BY <1>1, MarketInvariant, PTL

\* The places of the stream are counted and never exceed the limit, and no
\* subscription outlives the sockets of its user.
THEOREM StreamPlaces == MCSpec => [](Stream!PlacesCounted /\ Stream!NoneOutlives)
<1>1. MarketInv => Stream!PlacesCounted /\ Stream!NoneOutlives
  BY StreamInvFits DEF MarketInv
<1>2. QED BY <1>1, MarketInvariant, PTL

\* While the sockets of a user are served one at a time, subscriptions go with
\* the socket they were made on or by an unsubscription, and no poll misses its.
THEOREM StreamSerial == MCSpec => SerialSubscriptions
<1> DEFINE Gone == ~together' => \A u \in Users : \A i \in subscriptions[u] \ subscriptions'[u] :
       \/ socket'[opener[i]].at = "ended" /\ (socket[opener[i]].lost \/ Stream!At(opener[i], "receiving"))
       \/ subscriptions[u] \ subscriptions'[u] = {i} /\ socket' = socket
<1>1. MarketInv /\ [MCNext]_mcvars => [Gone]_mcvars
  <2> SUFFICES ASSUME MarketInv, MCNext, ~together', NEW u \in Users,
                      NEW i \in subscriptions[u] \ subscriptions'[u]
               PROVE  \/ socket'[opener[i]].at = "ended" /\ (socket[opener[i]].lost \/ Stream!At(opener[i], "receiving"))
                      \/ subscriptions[u] \ subscriptions'[u] = {i} /\ socket' = socket
    OBVIOUS
  <2>1. Stream!Next /\ Watched
    BY DEF MCNext, streamVars, StreamNext, Watched
  <2>2. QED BY <2>1, SerialGone DEF MarketInv
<1>2. QED BY <1>1, MarketInvariant, PTL DEF MCSpec, SerialSubscriptions

-----------------------------------------------------------------------------
(* Numbers                                                                 *)

\* Among some subsets of a finite set there is one without a smaller one.
LEMMA SmallestSubset ==
  ASSUME NEW S, IsFiniteSet(S), NEW B \in SUBSET SUBSET S, B # {}
  PROVE  \E T \in B : \A U \in SUBSET T : U # T => U \notin B
<1>1. B \subseteq FiniteSubsetsOf(S)
  BY FS_Subset DEF FiniteSubsetsOf
<1>2. PICK T \in B : \A U \in B : ~(<<U, T>> \in StrictSubsetOrdering(S))
  BY <1>1, FS_StrictSubsetOrderingWellFounded, WFMin, Zenon
<1>3. ASSUME NEW U \in SUBSET T, U # T PROVE U \notin B
  BY <1>2, <1>3 DEF StrictSubsetOrdering
<1>4. QED BY <1>2, <1>3

\* A finite set of numbers has a last one.
LEMMA HasLast ==
  ASSUME NEW S \in SUBSET Int, IsFiniteSet(S), S # {}
  PROVE  \E m \in S : \A x \in S : x <= m
<1> DEFINE Bad(U) == U # {} /\ ~\E m \in U : \A x \in U : x <= m
           B == {U \in SUBSET S : Bad(U)}
<1>1. SUFFICES ASSUME B # {} PROVE FALSE
  OBVIOUS
<1>b. B \in SUBSET SUBSET S OBVIOUS
<1>2. PICK U \in B : \A V \in SUBSET U : V # U => V \notin B
  <2> HIDE DEF B
  <2>1. QED BY <1>1, <1>b, SmallestSubset
<1>3. U \in SUBSET S /\ Bad(U) OBVIOUS
<1>4. PICK x \in U : TRUE BY <1>3
<1>5. PICK V \in SUBSET S : V = U \ {x} BY <1>3
<1>6. ~Bad(V) BY <1>2, <1>4, <1>5
<1>7. CASE V = {}
  <2>1. \A y \in U : y <= x BY <1>3, <1>4, <1>5, <1>7
  <2>2. QED BY <1>3, <1>4, <2>1
<1>8. CASE V # {}
  <2>1. PICK m \in V : \A y \in V : y <= m BY <1>6, <1>8
  <2>2. m \in U /\ x \in Int /\ m \in Int /\ U \subseteq V \cup {x} BY <1>3, <1>4, <1>5
  <2>3. CASE x <= m
    <3>1. \A y \in U : y <= m BY <2>1, <2>2, <2>3
    <3>2. QED BY <1>3, <2>2, <3>1
  <2>4. CASE ~(x <= m)
    <3>1. \A y \in U : y <= x
      <4> SUFFICES ASSUME NEW y \in U PROVE y <= x
        OBVIOUS
      <4>1. y \in Int BY <1>3
      <4>2. CASE y \in V BY <2>1, <2>2, <2>4, <4>1, <4>2
      <4>3. CASE y = x BY <4>1, <4>3
      <4>4. QED BY <2>2, <4>2, <4>3
    <3>2. QED BY <1>3, <1>4, <3>1
  <2>5. QED BY <2>3, <2>4
<1>9. QED BY <1>7, <1>8

\* A set of numbers has a least one.
LEMMA HasLeast ==
  ASSUME NEW S \in SUBSET Nat, S # {}
  PROVE  \E m \in S : \A x \in S : m <= x
<1>1. PICK m \in S : \A x \in S : ~(<<x, m>> \in OpToRel(<, Nat))
  BY NatLessThanWellFounded, WFMin
<1>2. \A x \in S : ~(x < m) BY <1>1 DEF OpToRel
<1>3. QED BY <1>2

\* A quotient is known by its multiples.
LEMMA QuotientIs ==
  ASSUME NEW d \in Int, NEW s \in Nat \ {0}, NEW q \in Int, q * s <= d, d < q * s + s
  PROVE  d \div s = q
OBVIOUS

\* A quotient is the last whose multiple is no more.
LEMMA QuotientFits ==
  ASSUME NEW d \in Int, NEW s \in Nat \ {0}
  PROVE  (d \div s) \in Int /\ (d \div s) * s <= d /\ d < (d \div s) * s + s
OBVIOUS

-----------------------------------------------------------------------------
(* The greatest common divisor                                             *)

Divides(g, a) == \E x \in Nat : a = x * g

CommonDivisors(a, b) == {g \in Nat \ {0} : Divides(g, a) /\ Divides(g, b)}

\* A product of a natural number and a positive one is no smaller.
LEMMA ProductGrows ==
  ASSUME NEW x \in Int, NEW g \in Nat \ {0}
  PROVE  /\ x * g \in Int
         /\ x >= 1 => x * g >= g /\ x * g >= x
         /\ x < 0 => x * g <= -g
         /\ x = 0 => x * g = 0
<1>1. CASE x >= 1
  <2>1. PICK y \in Nat : x = y + 1
    <3>1. x - 1 \in Nat /\ x = (x - 1) + 1 BY <1>1
    <3>2. QED BY <3>1
  <2>2. PICK h \in Nat : g = h + 1
    <3>1. g - 1 \in Nat /\ g = (g - 1) + 1 OBVIOUS
    <3>2. QED BY <3>1
  <2>3. y * h \in Nat BY <2>1, <2>2
  <2>4. x * g = y * h + y + h + 1 BY <2>1, <2>2
  <2>5. QED BY <1>1, <2>1, <2>2, <2>3, <2>4
<1>2. CASE x < 0
  <2>1. PICK y \in Nat : x = -(y + 1)
    <3>1. -x - 1 \in Nat /\ x = -((-x - 1) + 1) BY <1>2
    <3>2. QED BY <3>1
  <2>2. x * g = -(y * g) - g BY <2>1
  <2>3. y * g \in Nat BY <2>1
  <2>4. QED BY <1>2, <2>2, <2>3
<1>3. CASE x = 0 BY <1>3
<1>4. QED BY <1>1, <1>2, <1>3

\* What is left over by a division is less than the divisor.
LEMMA RemainderIs ==
  ASSUME NEW a \in Nat, NEW b \in Nat \ {0}
  PROVE  a % b \in Nat /\ a % b < b /\ \E q \in Nat : a = q * b + (a % b)
<1>1. PICK q : q = a \div b OBVIOUS
<1>2. q \in Int /\ a = q * b + (a % b) /\ a % b \in Nat /\ a % b < b BY <1>1
<1>3. q >= 0
  <2>1. PICK u \in Int : u = q * b BY <1>2
  <2>2. q < 0 => u <= -b BY <1>2, <2>1, ProductGrows
  <2>3. PICK r \in Nat : r = a % b /\ r < b BY <1>2
  <2>4. a = u + r BY <1>2, <2>1, <2>3
  <2>5. ~(q < 0) BY <2>2, <2>3, <2>4
  <2>6. QED BY <1>2, <2>5
<1>4. QED BY <1>2, <1>3

\* A step of Euclid's algorithm keeps the common divisors.
LEMMA CommonStep ==
  ASSUME NEW a \in Nat, NEW b \in Nat \ {0}
  PROVE  CommonDivisors(a, b) = CommonDivisors(b, a % b)
<1>1. PICK r \in Nat : r = a % b /\ r < b BY RemainderIs
<1>2. PICK q \in Nat : a = q * b + r BY <1>1, RemainderIs
<1>3. ASSUME NEW g \in Nat \ {0}, NEW y \in Nat, b = y * g
      PROVE  Divides(g, a) <=> Divides(g, r)
  <2>1. ASSUME NEW x \in Nat, a = x * g PROVE Divides(g, r)
    <3>1. PICK z \in Int : z = q * y OBVIOUS
    <3>2. PICK u \in Int : u = x - z BY <3>1
    <3>3. u * g = x * g - z * g BY <3>1, <3>2
    <3>4. z * g = q * (y * g) BY <3>1
    <3>5. r = u * g BY <1>2, <1>3, <2>1, <3>3, <3>4
    <3>6. u >= 0
      <4>1. u < 0 => u * g <= -g BY <3>2, ProductGrows
      <4>2. QED BY <3>2, <3>5, <4>1
    <3>7. QED BY <3>2, <3>5, <3>6 DEF Divides
  <2>2. ASSUME NEW u \in Nat, r = u * g PROVE Divides(g, a)
    <3>1. PICK x \in Nat : x = q * y + u OBVIOUS
    <3>2. x * g = q * (y * g) + u * g BY <3>1
    <3>3. QED BY <1>2, <1>3, <2>2, <3>1, <3>2 DEF Divides
  <2>3. QED BY <2>1, <2>2 DEF Divides
<1>4. ASSUME NEW g \in Nat \ {0}, Divides(g, b) PROVE Divides(g, a) <=> Divides(g, r)
  <2>1. PICK y \in Nat : b = y * g BY <1>4 DEF Divides
  <2>2. QED BY <1>3, <2>1
<1>5. QED BY <1>1, <1>4 DEF CommonDivisors

\* The greatest common divisor.
IsMost(g, a, b) == g \in CommonDivisors(a, b) /\ \A h \in CommonDivisors(a, b) : h <= g

\* Two numbers that are not both 0 have a greatest common divisor.
LEMMA HasMost ==
  ASSUME NEW a \in Nat, NEW b \in Nat, a # 0 \/ b # 0
  PROVE  \E g \in Nat \ {0} : IsMost(g, a, b)
<1>1. PICK n \in Nat \ {0} : n = a \/ n = b OBVIOUS
<1>2. ASSUME NEW g \in CommonDivisors(a, b) PROVE g \in 1..n
  <2>1. g \in Nat \ {0} BY DEF CommonDivisors
  <2>2. PICK x \in Nat : n = x * g BY <1>1 DEF CommonDivisors, Divides
  <2>3. x >= 1 => x * g >= g BY <2>1, ProductGrows
  <2>4. x = 0 => x * g = 0 BY <2>1, ProductGrows
  <2>5. x >= 1 BY <2>2, <2>4
  <2>6. QED BY <2>1, <2>2, <2>3, <2>5
<1>3. 1 \in CommonDivisors(a, b)
  <2>1. a = a * 1 /\ b = b * 1 OBVIOUS
  <2>2. Divides(1, a) /\ Divides(1, b) BY <2>1 DEF Divides
  <2>3. QED BY <2>2 DEF CommonDivisors
<1>4. IsFiniteSet(CommonDivisors(a, b))
  <2>1. CommonDivisors(a, b) \in SUBSET (1..n) BY <1>2
  <2>2. IsFiniteSet(1..n) BY FS_Interval
  <2>3. QED BY <2>1, <2>2, FS_Subset
<1>5. CommonDivisors(a, b) \in SUBSET Int /\ CommonDivisors(a, b) # {} BY <1>3 DEF CommonDivisors
<1>6. PICK g \in CommonDivisors(a, b) : \A h \in CommonDivisors(a, b) : h <= g BY <1>4, <1>5, HasLast
<1>7. g \in Nat \ {0} BY DEF CommonDivisors
<1>8. QED BY <1>6, <1>7 DEF IsMost

\* Gcd is what its equation says: there is a function that does it.
LEMMA GcdIs ==
  \A a, b \in Nat : Health!Gcd[<<a, b>>] = IF b = 0 THEN a ELSE Health!Gcd[<<b, a % b>>]
<1> DEFINE body(F) == [p \in Nat \X Nat |-> IF p[2] = 0 THEN p[1] ELSE F[<<p[2], p[1] % p[2]>>]]
           most(a, b) == IF a = 0 /\ b = 0 THEN 0 ELSE CHOOSE g \in Nat \ {0} : IsMost(g, a, b)
<1>1. Health!Gcd = CHOOSE F : F = body(F) BY DEF Health!Gcd
<1>2. ASSUME NEW a \in Nat, NEW b \in Nat PROVE most(a, b) = IF b = 0 THEN a ELSE most(b, a % b)
  <2>1. CASE b = 0 /\ a = 0 BY <2>1
  <2>2. CASE b = 0 /\ a # 0
    <3>1. PICK g : g = CHOOSE h \in Nat \ {0} : IsMost(h, a, b) OBVIOUS
    <3>2. g \in Nat \ {0} /\ IsMost(g, a, b) BY <2>2, <3>1, HasMost
    <3>3. a = 1 * a /\ b = 0 * a BY <2>2
    <3>4. a \in CommonDivisors(a, b) BY <2>2, <3>3 DEF CommonDivisors, Divides
    <3>5. a <= g BY <3>2, <3>4 DEF IsMost
    <3>6. PICK x \in Nat : a = x * g BY <3>2 DEF IsMost, CommonDivisors, Divides
    <3>7. x >= 1 => x * g >= g BY <3>2, ProductGrows
    <3>8. x = 0 => x * g = 0 BY <3>2, ProductGrows
    <3>9. g <= a BY <2>2, <3>6, <3>7, <3>8
    <3>10. a = g BY <3>2, <3>5, <3>9
    <3>11. QED BY <2>2, <3>1, <3>10
  <2>3. CASE b # 0
    <3>1. CommonDivisors(a, b) = CommonDivisors(b, a % b) BY <2>3, CommonStep
    <3>2. \A g : IsMost(g, a, b) <=> IsMost(g, b, a % b) BY <3>1 DEF IsMost
    <3>3. (CHOOSE g \in Nat \ {0} : IsMost(g, a, b)) = CHOOSE g \in Nat \ {0} : IsMost(g, b, a % b)
      BY <3>2
    <3>4. QED BY <2>3, <3>3
  <2>4. QED BY <2>1, <2>2, <2>3
<1>3. PICK M : M = [p \in Nat \X Nat |-> most(p[1], p[2])] OBVIOUS
<1> HIDE DEF most
<1>4. M = body(M)
  <2>1. ASSUME NEW p \in Nat \X Nat PROVE M[p] = body(M)[p]
    <3>1. PICK a \in Nat, b \in Nat : p = <<a, b>> OBVIOUS
    <3>2. M[p] = most(a, b) BY <1>3, <3>1
    <3>3. body(M)[p] = IF b = 0 THEN a ELSE M[<<b, a % b>>] BY <3>1
    <3>4. b # 0 => M[<<b, a % b>>] = most(b, a % b)
      <4>1. b # 0 => <<b, a % b>> \in Nat \X Nat BY RemainderIs
      <4>2. QED BY <1>3, <4>1
    <3>5. QED BY <1>2, <3>2, <3>3, <3>4
  <2>2. QED BY <1>3, <2>1
<1>5. Health!Gcd = body(Health!Gcd) BY <1>1, <1>4
<1> HIDE DEF body
<1>6. ASSUME NEW a \in Nat, NEW b \in Nat
      PROVE  Health!Gcd[<<a, b>>] = IF b = 0 THEN a ELSE Health!Gcd[<<b, a % b>>]
  <2>1. <<a, b>> \in Nat \X Nat /\ <<a, b>>[1] = a /\ <<a, b>>[2] = b OBVIOUS
  <2>2. body(Health!Gcd)[<<a, b>>] = IF b = 0 THEN a ELSE Health!Gcd[<<b, a % b>>] BY <2>1 DEF body
  <2>3. QED BY <1>5, <2>2
<1>7. QED BY <1>6

GcdFits(a, b) ==
  /\ Health!Gcd[<<a, b>>] \in Nat /\ (a # 0 \/ b # 0 => Health!Gcd[<<a, b>>] # 0)
  /\ Divides(Health!Gcd[<<a, b>>], a) /\ Divides(Health!Gcd[<<a, b>>], b)

\* Gcd is the greatest common divisor, for all numbers.
LEMMA GcdDivides ==
  \A a, b \in Nat : GcdFits(a, b)
<1> DEFINE B == {b \in Nat : \E a \in Nat : ~GcdFits(a, b)}
<1>1. SUFFICES ASSUME B # {} PROVE FALSE
  OBVIOUS
<1>2. B \in SUBSET Nat OBVIOUS
<1>3. PICK b \in B : \A c \in B : b <= c
  <2> HIDE DEF B
  <2>1. QED BY <1>1, <1>2, HasLeast
<1>4. b \in Nat /\ \E a \in Nat : ~GcdFits(a, b) OBVIOUS
<1>5. PICK a \in Nat : ~GcdFits(a, b) BY <1>4
<1>6. CASE b = 0
  <2>1. Health!Gcd[<<a, b>>] = a BY <1>6, GcdIs
  <2>2. a = 1 * a /\ 0 = 0 * a OBVIOUS
  <2>3. Divides(a, a) /\ Divides(a, 0) BY <2>2 DEF Divides
  <2>4. QED BY <1>5, <1>6, <2>1, <2>3 DEF GcdFits
<1>7. CASE b # 0
  <2>1. PICK r \in Nat : r = a % b /\ r < b BY <1>4, <1>7, RemainderIs
  <2>2. PICK q \in Nat : a = q * b + r BY <1>4, <1>7, <2>1, RemainderIs
  <2>3. r \notin B BY <1>3, <1>4, <2>1
  <2>4. GcdFits(b, r) BY <1>4, <2>3
  <2>5. Health!Gcd[<<a, b>>] = Health!Gcd[<<b, r>>] BY <1>4, <1>7, <2>1, GcdIs
  <2>6. PICK g : g = Health!Gcd[<<b, r>>] OBVIOUS
  <2>7. g \in Nat \ {0} /\ Divides(g, b) /\ Divides(g, r) BY <1>4, <1>7, <2>4, <2>6 DEF GcdFits
  <2>8. PICK y, u \in Nat : b = y * g /\ r = u * g BY <2>7 DEF Divides
  <2>9. PICK x \in Nat : x = q * y + u OBVIOUS
  <2>10. x * g = q * (y * g) + u * g BY <2>7, <2>9
  <2>11. a = x * g BY <2>2, <2>8, <2>10
  <2>12. Divides(g, a) BY <2>9, <2>11 DEF Divides
  <2>13. QED BY <1>5, <2>5, <2>6, <2>7, <2>12 DEF GcdFits
<1>8. QED BY <1>6, <1>7

ScaledBy(k, a, m) == m = k * a

\* Remainders are multiplied as what is divided is.
LEMMA RemainderScaled ==
  ASSUME NEW k \in Nat \ {0}, NEW a \in Nat, NEW b \in Nat \ {0},
         NEW m, NEW c, ScaledBy(k, a, m), ScaledBy(k, b, c)
  PROVE  c \in Nat \ {0} /\ m \in Nat /\ ScaledBy(k, a % b, m % c)
<1>1. PICK r \in Nat : r = a % b /\ r < b BY RemainderIs
<1>2. PICK q \in Nat : a = q * b + r BY <1>1, RemainderIs
<1>3. PICK d, n, s \in Int : d = k * b /\ n = k * a /\ s = k * r BY <1>1
<1>4. d \in Nat \ {0} BY <1>3, ProductGrows
<1>5. n = q * d + s
  <2>1. k * (q * b + r) = q * (k * b) + k * r BY <1>1, <1>2
  <2>2. QED BY <1>2, <1>3, <2>1
<1>6. 0 <= s /\ s < d
  <2>1. s \in Nat BY <1>1, <1>3
  <2>2. PICK e \in Nat : b = r + e + 1
    <3>1. b - r - 1 \in Nat /\ b = r + (b - r - 1) + 1 BY <1>1
    <3>2. QED BY <3>1
  <2>3. d = s + k * e + k
    <3>1. k * (r + e + 1) = k * r + k * e + k BY <1>1, <2>2
    <3>2. QED BY <1>3, <2>2, <3>1
  <2>4. k * e \in Nat BY <2>2
  <2>5. QED BY <1>3, <2>1, <2>3, <2>4
<1>7. n \in Nat
  <2>1. q * d \in Nat BY <1>4
  <2>2. QED BY <1>3, <1>5, <1>6, <2>1
<1>8. n % d = s
  <2>1. PICK t \in Nat : t = n % d /\ t < d BY <1>4, <1>7, RemainderIs
  <2>2. PICK p \in Nat : n = p * d + t BY <1>4, <1>7, <2>1, RemainderIs
  <2>3. PICK v \in Int : v = p - q OBVIOUS
  <2>4. v * d = p * d - q * d BY <1>4, <2>3
  <2>5. s - t = v * d
    <3>1. PICK x, y \in Int : x = p * d /\ y = q * d BY <1>4
    <3>2. s - t = x - y BY <1>3, <1>5, <2>2, <3>1
    <3>3. QED BY <2>4, <3>1, <3>2
  <2>6. v = 0
    <3>1. v >= 1 => v * d >= d BY <1>4, <2>3, ProductGrows
    <3>2. v < 0 => v * d <= -d BY <1>4, <2>3, ProductGrows
    <3>3. PICK w \in Int : w = v * d BY <1>4, <2>3
    <3>4. w < d /\ w > -d BY <1>4, <1>6, <2>1, <2>5, <3>3
    <3>5. ~(v >= 1) /\ ~(v < 0) BY <1>4, <3>1, <3>2, <3>3, <3>4
    <3>6. QED BY <2>3, <3>5
  <2>7. v * d = 0 BY <1>4, <2>6
  <2>8. QED BY <1>3, <2>1, <2>5, <2>7
<1>9. m = n /\ c = d BY <1>3 DEF ScaledBy
<1>10. QED BY <1>1, <1>3, <1>4, <1>7, <1>8, <1>9 DEF ScaledBy

Scales(k, a, b) == Health!Gcd[<<k * a, k * b>>] = k * Health!Gcd[<<a, b>>]

\* Gcd is multiplied as both its numbers are.
LEMMA GcdScaled ==
  ASSUME NEW k \in Nat \ {0}
  PROVE  \A a, b \in Nat : Scales(k, a, b)
<1> DEFINE B == {b \in Nat : \E a \in Nat : ~Scales(k, a, b)}
<1>1. SUFFICES ASSUME B # {} PROVE FALSE
  OBVIOUS
<1>2. B \in SUBSET Nat OBVIOUS
<1>3. \A b \in Nat : b \in B <=> \E a \in Nat : ~Scales(k, a, b) OBVIOUS
<1> HIDE DEF B
<1>4. PICK b \in B : \A c \in B : b <= c BY <1>1, <1>2, HasLeast
<1>5. b \in Nat BY <1>2
<1>6. PICK a \in Nat : ~Scales(k, a, b) BY <1>3, <1>5
<1>7. CASE b = 0
  <2>1. Health!Gcd[<<a, b>>] = a BY <1>7, GcdIs
  <2>2. PICK m \in Nat : m = k * a OBVIOUS
  <2>3. k * b = 0 BY <1>7
  <2>4. Health!Gcd[<<m, 0>>] = m BY GcdIs
  <2>5. QED BY <1>6, <2>1, <2>2, <2>3, <2>4 DEF Scales
<1>8. CASE b # 0
  <2>1. PICK r \in Nat : r = a % b /\ r < b BY <1>5, <1>8, RemainderIs
  <2>2. ~(b <= r) BY <1>5, <2>1
  <2>3. Scales(k, b, r) BY <1>3, <1>4, <1>5, <2>2
  <2>4. Health!Gcd[<<a, b>>] = Health!Gcd[<<b, r>>] BY <1>5, <1>8, <2>1, GcdIs
  <2>5. PICK m, n : m = k * a /\ n = k * b OBVIOUS
  <2>10. ScaledBy(k, a, m) /\ ScaledBy(k, b, n) BY <2>5 DEF ScaledBy
  <2>6. n \in Nat \ {0} /\ m \in Nat /\ m % n = k * r
    <3>1. b \in Nat \ {0} BY <1>5, <1>8
    <3>2. n \in Nat \ {0} /\ m \in Nat /\ ScaledBy(k, a % b, m % n)
      BY <2>10, <3>1, RemainderScaled
    <3>3. QED BY <2>1, <3>2 DEF ScaledBy
  <2>7. Health!Gcd[<<m, n>>] = Health!Gcd[<<n, m % n>>] BY <2>6, GcdIs
  <2>8. Health!Gcd[<<k * a, k * b>>] = Health!Gcd[<<k * b, k * r>>] BY <2>5, <2>6, <2>7
  <2>9. QED BY <1>6, <2>3, <2>4, <2>8 DEF Scales
<1>9. QED BY <1>7, <1>8

-----------------------------------------------------------------------------
(* Fractions                                                               *)

\* Reducing a fraction keeps its value.
LEMMA FracIs ==
  ASSUME NEW n \in Int, NEW d \in Int \ {0}
  PROVE  Health!Frac(n, d) \in Health!Fraction /\ Health!Frac(n, d).num * d = n * Health!Frac(n, d).den
<1>1. PICK a, b \in Nat : a = Health!Abs(n) /\ b = Health!Abs(d) /\ b # 0 BY DEF Health!Abs
<1>2. PICK g : g = Health!Gcd[<<a, b>>] OBVIOUS
<1>3. g \in Nat \ {0} /\ Divides(g, a) /\ Divides(g, b) BY <1>1, <1>2, GcdDivides DEF GcdFits
<1>4. PICK x, y \in Nat : a = x * g /\ b = y * g BY <1>3 DEF Divides
<1>5. y # 0 BY <1>1, <1>3, <1>4
<1>6. PICK z \in Int : z = IF n < 0 THEN -x ELSE x OBVIOUS
<1>7. n = z * g
  <2>1. CASE n < 0
    <3>1. n = -a BY <1>1, <2>1 DEF Health!Abs
    <3>2. (-x) * g = -(x * g) BY <1>3
    <3>3. QED BY <1>4, <1>6, <2>1, <3>1, <3>2
  <2>2. CASE ~(n < 0)
    <3>1. n = a BY <1>1, <2>2 DEF Health!Abs
    <3>2. QED BY <1>4, <1>6, <2>2, <3>1
  <2>3. QED BY <2>1, <2>2
<1>8. n \div g = z
  <2>1. z * g <= n /\ n < z * g + g BY <1>3, <1>7
  <2>2. QED BY <1>3, <2>1, QuotientIs
<1>9. b \div g = y
  <2>1. y * g <= b /\ b < y * g + g BY <1>3, <1>4
  <2>2. QED BY <1>3, <2>1, QuotientIs
<1>10. PICK s \in Int : s = Health!Sign(d) /\ (s = 1 \/ s = -1) /\ d = s * b
  BY <1>1 DEF Health!Sign, Health!Abs
<1>11. PICK f : f = Health!Frac(n, d) OBVIOUS
<1>12. f = [num |-> z * s, den |-> y]
  BY <1>1, <1>2, <1>8, <1>9, <1>10, <1>11 DEF Health!Frac
<1>13. f \in Health!Fraction
  <2>1. z * s \in Int BY <1>10
  <2>2. QED BY <1>5, <1>12, <2>1 DEF Health!Fraction
<1>14. s * s = 1 BY <1>10
<1>15. (z * s) * (s * (y * g)) = (z * g) * y
  <2>1. (z * s) * (s * (y * g)) = (s * s) * ((z * g) * y) BY <1>3
  <2>2. QED BY <1>3, <1>14, <2>1
<1>16. f.num * d = n * f.den BY <1>4, <1>7, <1>10, <1>12, <1>15
<1>17. QED BY <1>11, <1>13, <1>16

\* Multiplying by a positive number keeps the order of two others.
LEMMA ProductOrder ==
  ASSUME NEW x \in Int, NEW y \in Int, NEW k \in Nat
  PROVE  /\ x * k \in Int /\ y * k \in Int
         /\ x <= y => x * k <= y * k
         /\ k # 0 /\ x < y => x * k < y * k
         /\ k # 0 /\ x * k <= y * k => x <= y
         /\ k # 0 /\ x * k = y * k => x = y
<1>1. PICK d \in Int : d = y - x OBVIOUS
<1>2. PICK u, v, w \in Int : u = x * k /\ v = y * k /\ w = d * k BY <1>1
<1>3. w = v - u
  <2>1. (y - x) * k = y * k - x * k OBVIOUS
  <2>2. QED BY <1>1, <1>2, <2>1
<1>4. d >= 0 => w >= 0
  <2>1. d \in Nat => d * k \in Nat OBVIOUS
  <2>2. QED BY <1>1, <1>2, <2>1
<1>5. k # 0 => (d >= 1 => w >= k) /\ (d < 0 => w <= -k) BY <1>1, <1>2, ProductGrows
<1>6. QED BY <1>1, <1>2, <1>3, <1>4, <1>5

\* A fraction is the same with both of its parts multiplied.
LEMMA FracScaled ==
  ASSUME NEW n \in Int, NEW d \in Int \ {0}, NEW k \in Int \ {0},
         NEW m, NEW e, ScaledBy(k, n, m), ScaledBy(k, d, e)
  PROVE  e # 0 /\ Health!Frac(m, e) = Health!Frac(n, d)
<1>0. m \in Int /\ e \in Int /\ m = n * k /\ e = d * k BY DEF ScaledBy
<1>1. PICK a, b, j \in Nat : a = Health!Abs(n) /\ b = Health!Abs(d) /\ b # 0 /\ j = Health!Abs(k) /\ j # 0
  BY DEF Health!Abs
<1>2. PICK g : g = Health!Gcd[<<a, b>>] OBVIOUS
<1>3. g \in Nat \ {0} /\ Divides(g, a) /\ Divides(g, b) BY <1>1, <1>2, GcdDivides DEF GcdFits
<1>4. PICK t \in Int : t = Health!Sign(k) /\ (t = 1 \/ t = -1) /\ k = t * j
  BY <1>1 DEF Health!Sign, Health!Abs
<1>5. e # 0 /\ Health!Sign(e) = Health!Sign(d) * t /\ Health!Abs(e) = j * b
  <2>1. PICK s \in Int : s = Health!Sign(d) /\ (s = 1 \/ s = -1) /\ d = s * b
    BY <1>1 DEF Health!Sign, Health!Abs
  <2>2. PICK p \in Nat \ {0} : p = j * b
    <3>1. j * b \in Int /\ (j >= 1 => j * b >= b) BY <1>1, ProductGrows
    <3>2. QED BY <1>1, <3>1
  <2>3. (s * b) * (t * j) = (s * t) * (j * b) BY <1>1, <1>4, <2>1
  <2>4. PICK v \in Int : v = s * t /\ (v = 1 \/ v = -1) BY <1>4, <2>1
  <2>5. e = v * p BY <1>0, <1>4, <2>1, <2>2, <2>3, <2>4
  <2>6. e = p \/ e = -p BY <2>2, <2>4, <2>5
  <2>7. v = 1 => e = p BY <2>2, <2>4, <2>5
  <2>8. v = -1 => e = -p BY <2>2, <2>4, <2>5
  <2>9. Health!Sign(e) = v /\ Health!Abs(e) = p BY <2>2, <2>4, <2>7, <2>8 DEF Health!Sign, Health!Abs
  <2>10. e # 0 BY <2>2, <2>6
  <2>11. v = Health!Sign(d) * t BY <2>1, <2>4
  <2>12. Health!Abs(e) = j * b BY <2>2, <2>9
  <2>13. QED BY <2>9, <2>10, <2>11, <2>12
<1>6. Health!Abs(m) = j * a
  <2>1. PICK s \in Int : (s = 1 \/ s = -1) /\ n = s * a BY <1>1 DEF Health!Abs
  <2>2. PICK p \in Nat : p = j * a BY <1>1
  <2>3. (s * a) * (t * j) = (s * t) * (j * a) BY <1>1, <1>4, <2>1
  <2>4. PICK v \in Int : v = s * t /\ (v = 1 \/ v = -1) BY <1>4, <2>1
  <2>5. m = v * p BY <1>0, <1>4, <2>1, <2>2, <2>3, <2>4
  <2>6. m = p \/ m = -p BY <2>2, <2>4, <2>5
  <2>7. QED BY <2>2, <2>6 DEF Health!Abs
<1>7. PICK h \in Nat \ {0} : h = j * g /\ h = Health!Gcd[<<Health!Abs(m), Health!Abs(e)>>]
  <2>1. Scales(j, a, b) BY <1>1, GcdScaled
  <2>2. j * g \in Int /\ (j >= 1 => j * g >= g) BY <1>1, <1>3, ProductGrows
  <2>3. QED BY <1>1, <1>2, <1>3, <1>5, <1>6, <2>1, <2>2 DEF Scales
<1>8. PICK x, y \in Nat : a = x * g /\ b = y * g BY <1>3 DEF Divides
<1>9. PICK z \in Int : z = IF n < 0 THEN -x ELSE x OBVIOUS
<1>10. n = z * g
  <2>1. CASE n < 0
    <3>1. n = -a BY <1>1, <2>1 DEF Health!Abs
    <3>2. (-x) * g = -(x * g) BY <1>3
    <3>3. QED BY <1>8, <1>9, <2>1, <3>1, <3>2
  <2>2. CASE ~(n < 0)
    <3>1. n = a BY <1>1, <2>2 DEF Health!Abs
    <3>2. QED BY <1>8, <1>9, <2>2, <3>1
  <2>3. QED BY <2>1, <2>2
<1>11. n \div g = z
  <2>1. z * g <= n /\ n < z * g + g BY <1>3, <1>10
  <2>2. QED BY <1>3, <2>1, QuotientIs
<1>12. b \div g = y
  <2>1. y * g <= b /\ b < y * g + g BY <1>3, <1>8
  <2>2. QED BY <1>3, <2>1, QuotientIs
<1>13. PICK zt \in Int : zt = z * t BY <1>4
<1>14. m \div h = zt
  <2>1. m = zt * h
    <3>1. (z * g) * (t * j) = (z * t) * (j * g) BY <1>3, <1>4
    <3>2. QED BY <1>0, <1>4, <1>7, <1>10, <1>13, <3>1
  <2>4. h \in Nat \ {0} /\ zt \in Int BY <1>7, <1>13
  <2>2. zt * h <= m /\ m < zt * h + h BY <2>1, <2>4
  <2>3. QED BY <1>0, <2>2, <2>4, QuotientIs
<1>15. Health!Abs(e) \div h = y
  <2>1. j * b = y * h
    <3>1. j * (y * g) = y * (j * g) BY <1>3
    <3>2. QED BY <1>7, <1>8, <3>1
  <2>2. PICK c \in Int : c = j * b /\ c = y * h BY <1>1, <1>7, <2>1
  <2>3. y * h <= c /\ c < y * h + h BY <1>7, <2>2
  <2>4. c \div h = y BY <1>7, <2>2, <2>3, QuotientIs
  <2>5. QED BY <1>5, <2>2, <2>4
<1>16. PICK s \in Int : s = Health!Sign(d) /\ (s = 1 \/ s = -1) BY DEF Health!Sign
<1>17. zt * (s * t) = z * s
  <2>1. (z * t) * (s * t) = (t * t) * (z * s) BY <1>4, <1>16
  <2>2. t * t = 1 BY <1>4
  <2>3. z * s \in Int BY <1>16
  <2>4. QED BY <1>13, <2>1, <2>2, <2>3
<1>18. Health!Frac(m, e) = [num |-> zt * (s * t), den |-> y]
  BY <1>5, <1>7, <1>14, <1>15, <1>16 DEF Health!Frac
<1>19. Health!Frac(n, d) = [num |-> z * s, den |-> y] BY <1>1, <1>2, <1>11, <1>12, <1>16 DEF Health!Frac
<1>20. QED BY <1>5, <1>17, <1>18, <1>19

\* Fractions of one value are one.
LEMMA FracSame ==
  ASSUME NEW n \in Int, NEW d \in Int \ {0}, NEW m \in Int, NEW e \in Int \ {0}, n * e = m * d
  PROVE  Health!Frac(n, d) = Health!Frac(m, e)
<1>1. PICK p, q \in Int : p = n * e /\ q = d * e OBVIOUS
<1>2. ScaledBy(e, n, p) /\ ScaledBy(e, d, q) BY <1>1 DEF ScaledBy
<1>3. ScaledBy(d, m, p) /\ ScaledBy(d, e, q) BY <1>1 DEF ScaledBy
<1>4. Health!Frac(p, q) = Health!Frac(n, d) /\ Health!Frac(p, q) = Health!Frac(m, e) BY <1>2, <1>3, FracScaled
<1>5. QED BY <1>4

\* What Frac makes is reduced.
LEMMA FracReduced ==
  ASSUME NEW n \in Int, NEW d \in Int \ {0}
  PROVE  Health!Frac(n, d) \in Health!Reduced
<1>1. PICK f : f = Health!Frac(n, d) OBVIOUS
<1>2. f \in Health!Fraction /\ f.num * d = n * f.den BY <1>1, FracIs
<1>3. f.num \in Int /\ f.den \in Int \ {0} BY <1>2 DEF Health!Fraction
<1>4. Health!Frac(f.num, f.den) = Health!Frac(n, d) BY <1>2, <1>3, FracSame
<1>5. QED BY <1>1, <1>2, <1>4 DEF Health!Reduced

\* A reduced fraction is what Frac makes of its parts.
LEMMA PartsOf ==
  ASSUME NEW f \in Health!Reduced
  PROVE  /\ f.num \in Int /\ f.den \in Nat \ {0} /\ f = Health!Frac(f.num, f.den) /\ f \in Health!Fraction
BY DEF Health!Reduced, Health!Fraction

\* A product of numbers other than 0 is none.
LEMMA NotZero ==
  ASSUME NEW x \in Int \ {0}, NEW y \in Int \ {0}
  PROVE  x * y \in Int \ {0}
<1>1. PICK a, b \in Nat \ {0} : (x = a \/ x = -a) /\ (y = b \/ y = -b)
  <2>1. x \in Nat \ {0} \/ -x \in Nat \ {0} OBVIOUS
  <2>2. y \in Nat \ {0} \/ -y \in Nat \ {0} OBVIOUS
  <2>3. x = -(-x) /\ y = -(-y) OBVIOUS
  <2>4. QED BY <2>1, <2>2, <2>3
<1>2. PICK p \in Nat \ {0} : p = a * b
  <2>1. a * b \in Int /\ a * b >= b BY ProductGrows
  <2>2. QED BY <2>1
<1>3. x * y = p \/ x * y = -p
  <2>1. (-a) * b = -(a * b) /\ a * (-b) = -(a * b) /\ (-a) * (-b) = a * b OBVIOUS
  <2>2. QED BY <1>1, <1>2, <2>1
<1>4. QED BY <1>2, <1>3

\* Fractions are multiplied as their parts are, reduced or not.
LEMMA TimesFrac ==
  ASSUME NEW n \in Int, NEW d \in Int \ {0}, NEW m \in Int, NEW e \in Int \ {0},
         NEW p, NEW q, ScaledBy(n, m, p), ScaledBy(d, e, q)
  PROVE  Health!Times(Health!Frac(n, d), Health!Frac(m, e)) = Health!Frac(p, q)
<1>1. PICK f, g : f = Health!Frac(n, d) /\ g = Health!Frac(m, e) OBVIOUS
<1>2. f \in Health!Fraction /\ f.num * d = n * f.den /\ g \in Health!Fraction /\ g.num * e = m * g.den
  BY <1>1, FracIs
<1>3. PICK x, y \in Int, u, v \in Nat \ {0} : x = f.num /\ u = f.den /\ y = g.num /\ v = g.den
  BY <1>2 DEF Health!Fraction
<1>4. x * d = n * u /\ y * e = m * v BY <1>2, <1>3
<1>5. p = n * m /\ q = d * e /\ p \in Int /\ q \in Int \ {0}
  <2>1. d * e \in Int \ {0} BY NotZero
  <2>2. QED BY <2>1 DEF ScaledBy
<1>6. PICK z, w \in Int : z = x * y /\ w = u * v /\ w # 0 BY NotZero
<1>7. z * q = p * w
  <2>1. (x * y) * (d * e) = (x * d) * (y * e) OBVIOUS
  <2>2. (n * u) * (m * v) = (n * m) * (u * v) OBVIOUS
  <2>3. QED BY <1>4, <1>5, <1>6, <2>1, <2>2
<1>8. Health!Times(f, g) = Health!Frac(z, w) BY <1>3, <1>6 DEF Health!Times
<1>9. QED BY <1>1, <1>5, <1>6, <1>7, <1>8, FracSame

\* Sums and differences are those over the product of the denominators.
LEMMA SumsFrac ==
  ASSUME NEW n \in Int, NEW d \in Int \ {0}, NEW m \in Int, NEW e \in Int \ {0},
         NEW q, ScaledBy(d, e, q)
  PROVE  /\ q \in Int \ {0}
         /\ Health!Plus(Health!Frac(n, d), Health!Frac(m, e)) = Health!Frac(n * e + m * d, q)
         /\ Health!Minus(Health!Frac(n, d), Health!Frac(m, e)) = Health!Frac(n * e - m * d, q)
<1>1. PICK f, g : f = Health!Frac(n, d) /\ g = Health!Frac(m, e) OBVIOUS
<1>2. f \in Health!Fraction /\ f.num * d = n * f.den /\ g \in Health!Fraction /\ g.num * e = m * g.den
  BY <1>1, FracIs
<1>3. PICK x, y \in Int, u, v \in Nat \ {0} : x = f.num /\ u = f.den /\ y = g.num /\ v = g.den
  BY <1>2 DEF Health!Fraction
<1>4. x * d = n * u /\ y * e = m * v BY <1>2, <1>3
<1>5. q = d * e /\ q \in Int \ {0}
  <2>1. d * e \in Int \ {0} BY NotZero
  <2>2. QED BY <2>1 DEF ScaledBy
<1>6. PICK w \in Int : w = u * v /\ w # 0 BY NotZero
<1>7. PICK a, b, s, t \in Int : a = x * v /\ b = y * u /\ s = n * e /\ t = m * d BY <1>3
<1>8. a * q = s * w
  <2>1. (x * v) * (d * e) = (x * d) * (v * e) OBVIOUS
  <2>2. (n * u) * (v * e) = (n * e) * (u * v) OBVIOUS
  <2>3. QED BY <1>4, <1>5, <1>6, <1>7, <2>1, <2>2
<1>9. b * q = t * w
  <2>1. (y * u) * (d * e) = (y * e) * (u * d) OBVIOUS
  <2>2. (m * v) * (u * d) = (m * d) * (u * v) OBVIOUS
  <2>3. QED BY <1>4, <1>5, <1>6, <1>7, <2>1, <2>2
<1>10. (a + b) * q = (s + t) * w
  <2>1. (a + b) * q = a * q + b * q /\ (s + t) * w = s * w + t * w BY <1>5
  <2>2. QED BY <1>8, <1>9, <2>1
<1>11. (a - b) * q = (s - t) * w
  <2>1. (a - b) * q = a * q - b * q /\ (s - t) * w = s * w - t * w BY <1>5
  <2>2. QED BY <1>8, <1>9, <2>1
<1>12. PICK i, j, k, l \in Int : i = a + b /\ j = s + t /\ k = a - b /\ l = s - t BY <1>7
<1>13. Health!Frac(i, w) = Health!Frac(j, q) BY <1>5, <1>6, <1>10, <1>12, FracSame
<1>14. Health!Frac(k, w) = Health!Frac(l, q) BY <1>5, <1>6, <1>11, <1>12, FracSame
<1>15. Health!Plus(f, g) = Health!Frac(i, w) /\ Health!Minus(f, g) = Health!Frac(k, w)
  BY <1>3, <1>6, <1>7, <1>12 DEF Health!Plus, Health!Minus
<1>16. QED BY <1>1, <1>5, <1>7, <1>12, <1>13, <1>14, <1>15

\* Fractions compare as their parts do crosswise, reduced or not.
LEMMA BelowFrac ==
  ASSUME NEW n \in Int, NEW d \in Nat \ {0}, NEW m \in Int, NEW e \in Nat \ {0}
  PROVE  Health!Below(Health!Frac(n, d), Health!Frac(m, e)) <=> n * e <= m * d
<1>1. PICK f, g : f = Health!Frac(n, d) /\ g = Health!Frac(m, e) OBVIOUS
<1>2. f \in Health!Fraction /\ f.num * d = n * f.den /\ g \in Health!Fraction /\ g.num * e = m * g.den
  BY <1>1, FracIs
<1>3. PICK x, y \in Int, u, v \in Nat \ {0} : x = f.num /\ u = f.den /\ y = g.num /\ v = g.den
  BY <1>2 DEF Health!Fraction
<1>4. x * d = n * u /\ y * e = m * v BY <1>2, <1>3
<1>5. PICK a, b, s, t \in Int : a = x * v /\ b = y * u /\ s = n * e /\ t = m * d BY <1>3
<1>6. PICK q, w \in Nat \ {0} : q = d * e /\ w = u * v
  <2>1. d * e \in Int /\ d * e >= e /\ u * v \in Int /\ u * v >= v BY ProductGrows
  <2>2. QED BY <2>1
<1>8. a * q = s * w
  <2>1. (x * v) * (d * e) = (x * d) * (v * e) OBVIOUS
  <2>2. (n * u) * (v * e) = (n * e) * (u * v) OBVIOUS
  <2>3. QED BY <1>4, <1>5, <1>6, <2>1, <2>2
<1>9. b * q = t * w
  <2>1. (y * u) * (d * e) = (y * e) * (u * d) OBVIOUS
  <2>2. (m * v) * (u * d) = (m * d) * (u * v) OBVIOUS
  <2>3. QED BY <1>4, <1>5, <1>6, <2>1, <2>2
<1>10. PICK i, j \in Int : i = a * q /\ j = b * q BY <1>5, <1>6
<1>11. a <= b <=> i <= j BY <1>5, <1>6, <1>10, ProductOrder
<1>12. s <= t <=> i <= j BY <1>5, <1>6, <1>8, <1>9, <1>10, ProductOrder
<1>13. Health!Below(f, g) <=> a <= b BY <1>3, <1>5 DEF Health!Below
<1>14. QED BY <1>1, <1>5, <1>11, <1>12, <1>13

\* A fraction has the sign of its numerator, reduced or not.
LEMMA SignOf ==
  ASSUME NEW n \in Int, NEW d \in Nat \ {0}
  PROVE  /\ Health!Frac(n, d).num \in Int
         /\ Health!Frac(n, d).num > 0 <=> n > 0
         /\ Health!Frac(n, d).num < 0 <=> n < 0
         /\ Health!Frac(n, d).num = 0 <=> n = 0
<1>1. PICK f : f = Health!Frac(n, d) OBVIOUS
<1>2. f \in Health!Fraction /\ f.num * d = n * f.den BY <1>1, FracIs
<1>3. PICK x \in Int, u \in Nat \ {0} : x = f.num /\ u = f.den BY <1>2 DEF Health!Fraction
<1>4. PICK p \in Int : p = x * d /\ p = n * u BY <1>2, <1>3
<1>5. (x >= 1 => p >= d) /\ (x < 0 => p <= -d) /\ (x = 0 => p = 0) BY <1>3, <1>4, ProductGrows
<1>6. (n >= 1 => p >= u) /\ (n < 0 => p <= -u) /\ (n = 0 => p = 0) BY <1>3, <1>4, ProductGrows
<1>7. QED BY <1>1, <1>3, <1>4, <1>5, <1>6

\* A whole number is a fraction with its sign.
LEMMA WholeIs ==
  ASSUME NEW n \in Int
  PROVE  Health!Whole(n) \in Health!Reduced /\ Health!Whole(n) = Health!Frac(n, 1)
         /\ (Health!Whole(n).num > 0 <=> n > 0) /\ (Health!Whole(n).num < 0 <=> n < 0)
<1>1. Health!Whole(n) = Health!Frac(n, 1) BY DEF Health!Whole
<1>2. 1 \in Nat \ {0} /\ 1 \in Int \ {0} OBVIOUS
<1>3. QED BY <1>1, <1>2, FracReduced, SignOf

\* Arithmetic stays among the reduced fractions.
LEMMA ResultsReduced ==
  ASSUME NEW a \in Health!Reduced, NEW b \in Health!Reduced
  PROVE  Health!Times(a, b) \in Health!Reduced /\ Health!Plus(a, b) \in Health!Reduced
      /\ Health!Minus(a, b) \in Health!Reduced
<1>1. PICK x, y \in Int, u, v \in Nat \ {0} : x = a.num /\ u = a.den /\ y = b.num /\ v = b.den
  <2>1. a.num \in Int /\ a.den \in Nat \ {0} BY PartsOf
  <2>2. b.num \in Int /\ b.den \in Nat \ {0} BY PartsOf
  <2>3. QED BY <2>1, <2>2
<1>2. PICK w \in Int \ {0} : w = u * v BY NotZero
<1>3. PICK p, q, r \in Int : p = x * y /\ q = x * v + y * u /\ r = x * v - y * u BY <1>1
<1>4. Health!Times(a, b) = Health!Frac(p, w) /\ Health!Plus(a, b) = Health!Frac(q, w)
    /\ Health!Minus(a, b) = Health!Frac(r, w)
  BY <1>1, <1>2, <1>3 DEF Health!Times, Health!Plus, Health!Minus
<1>5. QED BY <1>2, <1>3, <1>4, FracReduced

\* Multiplication commutes, associates and has a unit.
LEMMA TimesLaws ==
  ASSUME NEW a \in Health!Reduced, NEW b \in Health!Reduced, NEW c \in Health!Reduced
  PROVE  /\ Health!Times(a, b) = Health!Times(b, a)
         /\ Health!Times(Health!Times(a, b), c) = Health!Times(a, Health!Times(b, c))
         /\ Health!Times(a, Health!Whole(1)) = a
<1>1. PICK x, y, z \in Int, u, v, w \in Nat \ {0} :
        x = a.num /\ u = a.den /\ y = b.num /\ v = b.den /\ z = c.num /\ w = c.den
  BY PartsOf
<1>2. a = Health!Frac(x, u) /\ b = Health!Frac(y, v) /\ c = Health!Frac(z, w) BY <1>1, PartsOf
<1>3. x * y = y * x /\ u * v = v * u OBVIOUS
<1>4. Health!Times(a, b) = Health!Times(b, a) BY <1>1, <1>3 DEF Health!Times
<1>5. PICK p, q \in Int, s, t \in Int \ {0} : p = x * y /\ s = u * v /\ q = y * z /\ t = v * w
  <2>1. u * v \in Int \ {0} /\ v * w \in Int \ {0} BY NotZero
  <2>2. QED BY <2>1
<1>6. PICK r, o : r = p * z /\ o = s * w OBVIOUS
<1>7. r = x * q /\ o = u * t
  <2>1. (x * y) * z = x * (y * z) /\ (u * v) * w = u * (v * w) OBVIOUS
  <2>2. QED BY <1>5, <1>6, <2>1
<1>8. Health!Times(a, b) = Health!Frac(p, s) /\ Health!Times(b, c) = Health!Frac(q, t)
  BY <1>1, <1>5 DEF Health!Times
<1>9. ScaledBy(p, z, r) /\ ScaledBy(s, w, o) /\ ScaledBy(x, q, r) /\ ScaledBy(u, t, o)
  BY <1>6, <1>7 DEF ScaledBy
<1>10. Health!Times(Health!Frac(p, s), Health!Frac(z, w)) = Health!Frac(r, o) BY <1>9, TimesFrac
<1>11. Health!Times(Health!Frac(x, u), Health!Frac(q, t)) = Health!Frac(r, o) BY <1>9, TimesFrac
<1>12. Health!Times(a, Health!Whole(1)) = a
  <2>1. ScaledBy(x, 1, x) /\ ScaledBy(u, 1, u) BY DEF ScaledBy
  <2>2. Health!Times(Health!Frac(x, u), Health!Frac(1, 1)) = Health!Frac(x, u) BY <2>1, TimesFrac
  <2>3. QED BY <1>2, <2>2 DEF Health!Whole
<1>13. QED BY <1>2, <1>4, <1>8, <1>10, <1>11, <1>12

\* Taking a part of an amount from it multiplies it by what is left of 1.
LEMMA MinusTimes ==
  ASSUME NEW a \in Health!Reduced, NEW b \in Health!Reduced
  PROVE  Health!Minus(a, Health!Times(a, b)) = Health!Times(a, Health!Minus(Health!Whole(1), b))
<1>1. PICK x, y \in Int, u, v \in Nat \ {0} : x = a.num /\ u = a.den /\ y = b.num /\ v = b.den
  BY PartsOf
<1>2. a = Health!Frac(x, u) /\ b = Health!Frac(y, v) BY <1>1, PartsOf
<1>3. PICK p, r, e \in Int, s, q \in Int \ {0} :
        p = x * y /\ s = u * v /\ q = u * s /\ r = v - y /\ e = x * r
  <2>1. u * v \in Int \ {0} BY NotZero
  <2>2. PICK s \in Int \ {0} : s = u * v BY <2>1
  <2>3. u * s \in Int \ {0} BY <2>2, NotZero
  <2>4. QED BY <2>2, <2>3
<1>4. Health!Times(a, b) = Health!Frac(p, s) BY <1>1, <1>3 DEF Health!Times
<1>5. ScaledBy(u, s, q) BY <1>3 DEF ScaledBy
<1>6. Health!Minus(Health!Frac(x, u), Health!Frac(p, s)) = Health!Frac(x * s - p * u, q)
  BY <1>3, <1>5, SumsFrac
<1>7. Health!Minus(Health!Whole(1), b) = Health!Frac(r, v)
  <2>1. ScaledBy(1, v, v) BY DEF ScaledBy
  <2>2. Health!Minus(Health!Frac(1, 1), Health!Frac(y, v)) = Health!Frac(1 * v - y * 1, v) BY <2>1, SumsFrac
  <2>3. 1 * v - y * 1 = r BY <1>3
  <2>4. QED BY <1>2, <2>2, <2>3 DEF Health!Whole
<1>8. Health!Times(Health!Frac(x, u), Health!Frac(r, v)) = Health!Frac(e, s)
  <2>1. ScaledBy(x, r, e) /\ ScaledBy(u, v, s) BY <1>3 DEF ScaledBy
  <2>2. QED BY <1>3, <2>1, TimesFrac
<1>9. PICK h \in Int : h = x * s - p * u BY <1>3
<1>10. h * s = e * q
  <2>1. h = u * e
    <3>1. x * (u * v) - (x * y) * u = u * (x * (v - y)) OBVIOUS
    <3>2. QED BY <1>3, <1>9, <3>1
  <2>2. (u * e) * s = e * (u * s) BY <1>3
  <2>3. QED BY <1>3, <2>1, <2>2
<1>11. Health!Frac(h, q) = Health!Frac(e, s) BY <1>3, <1>9, <1>10, FracSame
<1>12. QED BY <1>2, <1>4, <1>6, <1>7, <1>8, <1>9, <1>11

\* Fractions are in a total order.
LEMMA BelowLaws ==
  ASSUME NEW a \in Health!Reduced, NEW b \in Health!Reduced, NEW c \in Health!Reduced
  PROVE  /\ Health!Below(a, a) /\ (Health!Below(a, b) \/ Health!Below(b, a))
         /\ Health!Below(a, b) /\ Health!Below(b, c) => Health!Below(a, c)
         /\ Health!Below(a, b) /\ Health!Below(b, a) => a = b
<1>1. PICK x, y, z \in Int, u, v, w \in Nat \ {0} :
        x = a.num /\ u = a.den /\ y = b.num /\ v = b.den /\ z = c.num /\ w = c.den
  BY PartsOf
<1>2. a = Health!Frac(x, u) /\ b = Health!Frac(y, v) BY <1>1, PartsOf
<1>3. /\ x * v \in Int /\ y * u \in Int /\ y * w \in Int
      /\ z * v \in Int /\ x * w \in Int /\ z * u \in Int
  OBVIOUS
<1>20. PICK i, j, k, l, m, n : i = x * v /\ j = y * u /\ k = y * w /\ l = z * v /\ m = x * w /\ n = z * u
  OBVIOUS
<1>21. i \in Int /\ j \in Int /\ k \in Int /\ l \in Int /\ m \in Int /\ n \in Int BY <1>3, <1>20
<1>4. /\ Health!Below(a, a) /\ (Health!Below(a, b) <=> i <= j) /\ (Health!Below(b, a) <=> j <= i)
      /\ (Health!Below(b, c) <=> k <= l) /\ (Health!Below(a, c) <=> m <= n)
  BY <1>1, <1>20, <1>21 DEF Health!Below
<1>5. ASSUME i <= j, k <= l PROVE m <= n
  <2>0. i * w \in Int /\ j * w \in Int /\ k * u \in Int /\ l * u \in Int BY <1>21
  <2>1. PICK p, q, r, s : p = i * w /\ q = j * w /\ r = k * u /\ s = l * u OBVIOUS
  <2>2. p <= q BY <1>21, <1>5, <2>1, ProductOrder
  <2>3. r <= s BY <1>21, <1>5, <2>1, ProductOrder
  <2>4. q = r
    <3>1. (y * u) * w = (y * w) * u OBVIOUS
    <3>2. QED BY <1>20, <1>21, <2>1, <3>1
  <2>5. p = m * v /\ s = n * v
    <3>1. (x * v) * w = (x * w) * v /\ (z * v) * u = (z * u) * v OBVIOUS
    <3>2. QED BY <1>20, <1>21, <2>1, <3>1
  <2>6. m * v <= n * v BY <2>0, <2>1, <2>2, <2>3, <2>4, <2>5
  <2>7. QED BY <1>1, <1>20, <1>21, <2>6, ProductOrder
<1>6. ASSUME i = j PROVE a = b
  <2>1. Health!Frac(x, u) = Health!Frac(y, v) BY <1>20, <1>21, <1>6, FracSame
  <2>2. QED BY <1>2, <2>1
<1>7. QED BY <1>20, <1>21, <1>4, <1>5, <1>6

\* The sign of a fraction is how it compares with 0.
LEMMA SignBelow ==
  ASSUME NEW a \in Health!Reduced
  PROVE  /\ a.num >= 0 <=> Health!Below(Health!Whole(0), a)
         /\ a.num > 0 <=> Health!Above(a, Health!Whole(0))
         /\ a.num \in Int
<1>1. PICK x \in Int, u \in Nat \ {0} : x = a.num /\ u = a.den BY PartsOf
<1>2. a = Health!Frac(x, u) BY <1>1, PartsOf
<1>3. Health!Below(Health!Frac(0, 1), Health!Frac(x, u)) <=> 0 * u <= x * 1 BY BelowFrac
<1>4. Health!Below(Health!Frac(x, u), Health!Frac(0, 1)) <=> x * 1 <= 0 * u BY BelowFrac
<1>5. 0 * u = 0 /\ x * 1 = x OBVIOUS
<1>6. QED BY <1>1, <1>2, <1>3, <1>4, <1>5 DEF Health!Above, Health!Whole

\* The sign of a difference is how its terms compare.
LEMMA SignMinus ==
  ASSUME NEW a \in Health!Reduced, NEW b \in Health!Reduced
  PROVE  /\ Health!Minus(a, b).num > 0 <=> Health!Above(a, b)
         /\ Health!Minus(a, b).num >= 0 <=> Health!Below(b, a)
         /\ Health!Minus(a, b).num = 0 <=> a = b
<1>1. PICK x, y \in Int, u, v \in Nat \ {0} : x = a.num /\ u = a.den /\ y = b.num /\ v = b.den
  BY PartsOf
<1>2. a = Health!Frac(x, u) /\ b = Health!Frac(y, v) BY <1>1, PartsOf
<1>3. PICK w \in Nat \ {0} : w = u * v
  <2>1. u * v \in Int /\ u * v >= v BY ProductGrows
  <2>2. QED BY <2>1
<1>4. PICK i, j, d \in Int : i = x * v /\ j = y * u /\ d = i - j
  <2>1. x * v \in Int /\ y * u \in Int /\ x * v - y * u \in Int OBVIOUS
  <2>2. QED BY <2>1
<1>5. Health!Minus(a, b) = Health!Frac(d, w) BY <1>1, <1>3, <1>4 DEF Health!Minus
<1>6. (Health!Below(a, b) <=> i <= j) /\ (Health!Below(b, a) <=> j <= i) BY <1>1, <1>4 DEF Health!Below
<1>7. a = b <=> Health!Below(a, b) /\ Health!Below(b, a) BY BelowLaws
<1>8. PICK n \in Int : n = Health!Frac(d, w).num /\ (n > 0 <=> d > 0) /\ (n < 0 <=> d < 0) /\ (n = 0 <=> d = 0)
  BY SignOf
<1>9. QED BY <1>4, <1>5, <1>6, <1>7, <1>8 DEF Health!Above

\* Sums and products keep the order.
LEMMA PlusBelow ==
  ASSUME NEW a \in Health!Reduced, NEW b \in Health!Reduced, NEW c \in Health!Reduced, NEW d \in Health!Reduced,
         Health!Below(a, b), Health!Below(c, d)
  PROVE  Health!Below(Health!Plus(a, c), Health!Plus(b, d))
<1>1. PICK x, y \in Int, u, v \in Nat \ {0} : x = a.num /\ u = a.den /\ y = b.num /\ v = b.den
  BY PartsOf
<1>2. PICK n, m \in Int, e, f \in Nat \ {0} : n = c.num /\ e = c.den /\ m = d.num /\ f = d.den
  BY PartsOf
<1>3. PICK p, q \in Nat \ {0} : p = u * e /\ q = v * f
  <2>1. u * e \in Int /\ u * e >= e /\ v * f \in Int /\ v * f >= f BY ProductGrows
  <2>2. QED BY <2>1
<1>4. PICK i, j \in Int : i = x * e + n * u /\ j = y * f + m * v BY <1>1, <1>2
<1>5. Health!Plus(a, c) = Health!Frac(i, p) /\ Health!Plus(b, d) = Health!Frac(j, q)
  BY <1>1, <1>2, <1>3, <1>4 DEF Health!Plus
<1>6. PICK g, h, k, l \in Int : g = x * v /\ h = y * u /\ k = n * f /\ l = m * e
  <2>1. x * v \in Int /\ y * u \in Int /\ n * f \in Int /\ m * e \in Int OBVIOUS
  <2>2. QED BY <2>1
<1>7. g <= h /\ k <= l BY <1>1, <1>2, <1>6 DEF Health!Below
<1>8. PICK r, s \in Nat \ {0} : r = e * f /\ s = u * v
  <2>1. e * f \in Int /\ e * f >= f /\ u * v \in Int /\ u * v >= v BY ProductGrows
  <2>2. QED BY <2>1
<1>9. g * r <= h * r /\ k * s <= l * s /\ g * r \in Int /\ h * r \in Int /\ k * s \in Int /\ l * s \in Int
  BY <1>6, <1>7, <1>8, ProductOrder
<1>10. i * q = g * r + k * s
  <2>1. (x * e + n * u) * (v * f) = (x * v) * (e * f) + (n * f) * (u * v) OBVIOUS
  <2>2. QED BY <1>3, <1>4, <1>6, <1>8, <2>1
<1>11. j * p = h * r + l * s
  <2>1. (y * f + m * v) * (u * e) = (y * u) * (e * f) + (m * e) * (u * v) OBVIOUS
  <2>2. QED BY <1>3, <1>4, <1>6, <1>8, <2>1
<1>12. i * q <= j * p BY <1>9, <1>10, <1>11
<1>13. QED BY <1>3, <1>4, <1>5, <1>12, BelowFrac

\* Multiplying by what is not negative keeps the order.
LEMMA TimesBelow ==
  ASSUME NEW a \in Health!Reduced, NEW b \in Health!Reduced, NEW c \in Health!Reduced, c.num >= 0
  PROVE  /\ Health!Below(a, b) => Health!Below(Health!Times(c, a), Health!Times(c, b))
         /\ c.num > 0 /\ Health!Below(Health!Times(c, a), Health!Times(c, b)) => Health!Below(a, b)
<1>1. PICK x, y \in Int, u, v \in Nat \ {0} : x = a.num /\ u = a.den /\ y = b.num /\ v = b.den
  BY PartsOf
<1>2. PICK n \in Nat, e \in Nat \ {0} : n = c.num /\ e = c.den BY PartsOf
<1>3. PICK p, q \in Nat \ {0} : p = e * u /\ q = e * v
  <2>1. e * u \in Int /\ e * u >= u /\ e * v \in Int /\ e * v >= v BY ProductGrows
  <2>2. QED BY <2>1
<1>4. PICK i, j \in Int : i = n * x /\ j = n * y BY <1>1, <1>2
<1>5. Health!Times(c, a) = Health!Frac(i, p) /\ Health!Times(c, b) = Health!Frac(j, q)
  BY <1>1, <1>2, <1>3, <1>4 DEF Health!Times
<1>6. PICK g, h \in Int : g = x * v /\ h = y * u BY <1>1
<1>7. Health!Below(a, b) <=> g <= h BY <1>1, <1>6 DEF Health!Below
<1>8. PICK r \in Nat : r = n * e /\ (n > 0 => r # 0)
  <2>1. n * e \in Int /\ n * e \in Nat /\ (n >= 1 => n * e >= e) BY ProductGrows
  <2>2. QED BY <2>1
<1>9. i * q = g * r
  <2>1. (n * x) * (e * v) = (x * v) * (n * e) OBVIOUS
  <2>2. QED BY <1>3, <1>4, <1>6, <1>8, <2>1
<1>10. j * p = h * r
  <2>1. (n * y) * (e * u) = (y * u) * (n * e) OBVIOUS
  <2>2. QED BY <1>3, <1>4, <1>6, <1>8, <2>1
<1>11. Health!Below(Health!Times(c, a), Health!Times(c, b)) <=> g * r <= h * r
  <2>1. Health!Below(Health!Frac(i, p), Health!Frac(j, q)) <=> i * q <= j * p BY <1>3, <1>4, BelowFrac
  <2>2. QED BY <1>5, <1>9, <1>10, <2>1
<1>12. g <= h => g * r <= h * r BY <1>6, <1>8, ProductOrder
<1>13. r # 0 /\ g * r <= h * r => g <= h BY <1>6, <1>8, ProductOrder
<1>14. QED BY <1>2, <1>7, <1>8, <1>11, <1>12, <1>13

\* Products and sums of what is not negative are not negative.
LEMMA SignTimes ==
  ASSUME NEW a \in Health!Reduced, NEW b \in Health!Reduced
  PROVE  /\ a.num >= 0 /\ b.num >= 0 => Health!Times(a, b).num >= 0
         /\ a.num > 0 /\ b.num > 0 => Health!Times(a, b).num > 0
         /\ a.num = 0 \/ b.num = 0 => Health!Times(a, b).num = 0
         /\ a.num >= 0 /\ b.num >= 0 => Health!Plus(a, b).num >= 0
<1>1. PICK x, y \in Int, u, v \in Nat \ {0} : x = a.num /\ u = a.den /\ y = b.num /\ v = b.den
  BY PartsOf
<1>2. PICK w \in Nat \ {0} : w = u * v
  <2>1. u * v \in Int /\ u * v >= v BY ProductGrows
  <2>2. QED BY <2>1
<1>3. PICK p, q \in Int : p = x * y /\ q = x * v + y * u BY <1>1
<1>4. Health!Times(a, b) = Health!Frac(p, w) /\ Health!Plus(a, b) = Health!Frac(q, w)
  BY <1>1, <1>2, <1>3 DEF Health!Times, Health!Plus
<1>5. x >= 0 /\ y >= 0 => p >= 0
  <2>1. x \in Nat /\ y \in Nat => x * y \in Nat OBVIOUS
  <2>2. QED BY <1>1, <1>3, <2>1
<1>6. x > 0 /\ y > 0 => p > 0
  <2>1. x >= 1 /\ y \in Nat \ {0} => x * y >= y BY ProductGrows
  <2>2. QED BY <1>1, <1>3, <2>1
<1>7. x = 0 \/ y = 0 => p = 0 BY <1>1, <1>3
<1>8. x >= 0 /\ y >= 0 => q >= 0
  <2>1. x \in Nat /\ y \in Nat => x * v + y * u \in Nat OBVIOUS
  <2>2. QED BY <1>1, <1>3, <2>1
<1>9. PICK n \in Int : n = Health!Frac(p, w).num /\ (n > 0 <=> p > 0) /\ (n < 0 <=> p < 0) /\ (n = 0 <=> p = 0)
  BY SignOf
<1>10. PICK m \in Int : m = Health!Frac(q, w).num /\ (m < 0 <=> q < 0) BY SignOf
<1>11. QED BY <1>1, <1>3, <1>4, <1>5, <1>6, <1>7, <1>8, <1>9, <1>10

-----------------------------------------------------------------------------
(* Folds                                                                   *)

Latest(s) == CHOOSE x \in s : \A y \in s : x >= y

\* A set of positions has a latest one.
LEMMA LastIn ==
  ASSUME NEW n \in Nat, NEW s \in SUBSET (1..n), s # {}
  PROVE  Latest(s) \in s /\ Latest(s) \in 1..n /\ \A y \in s : y <= Latest(s)
<1>1. IsFiniteSet(s)
  <2>1. IsFiniteSet(1..n) BY FS_Interval
  <2>2. QED BY <2>1, FS_Subset
<1>2. PICK m \in s : \A x \in s : x <= m BY <1>1, HasLast
<1>3. m \in Int /\ \A y \in s : m >= y BY <1>2
<1>4. Latest(s) \in s /\ \A y \in s : Latest(s) >= y BY <1>3 DEF Latest
<1>5. QED BY <1>4

\* The latest of the first k positions is the k-th.
LEMMA LastOfFirst ==
  ASSUME NEW n \in Nat, NEW k \in 1..n
  PROVE  /\ 1..k \in SUBSET (1..n) /\ 1..k # {} /\ Latest(1..k) = k
         /\ 1..k \ {k} = 1..(k - 1) /\ k - 1 \in 0..n /\ 1..(k - 1) \in SUBSET (1..n)
<1>1. 1..k \in SUBSET (1..n) /\ k \in 1..k OBVIOUS
<1>2. Latest(1..k) \in 1..k /\ k <= Latest(1..k) BY <1>1, LastIn
<1>3. Latest(1..k) = k BY <1>2
<1>4. QED BY <1>1, <1>3

\* F folds the values of step, from base, over every set of days.
Folds(F, base, step, n) ==
  F = [s \in SUBSET (1..n) |-> IF s = {} THEN base ELSE step[<<F[s \ {Latest(s)}], Latest(s)>>]]

HasFold(S, base, step, n) == \E F \in [SUBSET (1..n) -> S] : Folds(F, base, step, n)

\* There is a function that folds a step which stays within a set.
LEMMA FoldRuns ==
  ASSUME NEW S, NEW base \in S, NEW n \in Nat, NEW step,
         \A x \in S : \A i \in 1..n : step[<<x, i>>] \in S
  PROVE  HasFold(S, base, step, n)
<1> DEFINE B == {k \in Nat : k <= n /\ ~HasFold(S, base, step, k)}
<1>1. SUFFICES ASSUME B # {} PROVE FALSE
  <2>1. n \in Nat /\ n <= n OBVIOUS
  <2>2. QED BY <2>1
<1>2. B \in SUBSET Nat OBVIOUS
<1>3. \A k \in Nat : k \in B <=> k <= n /\ ~HasFold(S, base, step, k) OBVIOUS
<1> HIDE DEF B
<1>4. PICK k \in B : \A j \in B : k <= j
  <2>1. QED BY <1>1, <1>2, HasLeast
<1>5. k \in Nat /\ k <= n /\ ~HasFold(S, base, step, k) BY <1>2, <1>3
<1>6. CASE k = 0
  <2>1. 1..k = {} BY <1>6
  <2>2. PICK F : F = [s \in SUBSET (1..k) |-> base] OBVIOUS
  <2>3. F \in [SUBSET (1..k) -> S] BY <2>2
  <2>4. \A s \in SUBSET (1..k) : s = {} BY <2>1
  <2>5. Folds(F, base, step, k) BY <2>2, <2>4 DEF Folds
  <2>6. QED BY <1>5, <2>3, <2>5 DEF HasFold
<1>7. CASE k # 0
  <2>1. PICK j \in Nat : k = j + 1
    <3>1. k - 1 \in Nat /\ k = (k - 1) + 1 BY <1>5, <1>7
    <3>2. QED BY <3>1
  <2>2. HasFold(S, base, step, j)
    <3>1. j \notin B BY <1>4, <1>5, <2>1
    <3>2. j <= n BY <1>5, <2>1
    <3>3. QED BY <1>3, <3>1, <3>2
  <2>3. PICK F \in [SUBSET (1..j) -> S] : Folds(F, base, step, j) BY <2>2 DEF HasFold
  <2>4. 1..k = 1..j \cup {k} /\ k \notin 1..j BY <2>1
  <2>5. \A s \in SUBSET (1..k) : s \ {k} \in SUBSET (1..j) BY <2>4
  <2>6. PICK G : G = [s \in SUBSET (1..k) |-> IF k \in s THEN step[<<F[s \ {k}], k>>] ELSE F[s]] OBVIOUS
  <2>7. \A s \in SUBSET (1..k) : k \notin s => s \in SUBSET (1..j) BY <2>4
  <2>8. k \in 1..n BY <1>5, <1>7
  <2>9. ASSUME NEW s \in SUBSET (1..k) PROVE G[s] \in S
    <3>1. CASE k \in s
      <4>1. F[s \ {k}] \in S BY <2>3, <2>5
      <4>2. step[<<F[s \ {k}], k>>] \in S BY <2>8, <4>1
      <4>3. QED BY <2>6, <3>1, <4>2
    <3>2. CASE k \notin s
      <4>1. F[s] \in S BY <2>3, <2>7, <3>2
      <4>2. QED BY <2>6, <3>2, <4>1
    <3>3. QED BY <3>1, <3>2
  <2>10. G \in [SUBSET (1..k) -> S]
    <3>1. DOMAIN G = SUBSET (1..k) /\ G = [s \in SUBSET (1..k) |-> G[s]] BY <2>6
    <3>2. QED BY <2>9, <3>1
  <2>11. ASSUME NEW s \in SUBSET (1..k)
         PROVE  G[s] = IF s = {} THEN base ELSE step[<<G[s \ {Latest(s)}], Latest(s)>>]
    <3>1. CASE k \in s
      <4>1. Latest(s) = k
        <5>1. Latest(s) \in 1..k /\ k <= Latest(s) BY <1>5, <3>1, LastIn
        <5>2. QED BY <1>5, <5>1
      <4>2. s \ {k} \in SUBSET (1..k) /\ k \notin s \ {k} OBVIOUS
      <4>3. G[s \ {k}] = F[s \ {k}] BY <2>6, <4>2
      <4>4. QED BY <2>6, <3>1, <4>1, <4>3
    <3>2. CASE k \notin s
      <4>1. s \in SUBSET (1..j) BY <2>7, <3>2
      <4>2. F[s] = IF s = {} THEN base ELSE step[<<F[s \ {Latest(s)}], Latest(s)>>] BY <2>3, <4>1 DEF Folds
      <4>3. G[s] = F[s] BY <2>6, <3>2
      <4>4. G[s \ {Latest(s)}] = F[s \ {Latest(s)}]
        <5>1. s \ {Latest(s)} \in SUBSET (1..k) /\ k \notin s \ {Latest(s)} BY <3>2
        <5>2. QED BY <2>6, <5>1
      <4>5. QED BY <4>2, <4>3, <4>4
    <3>3. QED BY <3>1, <3>2
  <2>12. Folds(G, base, step, k) BY <2>6, <2>11 DEF Folds
  <2>13. QED BY <1>5, <2>10, <2>12 DEF HasFold
<1>8. QED BY <1>6, <1>7

\* What holds at the start and goes on from day to day always holds.
LEMMA Climbs ==
  ASSUME NEW n \in Nat, NEW G, 0 \in G, \A k \in 1..n : k - 1 \in G => k \in G
  PROVE  \A k \in 0..n : k \in G
<1> DEFINE B == {k \in Nat : k <= n /\ k \notin G}
<1>1. SUFFICES ASSUME B # {} PROVE FALSE
  OBVIOUS
<1>2. B \in SUBSET Nat /\ \A k \in Nat : k \in B <=> k <= n /\ k \notin G OBVIOUS
<1> HIDE DEF B
<1>3. PICK k \in B : \A j \in B : k <= j BY <1>1, <1>2, HasLeast
<1>4. k \in Nat /\ k <= n /\ k \notin G BY <1>2
<1>5. k # 0 BY <1>4
<1>6. k \in 1..n /\ k - 1 \in Nat /\ k - 1 <= n /\ ~(k <= k - 1) BY <1>4, <1>5
<1>7. k - 1 \in G BY <1>2, <1>3, <1>6
<1>8. QED BY <1>4, <1>6, <1>7

-----------------------------------------------------------------------------
(* One simulation                                                          *)

Amount  == {f \in Health!Reduced : f.num >= 0}
Deal    == [at: Nat, side: {"BUY", "SELL"}, price: Nat, pnl: Health!Reduced]
Account == [cash: Amount, quantity: Amount, cost: Health!Reduced, curve: Seq(Amount), trades: Seq(Deal)]

FeeFits(fee) == fee \in Health!Reduced /\ Health!Below(Health!Whole(0), fee)
    /\ Health!Above(Health!Whole(1), fee)

Rest(fee) == Health!Minus(Health!Whole(1), fee)

\* A commission, which is less than all, leaves a part of an amount, and not nothing.
LEMMA NetIs ==
  ASSUME NEW a \in Health!Reduced, NEW fee, FeeFits(fee)
  PROVE  /\ Rest(fee) \in Health!Reduced /\ Rest(fee).num > 0
         /\ Health!Net(a, fee) = Health!Times(a, Rest(fee)) /\ Health!Net(a, fee) \in Health!Reduced
         /\ a.num >= 0 => Health!Net(a, fee).num >= 0
         /\ a.num > 0 <=> Health!Net(a, fee).num > 0
<1>1. fee \in Health!Reduced /\ Health!Whole(1) \in Health!Reduced BY WholeIs DEF FeeFits
<1>2. PICK r : r = Rest(fee) OBVIOUS
<1>3. r \in Health!Reduced /\ r.num > 0 BY <1>1, <1>2, ResultsReduced, SignMinus DEF Rest, FeeFits
<1>4. Health!Net(a, fee) = Health!Times(a, r) BY <1>1, <1>2, MinusTimes DEF Health!Net, Rest
<1>5. a.num \in Int /\ r.num \in Int BY <1>3, PartsOf
<1>6. /\ a.num >= 0 => Health!Times(a, r).num >= 0
      /\ a.num > 0 => Health!Times(a, r).num > 0
  BY <1>3, <1>5, SignTimes
<1>7. ASSUME a.num <= 0 PROVE ~(Health!Times(a, r).num > 0)
  <2>1. Health!Below(a, Health!Whole(0)) BY <1>5, <1>7, SignBelow DEF Health!Above
  <2>2. Health!Whole(0) \in Health!Reduced BY WholeIs
  <2>3. Health!Below(Health!Times(r, a), Health!Times(r, Health!Whole(0)))
    BY <1>3, <1>5, <2>1, <2>2, TimesBelow
  <2>4. Health!Whole(0).num = 0
    <3>1. Health!Whole(0).num \in Int BY <2>2, PartsOf
    <3>2. ~(Health!Whole(0).num > 0) /\ ~(Health!Whole(0).num < 0) BY WholeIs
    <3>3. QED BY <3>1, <3>2
  <2>5. Health!Times(r, Health!Whole(0)) \in Health!Reduced /\ Health!Times(r, Health!Whole(0)).num = 0
    BY <1>3, <2>2, <2>4, SignTimes, ResultsReduced
  <2>6. Health!Times(r, a) \in Health!Reduced /\ Health!Times(r, a) = Health!Times(a, r)
    BY <1>3, ResultsReduced, TimesLaws
  <2>7. ~Health!Above(Health!Times(r, Health!Whole(0)), Health!Whole(0)) BY <2>5, SignBelow
  <2>8. Health!Below(Health!Times(r, a), Health!Whole(0))
    BY <2>2, <2>3, <2>5, <2>6, <2>7, BelowLaws DEF Health!Above
  <2>9. QED BY <2>6, <2>8, SignBelow DEF Health!Above
<1>8. Health!Times(a, r) \in Health!Reduced BY <1>3, ResultsReduced
<1>9. QED BY <1>2, <1>3, <1>4, <1>5, <1>6, <1>7, <1>8

\* Nothing is an amount.
LEMMA Zero == Health!Whole(0) \in Amount /\ Health!Whole(0).num = 0
<1>1. Health!Whole(0) \in Health!Reduced BY WholeIs
<1>2. Health!Whole(0).num \in Int BY <1>1, PartsOf
<1>3. ~(Health!Whole(0).num > 0) /\ ~(Health!Whole(0).num < 0) BY WholeIs
<1>4. QED BY <1>1, <1>2, <1>3 DEF Amount

\* Prices, and what one unit of money buys, are amounts.
LEMMA PriceIs ==
  ASSUME NEW p \in Nat, NEW q \in Nat
  PROVE  /\ Health!Whole(p) \in Amount
         /\ p > 0 => Health!Frac(q, p) \in Amount
<1>1. Health!Whole(p) \in Health!Reduced /\ (Health!Whole(p).num < 0 <=> p < 0) /\ Health!Whole(p).num \in Int
  BY WholeIs, PartsOf
<1>2. ASSUME p > 0 PROVE Health!Frac(q, p) \in Amount
  <2>1. Health!Frac(q, p) \in Health!Reduced BY <1>2, FracReduced
  <2>2. Health!Frac(q, p).num \in Int /\ (Health!Frac(q, p).num < 0 <=> q < 0) BY <1>2, SignOf
  <2>3. QED BY <2>1, <2>2 DEF Amount
<1>3. QED BY <1>1, <1>2 DEF Amount

\* Sums and products of amounts are amounts.
LEMMA AmountsAdd ==
  ASSUME NEW a \in Amount, NEW b \in Amount
  PROVE  Health!Plus(a, b) \in Amount /\ Health!Times(a, b) \in Amount /\ a \in Health!Reduced
      /\ b \in Health!Reduced
BY ResultsReduced, SignTimes DEF Amount

\* A day of the simulation.
Day(prices, orders, fee, a, i) == Health!Valued(Health!Ordered(a, orders[i], i, prices[i], fee), prices[i])

\* Buying and selling keep an account well formed (_simulate_backtest).
LEMMA OrderedFits ==
  ASSUME NEW a \in Account, NEW order, NEW i \in Nat, NEW price \in Nat, NEW fee, FeeFits(fee)
  PROVE  /\ Health!Sold(a, i, price, fee) \in Account
         /\ price > 0 => Health!Bought(a, i, price, fee) \in Account
         /\ Health!Ordered(a, order, i, price, fee) \in Account
<1>1. a.cash \in Amount /\ a.quantity \in Amount /\ a.cost \in Health!Reduced /\ a.trades \in Seq(Deal)
  BY DEF Account
<1>2. a.cash \in Health!Reduced /\ a.quantity \in Health!Reduced BY <1>1 DEF Amount
<1>3. Health!Whole(0) \in Amount /\ Health!Whole(0) \in Health!Reduced BY Zero DEF Amount
<1>4. Health!Whole(price) \in Amount BY PriceIs
<1>5. PICK r : r = Health!Net(Health!Times(a.quantity, Health!Whole(price)), fee) OBVIOUS
<1>6. r \in Amount
  <2>1. Health!Times(a.quantity, Health!Whole(price)) \in Amount BY <1>1, <1>4, AmountsAdd
  <2>2. QED BY <1>5, <2>1, NetIs DEF Amount
<1>7. Health!Minus(r, a.cost) \in Health!Reduced BY <1>1, <1>6, ResultsReduced DEF Amount
<1>8. Health!Trade(i, "SELL", price, Health!Minus(r, a.cost)) \in Deal BY <1>7 DEF Health!Trade, Deal
<1>9. Health!Trade(i, "BUY", price, Health!Whole(0)) \in Deal BY <1>3 DEF Health!Trade, Deal
<1>10. Health!Sold(a, i, price, fee) \in Account
  <2>1. Append(a.trades, Health!Trade(i, "SELL", price, Health!Minus(r, a.cost))) \in Seq(Deal) BY <1>1, <1>8
  <2>2. QED BY <1>3, <1>5, <1>6, <2>1 DEF Health!Sold, Account
<1>11. ASSUME price > 0 PROVE Health!Bought(a, i, price, fee) \in Account
  <2>1. Health!Frac(1, price) \in Amount BY <1>11, PriceIs
  <2>2. Health!Net(a.cash, fee) \in Amount BY <1>1, <1>2, NetIs DEF Amount
  <2>3. Health!Times(Health!Net(a.cash, fee), Health!Frac(1, price)) \in Amount BY <2>1, <2>2, AmountsAdd
  <2>4. Health!Plus(a.cash, Health!Times(a.cash, fee)) \in Health!Reduced BY <1>2, ResultsReduced DEF FeeFits
  <2>5. Append(a.trades, Health!Trade(i, "BUY", price, Health!Whole(0))) \in Seq(Deal) BY <1>1, <1>9
  <2>6. QED BY <1>3, <2>3, <2>4, <2>5 DEF Health!Bought, Account
<1>12. Health!Ordered(a, order, i, price, fee) \in Account
  <2>1. CASE order = "BUY" /\ Health!MayBuy(a, price, fee)
    <3>1. price > 0 BY <2>1 DEF Health!MayBuy
    <3>2. Health!Ordered(a, order, i, price, fee) = Health!Bought(a, i, price, fee) BY <2>1 DEF Health!Ordered
    <3>3. QED BY <1>11, <3>1, <3>2
  <2>2. CASE ~(order = "BUY" /\ Health!MayBuy(a, price, fee)) /\ order = "SELL" /\ Health!Holds(a)
    <3>1. Health!Ordered(a, order, i, price, fee) = Health!Sold(a, i, price, fee) BY <2>2 DEF Health!Ordered
    <3>2. QED BY <1>10, <3>1
  <2>3. CASE ~(order = "BUY" /\ Health!MayBuy(a, price, fee)) /\ ~(order = "SELL" /\ Health!Holds(a))
    <3>1. Health!Ordered(a, order, i, price, fee) = a BY <2>3 DEF Health!Ordered
    <3>2. QED BY <3>1
  <2>4. QED BY <2>1, <2>2, <2>3
<1>13. QED BY <1>10, <1>11, <1>12

\* Valuing an account adds a point to its curve and changes nothing else.
LEMMA ValuedFits ==
  ASSUME NEW a \in Account, NEW price \in Nat
  PROVE  /\ Health!Valued(a, price) \in Account
         /\ Health!Valued(a, price).cash = a.cash /\ Health!Valued(a, price).quantity = a.quantity
         /\ Health!Valued(a, price).cost = a.cost /\ Health!Valued(a, price).trades = a.trades
         /\ Health!Valued(a, price).curve =
             Append(a.curve, Health!Plus(a.cash, Health!Times(a.quantity, Health!Whole(price))))
         /\ a.quantity.num = 0 => Health!Plus(a.cash, Health!Times(a.quantity, Health!Whole(price))) = a.cash
         /\ Health!Plus(a.cash, Health!Times(a.quantity, Health!Whole(price))) \in Amount
<1>1. a.cash \in Amount /\ a.quantity \in Amount /\ a.curve \in Seq(Amount) BY DEF Account
<1>2. PICK v : v = Health!Plus(a.cash, Health!Times(a.quantity, Health!Whole(price))) OBVIOUS
<1>3. v \in Amount
  <2>1. Health!Times(a.quantity, Health!Whole(price)) \in Amount BY <1>1, PriceIs, AmountsAdd
  <2>2. QED BY <1>1, <1>2, <2>1, AmountsAdd
<1>4. Append(a.curve, v) \in Seq(Amount) BY <1>1, <1>3
<1>5. ASSUME a.quantity.num = 0 PROVE v = a.cash
  <2>1. PICK c : c = a.cash OBVIOUS
  <2>2. PICK z : z = Health!Times(a.quantity, Health!Whole(price)) OBVIOUS
  <2>3. c \in Health!Reduced /\ z \in Health!Reduced /\ z.num = 0
    BY <1>1, <1>5, <2>1, <2>2, PriceIs, SignTimes, AmountsAdd DEF Amount
  <2>4. PICK x \in Int, u, e \in Nat \ {0} : x = c.num /\ u = c.den /\ e = z.den BY <2>3, PartsOf
  <2>5. c = Health!Frac(x, u) BY <2>3, <2>4, PartsOf
  <2>6. PICK p \in Int, q \in Int : p = x * e /\ q = u * e BY <2>4
  <2>7. Health!Plus(c, z) = Health!Frac(p, q)
    <3>1. p = x * e + 0 * u BY <2>4, <2>6
    <3>2. QED BY <2>3, <2>4, <2>6, <3>1 DEF Health!Plus
  <2>8. ScaledBy(e, x, p) /\ ScaledBy(e, u, q) BY <2>4, <2>6 DEF ScaledBy
  <2>9. Health!Frac(p, q) = Health!Frac(x, u) BY <2>4, <2>8, FracScaled
  <2>10. QED BY <1>2, <2>1, <2>2, <2>5, <2>7, <2>9
<1>6. QED BY <1>2, <1>3, <1>4, <1>5 DEF Health!Valued, Account

Runs(h, prices, orders, capital, fee) ==
  /\ h[0] = Health!Opened(capital)
  /\ \A k \in 1..Len(prices) : h[k] = Day(prices, orders, fee, h[k - 1], k)

\* A simulation is its days one after the other.
LEMMA SimulateRuns ==
  ASSUME NEW prices \in Seq(Nat), NEW orders, NEW capital \in Amount, NEW fee, FeeFits(fee)
  PROVE  \E h : /\ \A k \in 0..Len(prices) : h[k] \in Account
                /\ Runs(h, prices, orders, capital, fee)
                /\ Health!Simulate(prices, orders, capital, fee) = Health!Closed(h[Len(prices)], prices, fee)
<1>1. PICK n \in Nat : n = Len(prices) /\ DOMAIN prices = 1..n /\ \A i \in 1..n : prices[i] \in Nat OBVIOUS
<1>2. PICK base : base = Health!Opened(capital) OBVIOUS
<1>3. base \in Account BY <1>2, Zero DEF Health!Opened, Account, Amount
<1>4. PICK step : step = [q \in Account \X (1..n) |-> Day(prices, orders, fee, q[1], q[2])] OBVIOUS
<1>5. ASSUME NEW a \in Account, NEW i \in 1..n
      PROVE  step[<<a, i>>] = Day(prices, orders, fee, a, i) /\ Day(prices, orders, fee, a, i) \in Account
  <2>1. <<a, i>> \in Account \X (1..n) /\ <<a, i>>[1] = a /\ <<a, i>>[2] = i OBVIOUS
  <2>2. step[<<a, i>>] = Day(prices, orders, fee, a, i) BY <1>4, <2>1
  <2>3. prices[i] \in Nat /\ i \in Nat BY <1>1
  <2>4. Health!Ordered(a, orders[i], i, prices[i], fee) \in Account BY <2>3, OrderedFits
  <2>5. QED BY <2>2, <2>3, <2>4, ValuedFits DEF Day
<1>6. HasFold(Account, base, step, n) BY <1>3, <1>5, FoldRuns
<1>7. PICK F \in [SUBSET (1..n) -> Account] : Folds(F, base, step, n) BY <1>6 DEF HasFold
<1> DEFINE body(G) == [s \in SUBSET (1..n) |->
                         IF s = {} THEN base ELSE Day(prices, orders, fee, G[s \ {Latest(s)}], Latest(s))]
           raw(G) == [s \in SUBSET (1..n) |->
                        IF s = {} THEN base
                        ELSE Health!Valued(Health!Ordered(G[s \ {Latest(s)}], orders[Latest(s)], Latest(s),
                                            prices[Latest(s)], fee), prices[Latest(s)])]
<1>8. Health!Simulate(prices, orders, capital, fee) = Health!Closed((CHOOSE G : G = raw(G))[1..n], prices, fee)
  BY <1>1, <1>2 DEF Health!Simulate, Health!Through, Health!MapThenFoldSet, Latest
<1>10. \A s \in SUBSET (1..n) : s # {} => Latest(s) \in 1..n BY LastIn
<1>11. ASSUME NEW G PROVE raw(G) = body(G) BY <1>10 DEF Day
<1>12. F = body(F)
  <2>1. ASSUME NEW s \in SUBSET (1..n), s # {}
        PROVE  F[s] = Day(prices, orders, fee, F[s \ {Latest(s)}], Latest(s))
    <3>1. Latest(s) \in 1..n /\ s \ {Latest(s)} \in SUBSET (1..n) BY <1>10, <2>1
    <3>2. F[s \ {Latest(s)}] \in Account BY <1>7, <3>1
    <3>3. F[s] = step[<<F[s \ {Latest(s)}], Latest(s)>>] BY <1>7, <2>1 DEF Folds
    <3>4. QED BY <1>5, <3>1, <3>2, <3>3
  <2>2. F[{}] = base BY <1>7 DEF Folds
  <2>3. QED BY <1>7, <2>1, <2>2
<1> HIDE DEF body, raw
<1>13. PICK G : G = CHOOSE H : H = body(H) OBVIOUS
<1>14. G = body(G) BY <1>12, <1>13
<1>15. (CHOOSE H : H = raw(H)) = G BY <1>11, <1>13
<1>16. PICK h : h = [k \in 0..n |-> G[1..k]] OBVIOUS
<1>17. h[0] = base
  <2>1. 1..0 = {} /\ {} \in SUBSET (1..n) /\ 0 \in 0..n OBVIOUS
  <2>2. G[{}] = base BY <1>14, <2>1 DEF body
  <2>3. QED BY <1>16, <2>1, <2>2
<1>18. ASSUME NEW k \in 1..n PROVE h[k] = Day(prices, orders, fee, h[k - 1], k)
  <2>1. 1..k \in SUBSET (1..n) /\ 1..k # {} /\ Latest(1..k) = k /\ 1..k \ {k} = 1..(k - 1) /\ k - 1 \in 0..n
    BY LastOfFirst
  <2>2. G[1..k] = Day(prices, orders, fee, G[1..(k - 1)], k) BY <1>14, <2>1 DEF body
  <2>3. k \in 0..n OBVIOUS
  <2>4. QED BY <1>16, <2>1, <2>2, <2>3
<1>19. \A k \in 0..n : h[k] \in Account
  <2> DEFINE good == {k \in 0..n : h[k] \in Account}
  <2>1. 0 \in good BY <1>3, <1>17
  <2>4. ASSUME NEW k \in 1..n, h[k - 1] \in Account PROVE h[k] \in Account
    <3>1. PICK a \in Account : a = h[k - 1] BY <2>4
    <3>2. Day(prices, orders, fee, a, k) \in Account BY <1>5
    <3>3. QED BY <1>18, <3>1, <3>2
  <2>2. \A k \in 1..n : k - 1 \in good => k \in good BY <2>4
  <2>3. \A k \in 0..n : k \in good
    <3> HIDE DEF good
    <3>1. QED BY <2>1, <2>2, Climbs
  <2>5. QED BY <2>3
<1>20. Runs(h, prices, orders, capital, fee) BY <1>1, <1>2, <1>17, <1>18 DEF Runs
<1>21. Health!Simulate(prices, orders, capital, fee) = Health!Closed(h[n], prices, fee)
  <2>1. n \in 0..n BY <1>1
  <2>2. h[n] = G[1..n] BY <1>16, <2>1
  <2>3. QED BY <1>8, <1>15, <2>2
<1>22. QED BY <1>1, <1>19, <1>20, <1>21

-----------------------------------------------------------------------------
(* Round trips                                                             *)

\* What a round trip makes of the capital, bought at p and sold at q.
Factor(q, p, fee) == Health!Times(Health!Frac(q, p), Health!Square(Health!Minus(Health!Whole(1), fee)))

\* What a round trip makes of any cash is one factor of it.
LEMMA FactorIs ==
  ASSUME NEW p \in Nat \ {0}, NEW q \in Nat, NEW fee, FeeFits(fee)
  PROVE  /\ Factor(q, p, fee) \in Health!Reduced
         /\ \A c \in Health!Reduced :
              Health!Net(Health!Times(Health!Times(Health!Net(c, fee), Health!Frac(1, p)), Health!Whole(q)),
                  fee) = Health!Times(c, Factor(q, p, fee))
<1>1. PICK r : r = Rest(fee) OBVIOUS
<1>2. r \in Health!Reduced
  <2>1. Health!Whole(1) \in Health!Reduced BY WholeIs
  <2>2. QED BY <1>1, <2>1, NetIs
<1>3. PICK x, y, z : x = Health!Frac(1, p) /\ y = Health!Whole(q) /\ z = Health!Frac(q, p) OBVIOUS
<1>4. x \in Health!Reduced /\ y \in Health!Reduced /\ z \in Health!Reduced BY <1>3, FracReduced, WholeIs
<1>5. Health!Times(x, y) = z
  <2>1. ScaledBy(1, q, q) /\ ScaledBy(p, 1, p) BY DEF ScaledBy
  <2>2. Health!Times(Health!Frac(1, p), Health!Frac(q, 1)) = Health!Frac(q, p) BY <2>1, TimesFrac
  <2>3. QED BY <1>3, <2>2 DEF Health!Whole
<1>6. PICK s : s = Health!Times(r, r) OBVIOUS
<1>7. s \in Health!Reduced BY <1>2, <1>6, ResultsReduced
<1>8. Factor(q, p, fee) = Health!Times(z, s) BY <1>1, <1>3, <1>6 DEF Factor, Health!Square, Rest
<1>9. ASSUME NEW c \in Health!Reduced
      PROVE  Health!Net(Health!Times(Health!Times(Health!Net(c, fee), x), y), fee) =
          Health!Times(c, Health!Times(z, s))
  <2>1. Health!Net(c, fee) = Health!Times(c, r) BY <1>1, NetIs
  <2>2. Health!Times(c, r) \in Health!Reduced BY <1>2, ResultsReduced
  <2>3. Health!Times(Health!Times(Health!Times(c, r), x), y) = Health!Times(Health!Times(c, r), z)
    BY <1>4, <1>5, <2>2, TimesLaws
  <2>4. Health!Times(Health!Times(c, r), z) \in Health!Reduced BY <1>4, <2>2, ResultsReduced
  <2>5. Health!Net(Health!Times(Health!Times(c, r), z), fee) =
      Health!Times(Health!Times(Health!Times(c, r), z), r)
    BY <1>1, <2>4, NetIs
  <2>6. Health!Times(Health!Times(c, r), z) = Health!Times(c, Health!Times(z, r))
    <3>1. Health!Times(Health!Times(c, r), z) = Health!Times(c, Health!Times(r, z)) BY <1>2, <1>4, TimesLaws
    <3>2. Health!Times(r, z) = Health!Times(z, r) BY <1>2, <1>4, TimesLaws
    <3>3. QED BY <3>1, <3>2
  <2>7. Health!Times(Health!Times(c, Health!Times(z, r)), r) =
      Health!Times(c, Health!Times(Health!Times(z, r), r))
    <3>1. Health!Times(z, r) \in Health!Reduced BY <1>2, <1>4, ResultsReduced
    <3>2. QED BY <1>2, <3>1, TimesLaws
  <2>8. Health!Times(Health!Times(z, r), r) = Health!Times(z, s) BY <1>2, <1>4, <1>6, TimesLaws
  <2>9. QED BY <2>1, <2>3, <2>5, <2>6, <2>7, <2>8
<1>10. Health!Times(z, s) \in Health!Reduced BY <1>4, <1>7, ResultsReduced
<1>11. QED BY <1>3, <1>8, <1>9, <1>10

Grows(g, ts, fee, m) ==
  /\ g[0] = Health!Whole(1)
  /\ \A k \in 1..m : g[k] = Health!Times(g[k - 1], Factor(ts[2 * k].price, ts[2 * k - 1].price, fee))

\* What was bought was not for nothing.
Paid(ts) == \A k \in DOMAIN ts : k % 2 = 1 => ts[k].price > 0

\* The trades of a round trip stand side by side, a purchase first.
LEMMA PairIs ==
  ASSUME NEW n \in Nat
  PROVE  /\ n \div 2 \in Nat
         /\ \A k \in 1..(n \div 2) : 2 * k \in 1..n /\ 2 * k - 1 \in 1..n /\ (2 * k - 1) % 2 = 1
OBVIOUS

Traded(a, ts)  == ts = a.trades
HasPairs(ts, m) == m = Len(ts) \div 2

GrowsBy(g, a, ts, fee, m) ==
  /\ \A k \in 0..m : g[k] \in Health!Reduced
  /\ Grows(g, ts, fee, m)
  /\ Health!Growth(a, fee) = g[m]

\* The growth is a product that takes one round trip after the other.
LEMMA GrowthRuns ==
  ASSUME NEW a, NEW ts \in Seq(Deal), Traded(a, ts), NEW m \in Nat, HasPairs(ts, m),
         NEW fee, FeeFits(fee), Paid(ts)
  PROVE  \E g : GrowsBy(g, a, ts, fee, m)
<1>1. PICK n \in Nat : n = Len(ts) /\ DOMAIN ts = 1..n /\ \A i \in 1..n : ts[i] \in Deal OBVIOUS
<1>2. m = n \div 2 BY <1>1 DEF HasPairs
<1>3. \A k \in 1..m : ts[2 * k].price \in Nat /\ ts[2 * k - 1].price \in Nat \ {0}
  <2>1. ASSUME NEW k \in 1..m PROVE ts[2 * k].price \in Nat /\ ts[2 * k - 1].price \in Nat \ {0}
    <3>1. PICK i, j : i = 2 * k /\ j = 2 * k - 1 OBVIOUS
    <3>2. i \in 1..n /\ j \in 1..n /\ j % 2 = 1 BY <1>1, <1>2, <3>1, PairIs
    <3>3. ts[i].price \in Nat /\ ts[j].price \in Nat BY <1>1, <3>2 DEF Deal
    <3>4. ts[j].price > 0 BY <1>1, <3>2 DEF Paid
    <3>5. QED BY <3>1, <3>3, <3>4
  <2>2. QED BY <2>1
<1> DEFINE by(k) == Factor(ts[2 * k].price, ts[2 * k - 1].price, fee)
<1>4. \A k \in 1..m : by(k) \in Health!Reduced BY <1>3, FactorIs
<1>5. PICK base : base = Health!Whole(1) OBVIOUS
<1>6. base \in Health!Reduced BY <1>5, WholeIs
<1> DEFINE body(G) == [s \in SUBSET (1..m) |-> IF s = {} THEN base ELSE Health!Times(G[s \ {Latest(s)}], by(Latest(s)))]
           raw(G) == [s \in SUBSET (1..m) |->
                        IF s = {} THEN base ELSE Health!Times(G[s \ {Latest(s)}], by(Latest(s)))]
<1>7. Health!Growth(a, fee) = (CHOOSE G : G = raw(G))[1..m]
  BY <1>2, <1>1, <1>5 DEF Health!Growth, Health!Through, Health!MapThenFoldSet, Latest, Factor, Traded
<1> HIDE DEF by
<1>8. PICK step : step = [q \in Health!Reduced \X (1..m) |-> Health!Times(q[1], by(q[2]))] OBVIOUS
<1>9. ASSUME NEW x \in Health!Reduced, NEW k \in 1..m
      PROVE  step[<<x, k>>] = Health!Times(x, by(k)) /\ Health!Times(x, by(k)) \in Health!Reduced
  <2>1. <<x, k>> \in Health!Reduced \X (1..m) /\ <<x, k>>[1] = x /\ <<x, k>>[2] = k OBVIOUS
  <2>2. by(k) \in Health!Reduced BY <1>4
  <2>3. QED BY <1>8, <2>1, <2>2, ResultsReduced
<1>10. HasFold(Health!Reduced, base, step, m) BY <1>6, <1>9, FoldRuns
<1>11. PICK F \in [SUBSET (1..m) -> Health!Reduced] : Folds(F, base, step, m) BY <1>10 DEF HasFold
<1>13. \A s \in SUBSET (1..m) : s # {} => Latest(s) \in 1..m BY LastIn
<1>14. ASSUME NEW G PROVE raw(G) = body(G) OBVIOUS
<1>15. F = body(F)
  <2>1. ASSUME NEW s \in SUBSET (1..m), s # {} PROVE F[s] = Health!Times(F[s \ {Latest(s)}], by(Latest(s)))
    <3>1. Latest(s) \in 1..m /\ s \ {Latest(s)} \in SUBSET (1..m) BY <1>13, <2>1
    <3>2. F[s \ {Latest(s)}] \in Health!Reduced BY <1>11, <3>1
    <3>3. F[s] = step[<<F[s \ {Latest(s)}], Latest(s)>>] BY <1>11, <2>1 DEF Folds
    <3>4. QED BY <1>9, <3>1, <3>2, <3>3
  <2>2. F[{}] = base BY <1>11 DEF Folds
  <2>3. QED BY <1>11, <2>1, <2>2
<1> HIDE DEF body, raw
<1>16. PICK G : G = CHOOSE H : H = body(H) OBVIOUS
<1>17. G = body(G) BY <1>15, <1>16
<1>18. (CHOOSE H : H = raw(H)) = G BY <1>14, <1>16
<1>19. PICK g : g = [k \in 0..m |-> G[1..k]] OBVIOUS
<1>20. g[0] = base
  <2>1. 1..0 = {} /\ {} \in SUBSET (1..m) /\ 0 \in 0..m OBVIOUS
  <2>2. G[{}] = base BY <1>17, <2>1 DEF body
  <2>3. QED BY <1>19, <2>1, <2>2
<1>21. ASSUME NEW k \in 1..m PROVE g[k] = Health!Times(g[k - 1], by(k))
  <2>1. 1..k \in SUBSET (1..m) /\ 1..k # {} /\ Latest(1..k) = k /\ 1..k \ {k} = 1..(k - 1) /\ k - 1 \in 0..m
    BY LastOfFirst
  <2>2. G[1..k] = Health!Times(G[1..(k - 1)], by(k)) BY <1>17, <2>1 DEF body
  <2>3. k \in 0..m OBVIOUS
  <2>4. QED BY <1>19, <2>1, <2>2, <2>3
<1>22. \A k \in 0..m : g[k] \in Health!Reduced
  <2> DEFINE good == {k \in 0..m : g[k] \in Health!Reduced}
  <2>1. 0 \in good BY <1>6, <1>20
  <2>2. ASSUME NEW k \in 1..m, g[k - 1] \in Health!Reduced PROVE g[k] \in Health!Reduced BY <1>9, <1>21, <2>2
  <2>3. \A k \in 1..m : k - 1 \in good => k \in good BY <2>2
  <2>4. \A k \in 0..m : k \in good
    <3> HIDE DEF good
    <3>1. QED BY <2>1, <2>3, Climbs
  <2>5. QED BY <2>4
<1>23. Grows(g, ts, fee, m) BY <1>5, <1>20, <1>21 DEF Grows, by
<1>24. Health!Growth(a, fee) = g[m]
  <2>1. m \in 0..m OBVIOUS
  <2>2. g[m] = G[1..m] BY <1>19, <2>1
  <2>3. QED BY <1>7, <1>18, <2>2
<1>25. QED BY <1>22, <1>23, <1>24 DEF GrowsBy

Agrees(us, ts) == \A j \in DOMAIN ts : us[j] = ts[j]

\* One more round trip multiplies what the others made.
GrewBy(b, a, us, l, m, fee) ==
  \A i, j : l = m + 1 /\ i = 2 * l /\ j = i - 1 =>
    Health!Growth(b, fee) = Health!Times(Health!Growth(a, fee), Factor(us[i].price, us[j].price, fee))

\* Trades that are added leave the growth of those before as it was.
LEMMA GrowthKept ==
  ASSUME NEW a, NEW ts \in Seq(Deal), Traded(a, ts), NEW m \in Nat, HasPairs(ts, m),
         NEW b, NEW us \in Seq(Deal), Traded(b, us), NEW l \in Nat, HasPairs(us, l),
         NEW fee, FeeFits(fee), Paid(ts), Paid(us), Agrees(us, ts)
  PROVE  /\ Health!Growth(a, fee) \in Health!Reduced
         /\ l = m => Health!Growth(b, fee) = Health!Growth(a, fee)
         /\ GrewBy(b, a, us, l, m, fee)
<1>1. m \in Nat /\ l \in Nat OBVIOUS
<1>9. \E g : GrowsBy(g, a, ts, fee, m) BY GrowthRuns
<1>10. \E f : GrowsBy(f, b, us, fee, l) BY GrowthRuns
<1>2. PICK g : (\A k \in 0..m : g[k] \in Health!Reduced) /\ Grows(g, ts, fee, m) /\ Health!Growth(a, fee) = g[m]
  BY <1>9 DEF GrowsBy
<1>3. PICK f : (\A k \in 0..l : f[k] \in Health!Reduced) /\ Grows(f, us, fee, l) /\ Health!Growth(b, fee) = f[l]
  BY <1>10 DEF GrowsBy
<1>4. ASSUME m <= l PROVE f[m] = g[m]
  <2> DEFINE good == {k \in 0..m : f[k] = g[k]}
  <2>1. 0 \in good BY <1>1, <1>2, <1>3 DEF Grows
  <2>2. ASSUME NEW k \in 1..m, f[k - 1] = g[k - 1] PROVE f[k] = g[k]
    <3>1. PICK i, j : i = 2 * k /\ j = 2 * k - 1 OBVIOUS
    <3>2. i \in DOMAIN ts /\ j \in DOMAIN ts
      <4>1. PICK n \in Nat : n = Len(ts) /\ DOMAIN ts = 1..n OBVIOUS
      <4>2. m = n \div 2 BY <4>1 DEF HasPairs
      <4>3. QED BY <3>1, <4>1, <4>2, PairIs
    <3>3. us[i] = ts[i] /\ us[j] = ts[j] BY <3>2 DEF Agrees
    <3>4. k \in 1..l BY <1>1, <1>4
    <3>5. f[k] = Health!Times(f[k - 1], Factor(us[i].price, us[j].price, fee)) BY <1>3, <3>1, <3>4 DEF Grows
    <3>6. g[k] = Health!Times(g[k - 1], Factor(ts[i].price, ts[j].price, fee)) BY <1>2, <3>1 DEF Grows
    <3>7. QED BY <2>2, <3>3, <3>5, <3>6
  <2>3. \A k \in 1..m : k - 1 \in good => k \in good BY <2>2
  <2>4. \A k \in 0..m : k \in good
    <3> HIDE DEF good
    <3>1. QED BY <1>1, <2>1, <2>3, Climbs
  <2>5. m \in 0..m BY <1>1
  <2>6. QED BY <2>4, <2>5
<1>5. ASSUME NEW i, NEW j, l = m + 1, i = 2 * l, j = i - 1
      PROVE  Health!Growth(b, fee) = Health!Times(Health!Growth(a, fee), Factor(us[i].price, us[j].price, fee))
  <2>1. f[m] = g[m] BY <1>1, <1>4, <1>5
  <2>2. l \in 1..l /\ l - 1 = m BY <1>1, <1>5
  <2>3. f[l] = Health!Times(f[m], Factor(us[2 * l].price, us[2 * l - 1].price, fee)) BY <1>3, <2>2 DEF Grows
  <2>4. QED BY <1>2, <1>3, <1>5, <2>1, <2>3
<1>6. l = m => Health!Growth(b, fee) = Health!Growth(a, fee) BY <1>1, <1>2, <1>3, <1>4
<1>7. Health!Growth(a, fee) \in Health!Reduced
  <2>1. m \in 0..m BY <1>1
  <2>2. QED BY <1>2, <2>1
<1>11. GrewBy(b, a, us, l, m, fee) BY <1>5 DEF GrewBy
<1>8. QED BY <1>6, <1>7, <1>11

\* Adding nothing changes nothing.
LEMMA PlusZero ==
  ASSUME NEW c \in Health!Reduced, NEW z \in Health!Reduced, z.num = 0
  PROVE  Health!Plus(c, z) = c
<1>1. PICK x \in Int, u, e \in Nat \ {0} : x = c.num /\ u = c.den /\ e = z.den BY PartsOf
<1>2. c = Health!Frac(x, u) BY <1>1, PartsOf
<1>3. PICK p \in Int, q \in Int : p = x * e /\ q = u * e BY <1>1
<1>4. Health!Plus(c, z) = Health!Frac(p, q)
  <2>1. p = x * e + 0 * u BY <1>1, <1>3
  <2>2. QED BY <1>1, <1>3, <2>1 DEF Health!Plus
<1>5. ScaledBy(e, x, p) /\ ScaledBy(e, u, q) BY <1>1, <1>3 DEF ScaledBy
<1>6. Health!Frac(p, q) = Health!Frac(x, u) BY <1>1, <1>5, FracScaled
<1>7. QED BY <1>2, <1>4, <1>6

\* A sale at more than the cost of the purchase, its fee counted twice, has
\* made something of the capital.
LEMMA GainIs ==
  ASSUME NEW c \in Health!Reduced, c.num > 0, NEW f \in Health!Reduced, NEW fee, FeeFits(fee),
         Health!Minus(Health!Times(c, f), Health!Plus(c, Health!Times(c, fee))).num > 0
  PROVE  Health!Above(f, Health!Whole(1))
<1>1. fee \in Health!Reduced /\ Health!Whole(1) \in Health!Reduced /\ Health!Whole(0) \in Health!Reduced
    /\ Health!Whole(0).num = 0
  BY WholeIs, Zero DEF FeeFits
<1>2. PICK t, w, cost : t = Health!Times(c, fee) /\ w = Health!Times(c, f) /\ cost = Health!Plus(c, t) OBVIOUS
<1>3. t \in Health!Reduced /\ w \in Health!Reduced /\ cost \in Health!Reduced BY <1>1, <1>2, ResultsReduced
<1>4. t.num >= 0
  <2>1. fee.num >= 0 /\ c.num >= 0 BY <1>1, SignBelow DEF FeeFits
  <2>2. QED BY <1>1, <1>2, <2>1, SignTimes
<1>5. Health!Below(c, cost)
  <2>1. Health!Below(Health!Whole(0), t) /\ Health!Below(c, c) BY <1>3, <1>4, SignBelow, BelowLaws
  <2>2. Health!Below(Health!Plus(c, Health!Whole(0)), Health!Plus(c, t)) BY <1>1, <1>3, <2>1, PlusBelow
  <2>3. Health!Plus(c, Health!Whole(0)) = c BY <1>1, PlusZero
  <2>4. QED BY <1>2, <2>2, <2>3
<1>6. Health!Above(w, cost) BY <1>2, <1>3, SignMinus
<1>7. ASSUME Health!Below(f, Health!Whole(1)) PROVE FALSE
  <2>1. c.num >= 0 BY SignBelow
  <2>2. Health!Below(Health!Times(c, f), Health!Times(c, Health!Whole(1))) BY <1>1, <1>7, <2>1, TimesBelow
  <2>3. Health!Times(c, Health!Whole(1)) = c BY TimesLaws
  <2>4. Health!Below(w, c) BY <1>2, <2>2, <2>3
  <2>5. Health!Below(w, cost) BY <1>3, <1>5, <2>4, BelowLaws
  <2>6. QED BY <1>6, <2>5 DEF Health!Above
<1>8. QED BY <1>7 DEF Health!Above

\* Trades take turns, in the order of their days, and no loss is a win.
TradesFit(ts, k, fee) ==
  /\ \A j \in DOMAIN ts : ts[j].side = IF j % 2 = 1 THEN "BUY" ELSE "SELL"
  /\ Paid(ts)
  /\ \A j \in DOMAIN ts : ts[j].at <= k
  /\ \A j \in 2..Len(ts) : ts[j - 1].at <= ts[j].at
  /\ \A j \in DOMAIN ts : ts[j].pnl.num > 0 =>
       j % 2 = 0 /\ Health!Above(Factor(ts[j].price, ts[j - 1].price, fee), Health!Whole(1))

\* What the round trips made of the capital is in cash or was invested.
Books(a, k, capital, fee) ==
  /\ a \in Account
  /\ TradesFit(a.trades, k, fee)
  /\ LET c == Health!Times(capital, Health!Growth(a, fee)) IN
     IF Health!Holds(a)
     THEN /\ Len(a.trades) % 2 = 1 /\ c.num > 0 /\ a.cash = Health!Whole(0)
          /\ a.quantity = Health!Times(Health!Net(c, fee), Health!Frac(1, a.trades[Len(a.trades)].price))
          /\ a.cost = Health!Plus(c, Health!Times(c, fee))
     ELSE Len(a.trades) % 2 = 0 /\ a.cash = c

\* A trade that may come after the others.
Follows(d, ts, i, fee) ==
  /\ d.at = i
  /\ d.side = IF Len(ts) % 2 = 0 THEN "BUY" ELSE "SELL"
  /\ Len(ts) % 2 = 0 => d.price > 0
  /\ d.pnl.num > 0 => Len(ts) % 2 = 1 /\ Health!Above(Factor(d.price, ts[Len(ts)].price, fee), Health!Whole(1))

Extends(us, ts, d) ==
  /\ us \in Seq(Deal) /\ Len(us) = Len(ts) + 1 /\ us[Len(ts) + 1] = d
  /\ Agrees(us, ts)

\* A trade of a later day, of the other side, keeps the list of trades fitting.
LEMMA TradeAppended ==
  ASSUME NEW ts \in Seq(Deal), NEW d \in Deal, NEW k \in Nat, NEW i \in Nat, k <= i, NEW fee,
         TradesFit(ts, k, fee), Follows(d, ts, i, fee)
  PROVE  TradesFit(Append(ts, d), i, fee) /\ Extends(Append(ts, d), ts, d)
<1>0. d.at = i /\ d.side = (IF Len(ts) % 2 = 0 THEN "BUY" ELSE "SELL") /\ (Len(ts) % 2 = 0 => d.price > 0)
  BY DEF Follows
<1>1. PICK n \in Nat : n = Len(ts) /\ DOMAIN ts = 1..n /\ \A j \in 1..n : ts[j] \in Deal OBVIOUS
<1>2. PICK us : us = Append(ts, d) OBVIOUS
<1>3. /\ us \in Seq(Deal) /\ Len(us) = n + 1 /\ DOMAIN us = 1..(n + 1) /\ us[n + 1] = d
      /\ \A j \in 1..n : us[j] = ts[j]
  BY <1>1, <1>2
<1>4. \A j \in 1..(n + 1) : j \in 1..n \/ j = n + 1 BY <1>1
<1>5. n % 2 \in {0, 1} /\ (n % 2 = 0 <=> (n + 1) % 2 = 1) BY <1>1
<1>6. \A j \in 1..n : ts[j].at <= i
  <2>1. \A j \in 1..n : ts[j].at \in Nat /\ ts[j].at <= k BY <1>1 DEF Deal, TradesFit
  <2>2. QED BY <2>1
<1>7. \A j \in 1..(n + 1) : us[j].side = IF j % 2 = 1 THEN "BUY" ELSE "SELL"
  <2>1. ASSUME NEW j \in 1..n PROVE us[j].side = IF j % 2 = 1 THEN "BUY" ELSE "SELL"
    BY <1>1, <1>3 DEF TradesFit
  <2>2. us[n + 1].side = IF (n + 1) % 2 = 1 THEN "BUY" ELSE "SELL" BY <1>0, <1>1, <1>3, <1>5
  <2>3. QED BY <1>4, <2>1, <2>2
<1>8. \A j \in 1..(n + 1) : j % 2 = 1 => us[j].price > 0
  <2>1. ASSUME NEW j \in 1..n, j % 2 = 1 PROVE us[j].price > 0 BY <1>1, <1>3, <2>1 DEF TradesFit, Paid
  <2>2. (n + 1) % 2 = 1 => us[n + 1].price > 0 BY <1>0, <1>1, <1>3, <1>5
  <2>3. QED BY <1>4, <2>1, <2>2
<1>9. \A j \in 1..(n + 1) : us[j].at <= i BY <1>0, <1>3, <1>4, <1>6
<1>10. ASSUME NEW j \in 2..(n + 1) PROVE us[j - 1].at <= us[j].at
  <2>1. CASE j \in 1..n
    <3>1. j \in 2..Len(ts) /\ j - 1 \in 1..n BY <1>1, <2>1
    <3>2. QED BY <1>3, <2>1, <3>1 DEF TradesFit
  <2>2. CASE j = n + 1
    <3>1. j - 1 \in 1..n BY <1>1, <2>2
    <3>2. QED BY <1>0, <1>3, <1>6, <2>2, <3>1
  <2>3. j \in 1..(n + 1) OBVIOUS
  <2>4. QED BY <1>4, <2>1, <2>2, <2>3
<1>11. ASSUME NEW j \in 1..(n + 1), us[j].pnl.num > 0
       PROVE  j % 2 = 0 /\ Health!Above(Factor(us[j].price, us[j - 1].price, fee), Health!Whole(1))
  <2>1. CASE j \in 1..n
    <3>1. us[j] = ts[j] /\ ts[j].pnl.num > 0 BY <1>3, <1>11, <2>1
    <3>2. j % 2 = 0 /\ Health!Above(Factor(ts[j].price, ts[j - 1].price, fee), Health!Whole(1))
      BY <1>1, <2>1, <3>1 DEF TradesFit
    <3>3. j - 1 \in 1..n BY <1>1, <2>1, <3>2
    <3>4. QED BY <1>3, <3>1, <3>2, <3>3
  <2>2. CASE j = n + 1
    <3>1. us[j] = d /\ j - 1 = n BY <1>1, <1>3, <2>2
    <3>2. n % 2 = 1 /\ Health!Above(Factor(d.price, ts[n].price, fee), Health!Whole(1))
      BY <1>1, <1>11, <3>1 DEF Follows
    <3>3. n \in 1..n /\ (n + 1) % 2 = 0 BY <1>1, <3>2
    <3>4. QED BY <1>3, <2>2, <3>1, <3>2, <3>3
  <2>3. QED BY <1>4, <2>1, <2>2
<1>12. TradesFit(us, i, fee)
  BY <1>3, <1>7, <1>8, <1>9, <1>10, <1>11 DEF TradesFit, Paid
<1>13. QED BY <1>1, <1>2, <1>3, <1>12 DEF Extends, Agrees

\* What an account with fitting books is made of.
LEMMA BooksAre ==
  ASSUME NEW a, NEW k \in Nat, NEW capital \in Amount, NEW fee, FeeFits(fee), Books(a, k, capital, fee)
  PROVE  /\ a \in Account /\ a.trades \in Seq(Deal) /\ Paid(a.trades)
         /\ Health!Growth(a, fee) \in Health!Reduced
             /\ Health!Times(capital, Health!Growth(a, fee)) \in Health!Reduced
<1>1. PICK ts : ts = a.trades OBVIOUS
<1>2. a \in Account /\ ts \in Seq(Deal) /\ Paid(ts) BY <1>1 DEF Books, TradesFit, Account
<1>3. PICK n \in Nat : n = Len(ts) BY <1>2
<1>4. PICK m \in Nat : m = n \div 2 BY PairIs
<1>5. HasPairs(ts, m) /\ Traded(a, ts) BY <1>1, <1>3, <1>4 DEF HasPairs, Traded
<1>6. PICK g : GrowsBy(g, a, ts, fee, m) BY <1>2, <1>5, GrowthRuns
<1>7. m \in 0..m OBVIOUS
<1>8. Health!Growth(a, fee) \in Health!Reduced BY <1>6, <1>7 DEF GrowsBy
<1>9. capital \in Health!Reduced BY DEF Amount
<1>10. QED BY <1>1, <1>2, <1>8, <1>9, ResultsReduced

\* Buying keeps the books: all cash becomes the position of a round trip begun.
LEMMA BoughtBooks ==
  ASSUME NEW a, NEW k \in Nat, NEW i \in Nat, k <= i, NEW capital \in Amount, NEW price \in Nat,
         NEW fee, FeeFits(fee), Books(a, k, capital, fee), Health!MayBuy(a, price, fee)
  PROVE  Books(Health!Bought(a, i, price, fee), i, capital, fee)
<1>1. a \in Account /\ a.trades \in Seq(Deal) /\ Paid(a.trades) /\ TradesFit(a.trades, k, fee)
      /\ Health!Growth(a, fee) \in Health!Reduced
  BY BooksAre DEF Books
<1>2. price > 0 /\ ~Health!Holds(a) /\ Health!Net(a.cash, fee).num > 0 BY DEF Health!MayBuy
<1>3. PICK b : b = Health!Bought(a, i, price, fee) OBVIOUS
<1>4. b \in Account BY <1>1, <1>2, <1>3, OrderedFits
<1>5. PICK ts, us, d : ts = a.trades /\ us = b.trades
    /\ d = Health!Trade(i, "BUY", price, Health!Whole(0)) OBVIOUS
<1>6. /\ us = Append(ts, d) /\ b.quantity = Health!Times(Health!Net(a.cash, fee), Health!Frac(1, price))
      /\ b.cost = Health!Plus(a.cash, Health!Times(a.cash, fee)) /\ b.cash = Health!Whole(0)
  BY <1>1, <1>3, <1>5 DEF Health!Bought, Account
<1>7. d \in Deal /\ d.at = i /\ d.side = "BUY" /\ d.price = price /\ ~(d.pnl.num > 0)
  BY <1>5, Zero DEF Health!Trade, Deal, Amount
<1>8. Len(ts) % 2 = 0 /\ a.cash = Health!Times(capital, Health!Growth(a, fee)) BY <1>2, <1>5 DEF Books
<1>9. /\ TradesFit(us, i, fee) /\ us \in Seq(Deal) /\ Len(us) = Len(ts) + 1
      /\ us[Len(ts) + 1] = d /\ Agrees(us, ts)
  <2>1. Follows(d, ts, i, fee) BY <1>2, <1>7, <1>8 DEF Follows
  <2>2. TradesFit(us, i, fee) /\ Extends(us, ts, d) BY <1>1, <1>5, <1>6, <1>7, <2>1, TradeAppended
  <2>3. QED BY <2>2 DEF Extends
<1>10. PICK n \in Nat : n = Len(ts) BY <1>1, <1>5
<1>11. PICK m \in Nat : m = n \div 2 BY PairIs
<1>12. (n + 1) \div 2 = m /\ (n + 1) % 2 = 1 BY <1>8, <1>10, <1>11
<1>13. HasPairs(ts, m) /\ HasPairs(us, m) /\ Traded(a, ts) /\ Traded(b, us)
  BY <1>5, <1>9, <1>10, <1>11, <1>12 DEF HasPairs, Traded
<1>14. Paid(us) BY <1>9 DEF TradesFit
<1>15. Health!Growth(b, fee) = Health!Growth(a, fee) BY <1>1, <1>5, <1>9, <1>13, <1>14, GrowthKept
<1>16. a.cash \in Health!Reduced /\ a.cash.num > 0
  <2>1. a.cash \in Health!Reduced BY <1>1 DEF Account, Amount
  <2>2. QED BY <1>2, <2>1, NetIs
<1>17. Health!Holds(b)
  <2>1. Health!Frac(1, price) \in Health!Reduced /\ Health!Frac(1, price).num > 0 BY <1>2, FracReduced, SignOf
  <2>2. Health!Net(a.cash, fee) \in Health!Reduced BY <1>16, NetIs
  <2>3. QED BY <1>2, <1>6, <2>1, <2>2, SignTimes DEF Health!Holds
<1>18. us[Len(us)].price = price BY <1>7, <1>9
<1>19. Len(us) % 2 = 1 BY <1>9, <1>10, <1>12
<1>20. QED BY <1>3, <1>4, <1>5, <1>6, <1>8, <1>9, <1>15, <1>16, <1>17, <1>18, <1>19 DEF Books

\* Selling keeps the books: a round trip has multiplied the capital by its factor.
LEMMA SoldBooks ==
  ASSUME NEW a, NEW k \in Nat, NEW i \in Nat, k <= i, NEW capital \in Amount, NEW price \in Nat,
         NEW fee, FeeFits(fee), Books(a, k, capital, fee), Health!Holds(a)
  PROVE  /\ Books(Health!Sold(a, i, price, fee), i, capital, fee)
         /\ ~Health!Holds(Health!Sold(a, i, price, fee))
<1>1. a \in Account /\ a.trades \in Seq(Deal) /\ Paid(a.trades) /\ TradesFit(a.trades, k, fee)
      /\ Health!Growth(a, fee) \in Health!Reduced
          /\ Health!Times(capital, Health!Growth(a, fee)) \in Health!Reduced
  BY BooksAre DEF Books
<1>2. PICK b : b = Health!Sold(a, i, price, fee) OBVIOUS
<1>3. b \in Account BY <1>1, <1>2, OrderedFits
<1>4. PICK c : c = Health!Times(capital, Health!Growth(a, fee)) OBVIOUS
<1>5. PICK ts, us : ts = a.trades /\ us = b.trades OBVIOUS
<1>6. PICK n \in Nat : n = Len(ts) /\ DOMAIN ts = 1..n BY <1>1, <1>5
<1>7. PICK p : p = ts[n].price OBVIOUS
<1>8. /\ n % 2 = 1 /\ c.num > 0 /\ c \in Health!Reduced
      /\ a.quantity = Health!Times(Health!Net(c, fee), Health!Frac(1, p))
          /\ a.cost = Health!Plus(c, Health!Times(c, fee))
  BY <1>1, <1>4, <1>5, <1>6, <1>7 DEF Books
<1>9. n \in 1..n BY <1>6, <1>8
<1>10. p \in Nat \ {0}
  <2>1. ts[n] \in Deal BY <1>1, <1>5, <1>6, <1>9
  <2>2. p > 0 BY <1>1, <1>5, <1>6, <1>7, <1>8, <1>9 DEF Paid
  <2>3. QED BY <1>7, <2>1, <2>2 DEF Deal
<1>11. PICK f : f = Factor(price, p, fee) OBVIOUS
<1>12. f \in Health!Reduced BY <1>10, <1>11, FactorIs
<1>13. PICK r : r = Health!Net(Health!Times(a.quantity, Health!Whole(price)), fee) OBVIOUS
<1>14. r = Health!Times(c, f) BY <1>8, <1>10, <1>11, <1>13, FactorIs
<1>15. PICK d : d = Health!Trade(i, "SELL", price, Health!Minus(r, a.cost)) OBVIOUS
<1>16. us = Append(ts, d) /\ b.cash = r /\ b.quantity = Health!Whole(0)
  BY <1>1, <1>2, <1>5, <1>13, <1>15 DEF Health!Sold, Account
<1>17. d \in Deal /\ d.at = i /\ d.side = "SELL" /\ d.price = price /\ d.pnl = Health!Minus(r, a.cost)
  <2>1. r \in Health!Reduced BY <1>8, <1>12, <1>14, ResultsReduced
  <2>2. a.cost \in Health!Reduced BY <1>1 DEF Account
  <2>3. Health!Minus(r, a.cost) \in Health!Reduced BY <2>1, <2>2, ResultsReduced
  <2>4. QED BY <1>15, <2>3 DEF Health!Trade, Deal
<1>18. d.pnl.num > 0 => n % 2 = 1 /\ Health!Above(Factor(d.price, ts[n].price, fee), Health!Whole(1))
  BY <1>7, <1>8, <1>11, <1>12, <1>14, <1>17, GainIs
<1>19. /\ TradesFit(us, i, fee) /\ us \in Seq(Deal) /\ Len(us) = n + 1
       /\ us[n + 1] = d /\ Agrees(us, ts)
  <2>1. n % 2 # 0 BY <1>8
  <2>2. Follows(d, ts, i, fee) BY <1>6, <1>17, <1>18, <2>1 DEF Follows
  <2>3. TradesFit(us, i, fee) /\ Extends(us, ts, d) BY <1>1, <1>5, <1>16, <1>17, <2>2, TradeAppended
  <2>4. QED BY <1>6, <2>3 DEF Extends
<1>20. PICK m \in Nat : m = n \div 2 BY PairIs
<1>21. PICK l \in Nat : l = m + 1 BY <1>20
<1>22. (n + 1) \div 2 = l /\ (n + 1) % 2 = 0 /\ 2 * l = n + 1 /\ 2 * l - 1 = n BY <1>8, <1>20, <1>21
<1>23. HasPairs(ts, m) /\ HasPairs(us, l) /\ Traded(a, ts) /\ Traded(b, us)
  BY <1>5, <1>6, <1>19, <1>20, <1>22 DEF HasPairs, Traded
<1>24. Paid(us) BY <1>19 DEF TradesFit
<1>32. PICK i2, j2 : i2 = 2 * l /\ j2 = i2 - 1 OBVIOUS
<1>25. Health!Growth(b, fee) = Health!Times(Health!Growth(a, fee), Factor(us[i2].price, us[j2].price, fee))
  <2>1. /\ ts \in Seq(Deal) /\ us \in Seq(Deal) /\ Paid(ts) /\ Paid(us) /\ Agrees(us, ts)
        /\ HasPairs(ts, m) /\ HasPairs(us, l) /\ Traded(a, ts) /\ Traded(b, us)
    BY <1>1, <1>5, <1>19, <1>23, <1>24
  <2>2. GrewBy(b, a, us, l, m, fee) BY <2>1, GrowthKept
  <2>3. QED BY <1>21, <1>32, <2>2 DEF GrewBy
<1>26. us[i2].price = price /\ us[j2].price = p
  BY <1>6, <1>7, <1>9, <1>17, <1>19, <1>22, <1>32 DEF Agrees
<1>27. Health!Growth(b, fee) = Health!Times(Health!Growth(a, fee), f) BY <1>11, <1>25, <1>26
<1>28. r = Health!Times(capital, Health!Growth(b, fee))
  <2>1. capital \in Health!Reduced BY DEF Amount
  <2>2. Health!Times(Health!Times(capital, Health!Growth(a, fee)), f) =
      Health!Times(capital, Health!Times(Health!Growth(a, fee), f))
    BY <1>1, <1>12, <2>1, TimesLaws
  <2>3. QED BY <1>4, <1>14, <1>27, <2>2
<1>29. ~Health!Holds(b) BY <1>16, Zero DEF Health!Holds
<1>30. Len(us) % 2 = 0 BY <1>19, <1>22
<1>31. QED BY <1>2, <1>3, <1>5, <1>16, <1>19, <1>28, <1>29, <1>30 DEF Books

\* An order that is carried out or not keeps the books.
LEMMA OrderedBooks ==
  ASSUME NEW a, NEW k \in Nat, NEW i \in Nat, k <= i, NEW capital \in Amount, NEW price \in Nat, NEW order,
         NEW fee, FeeFits(fee), Books(a, k, capital, fee)
  PROVE  Books(Health!Ordered(a, order, i, price, fee), i, capital, fee)
<1>1. CASE order = "BUY" /\ Health!MayBuy(a, price, fee)
  <2>1. Health!Ordered(a, order, i, price, fee) = Health!Bought(a, i, price, fee) BY <1>1 DEF Health!Ordered
  <2>2. QED BY <1>1, <2>1, BoughtBooks
<1>2. CASE ~(order = "BUY" /\ Health!MayBuy(a, price, fee)) /\ order = "SELL" /\ Health!Holds(a)
  <2>1. Health!Ordered(a, order, i, price, fee) = Health!Sold(a, i, price, fee) BY <1>2 DEF Health!Ordered
  <2>2. QED BY <1>2, <2>1, SoldBooks
<1>3. CASE ~(order = "BUY" /\ Health!MayBuy(a, price, fee)) /\ ~(order = "SELL" /\ Health!Holds(a))
  <2>1. Health!Ordered(a, order, i, price, fee) = a BY <1>3 DEF Health!Ordered
  <2>2. PICK ts : ts = a.trades OBVIOUS
  <2>3. ts \in Seq(Deal) /\ TradesFit(ts, k, fee) BY <2>2, BooksAre DEF Books
  <2>4. \A j \in DOMAIN ts : ts[j].at \in Nat
    <3>1. \A j \in DOMAIN ts : ts[j] \in Deal BY <2>3
    <3>2. QED BY <3>1 DEF Deal
  <2>5. TradesFit(ts, i, fee) BY <2>3, <2>4 DEF TradesFit
  <2>6. QED BY <2>1, <2>2, <2>5 DEF Books
<1>4. QED BY <1>1, <1>2, <1>3

\* Books are about trades and what is held, and not about the curve.
LEMMA SameBooks ==
  ASSUME NEW a, NEW b \in Account, NEW k \in Nat, NEW capital \in Amount, NEW fee, FeeFits(fee),
         Books(a, k, capital, fee), b.trades = a.trades,
         b.cash = a.cash, b.quantity = a.quantity, b.cost = a.cost
  PROVE  /\ Books(b, k, capital, fee)
         /\ Health!Growth(b, fee) = Health!Growth(a, fee)
<1>1. PICK ts : ts = a.trades OBVIOUS
<1>2. ts \in Seq(Deal) /\ Paid(ts) BY <1>1, BooksAre
<1>3. PICK n \in Nat : n = Len(ts) BY <1>2
<1>4. PICK m \in Nat : m = n \div 2 BY PairIs
<1>5. HasPairs(ts, m) /\ Traded(a, ts) /\ Traded(b, ts) /\ Agrees(ts, ts)
  BY <1>1, <1>3, <1>4 DEF HasPairs, Traded, Agrees
<1>6. Health!Growth(b, fee) = Health!Growth(a, fee) BY <1>2, <1>5, GrowthKept
<1>7. Health!Holds(b) <=> Health!Holds(a) BY DEF Health!Holds
<1>8. QED BY <1>6, <1>7 DEF Books

\* The curve has a value for each day, and while nothing is held it is the cash.
Ledger(a, k, capital, fee) ==
  /\ Books(a, k, capital, fee)
  /\ Len(a.curve) = k
  /\ k > 0 /\ ~Health!Holds(a) => a.curve[k] = a.cash
  /\ k = 0 => ~Health!Holds(a)

\* A day of the simulation keeps the books (_simulate_backtest).
LEMMA DayLedger ==
  ASSUME NEW prices \in Seq(Nat), NEW orders, NEW k \in 1..Len(prices), NEW a,
         NEW capital \in Amount, NEW fee, FeeFits(fee), Ledger(a, k - 1, capital, fee)
  PROVE  Ledger(Day(prices, orders, fee, a, k), k, capital, fee)
<1>1. k \in Nat /\ k - 1 \in Nat /\ k - 1 <= k /\ prices[k] \in Nat OBVIOUS
<1>2. PICK price \in Nat : price = prices[k] BY <1>1
<1>3. PICK o : o = Health!Ordered(a, orders[k], k, price, fee) OBVIOUS
<1>4. Books(a, k - 1, capital, fee) /\ a \in Account /\ Len(a.curve) = k - 1 BY DEF Ledger, Books
<1>5. Books(o, k, capital, fee) BY <1>1, <1>3, <1>4, OrderedBooks
<1>6. o \in Account BY <1>5 DEF Books
<1>7. o.curve = a.curve /\ o.curve \in Seq(Amount)
  <2>1. o.curve = a.curve BY <1>3, <1>4 DEF Health!Ordered, Health!Bought, Health!Sold, Account
  <2>2. QED BY <1>6, <2>1 DEF Account
<1>8. PICK v : v = Health!Valued(o, price) OBVIOUS
<1>9. PICK w : w = Health!Plus(o.cash, Health!Times(o.quantity, Health!Whole(price))) OBVIOUS
<1>10. /\ v \in Account /\ v.cash = o.cash /\ v.quantity = o.quantity
       /\ v.cost = o.cost /\ v.trades = o.trades /\ v.curve = Append(o.curve, w)
       /\ o.quantity.num = 0 => w = o.cash
  BY <1>6, <1>8, <1>9, ValuedFits
<1>11. Books(v, k, capital, fee) BY <1>1, <1>5, <1>10, SameBooks
<1>12. Len(v.curve) = k /\ v.curve[k] = w
  <2>1. Len(o.curve) = k - 1 BY <1>4, <1>7
  <2>2. QED BY <1>1, <1>7, <1>10, <2>1
<1>13. ~Health!Holds(v) => w = v.cash
  <2>1. o.quantity \in Amount BY <1>6 DEF Account
  <2>2. o.quantity.num \in Int /\ o.quantity.num >= 0 BY <2>1, PartsOf DEF Amount
  <2>3. QED BY <1>10, <2>2 DEF Health!Holds
<1>14. Day(prices, orders, fee, a, k) = v BY <1>2, <1>3, <1>8 DEF Day
<1>16. k # 0 OBVIOUS
<1>15. QED BY <1>11, <1>12, <1>13, <1>14, <1>16 DEF Ledger

\* A simulation starts with all its capital in cash.
LEMMA OpenedLedger ==
  ASSUME NEW capital \in Amount, NEW fee, FeeFits(fee)
  PROVE  Ledger(Health!Opened(capital), 0, capital, fee)
<1>1. PICK a : a = Health!Opened(capital) OBVIOUS
<1>2. /\ a.cash = capital /\ a.quantity = Health!Whole(0) /\ a.cost = Health!Whole(0) /\ a.curve = <<>>
         /\ a.trades = <<>>
  BY <1>1 DEF Health!Opened
<1>3. a \in Account BY <1>1, Zero DEF Health!Opened, Account, Amount
<1>4. ~Health!Holds(a) BY <1>2, Zero DEF Health!Holds
<1>5. PICK ts : ts = a.trades OBVIOUS
<1>6. ts \in Seq(Deal) /\ Len(ts) = 0 /\ DOMAIN ts = {} BY <1>2, <1>5
<1>7. TradesFit(ts, 0, fee) /\ Paid(ts) BY <1>6 DEF TradesFit, Paid
<1>8. Health!Growth(a, fee) = Health!Whole(1)
  <2>1. HasPairs(ts, 0) /\ Traded(a, ts) BY <1>5, <1>6 DEF HasPairs, Traded
  <2>2. 0 \in Nat OBVIOUS
  <2>3. PICK g : GrowsBy(g, a, ts, fee, 0) BY <1>6, <1>7, <2>1, <2>2, GrowthRuns
  <2>4. QED BY <2>3 DEF GrowsBy, Grows
<1>9. Health!Times(capital, Health!Whole(1)) = capital BY TimesLaws DEF Amount
<1>10. Books(a, 0, capital, fee) BY <1>2, <1>3, <1>4, <1>5, <1>6, <1>7, <1>8, <1>9 DEF Books
<1>11. Len(a.curve) = 0 BY <1>2
<1>12. QED BY <1>1, <1>4, <1>10, <1>11 DEF Ledger

\* Selling at the end changes no value but the last.
EndsLike(c, d, prices) ==
  /\ c \in Seq(Amount) /\ Len(c) = Len(prices)
  /\ \A j \in 1..(Len(prices) - 1) : c[j] = d[j]

\* The properties of the trades hold at the end, when what is held is sold.
LEMMA ClosedFits ==
  ASSUME NEW prices \in Seq(Nat), NEW a, NEW capital \in Amount, NEW fee, FeeFits(fee),
         Ledger(a, Len(prices), capital, fee)
  PROVE  /\ Health!RoundTrips(Health!Closed(a, prices, fee), capital, fee)
         /\ Health!WinsAreGains(Health!Closed(a, prices, fee), fee)
         /\ EndsLike(Health!Closed(a, prices, fee).curve, a.curve, prices)
<1>1. PICK n \in Nat : n = Len(prices) OBVIOUS
<1>2. Books(a, n, capital, fee) /\ Len(a.curve) = n /\ (n > 0 /\ ~Health!Holds(a) => a.curve[n] = a.cash)
    /\ a \in Account
  BY <1>1 DEF Ledger, Books
<1>3. a.curve \in Seq(Amount) BY <1>2 DEF Account
<1>4. PICK b : b = Health!Closed(a, prices, fee) OBVIOUS
<1>5. /\ Books(b, n, capital, fee) /\ ~Health!Holds(b) /\ b.curve \in Seq(Amount) /\ Len(b.curve) = n
      /\ n > 0 => b.curve[n] = b.cash
      /\ \A j \in 1..(n - 1) : b.curve[j] = a.curve[j]
  <2>1. CASE ~Health!Holds(a)
    <3>1. b = a BY <1>4, <2>1 DEF Health!Closed
    <3>2. QED BY <1>2, <1>3, <2>1, <3>1
  <2>2. CASE Health!Holds(a)
    <3>1. n > 0 BY <1>1, <2>2 DEF Ledger
    <3>2. n \in Nat /\ n <= n /\ prices[n] \in Nat BY <1>1, <3>1
    <3>3. PICK s : s = Health!Sold(a, n, prices[n], fee) OBVIOUS
    <3>4. Books(s, n, capital, fee) /\ ~Health!Holds(s) BY <1>2, <2>2, <3>2, <3>3, SoldBooks
    <3>5. s \in Account /\ s.cash \in Amount /\ s.curve = a.curve
      <4>1. s.curve = a.curve BY <1>2, <3>3 DEF Health!Sold, Account
      <4>2. s \in Account BY <3>4 DEF Books
      <4>3. QED BY <4>1, <4>2 DEF Account
    <3>6. b = Health!Settled(s) BY <1>1, <1>4, <2>2, <3>3 DEF Health!Closed
    <3>7. PICK c : c = [s.curve EXCEPT ![Len(s.curve)] = s.cash] OBVIOUS
    <3>8. /\ c \in Seq(Amount) /\ Len(c) = n /\ c[n] = s.cash
          /\ \A j \in 1..(n - 1) : c[j] = a.curve[j]
      BY <1>2, <1>3, <3>1, <3>5, <3>7
    <3>9. /\ b \in Account /\ b.trades = s.trades /\ b.cash = s.cash /\ b.quantity = s.quantity
          /\ b.cost = s.cost /\ b.curve = c
      BY <3>5, <3>6, <3>7, <3>8 DEF Health!Settled, Account
    <3>10. Books(b, n, capital, fee) BY <1>1, <3>4, <3>9, SameBooks
    <3>11. ~Health!Holds(b) BY <3>4, <3>9 DEF Health!Holds
    <3>12. QED BY <3>8, <3>9, <3>10, <3>11
  <2>3. QED BY <2>1, <2>2
<1>6. PICK ts : ts = b.trades OBVIOUS
<1>7. ts \in Seq(Deal) /\ TradesFit(ts, n, fee) BY <1>5, <1>6 DEF Books, Account
<1>8. Len(ts) % 2 = 0 /\ b.cash = Health!Times(capital, Health!Growth(b, fee)) BY <1>5, <1>6 DEF Books
<1>9. b.curve # <<>> => b.curve[Len(b.curve)] = Health!Times(capital, Health!Growth(b, fee))
  <2>1. b.curve # <<>> => n > 0 BY <1>5
  <2>2. QED BY <1>5, <1>8, <2>1
<1>10. Health!RoundTrips(b, capital, fee) BY <1>5, <1>6, <1>7, <1>8, <1>9 DEF Health!RoundTrips, TradesFit
<1>11. Health!WinsAreGains(b, fee) BY <1>6, <1>7 DEF Health!WinsAreGains, TradesFit, Factor
<1>12. EndsLike(b.curve, a.curve, prices) BY <1>1, <1>5 DEF EndsLike
<1>13. QED BY <1>4, <1>10, <1>11, <1>12

\* The days of a simulation, its end and what its accounts are.
LEMMA SimulationFits ==
  ASSUME NEW prices \in Seq(Nat), NEW orders, NEW capital \in Amount, NEW fee, FeeFits(fee)
  PROVE  \E h : /\ \A k \in 0..Len(prices) : Ledger(h[k], k, capital, fee)
                /\ Runs(h, prices, orders, capital, fee)
                /\ Health!Simulate(prices, orders, capital, fee) = Health!Closed(h[Len(prices)], prices, fee)
<1>1. PICK h : /\ Runs(h, prices, orders, capital, fee)
               /\ Health!Simulate(prices, orders, capital, fee) = Health!Closed(h[Len(prices)], prices, fee)
  BY SimulateRuns
<1>2. PICK n \in Nat : n = Len(prices) OBVIOUS
<1> DEFINE good == {k \in 0..n : Ledger(h[k], k, capital, fee)}
<1>3. 0 \in good BY <1>1, <1>2, OpenedLedger DEF Runs
<1>4. ASSUME NEW k \in 1..n, Ledger(h[k - 1], k - 1, capital, fee) PROVE Ledger(h[k], k, capital, fee)
  <2>1. k \in 1..Len(prices) BY <1>2
  <2>2. h[k] = Day(prices, orders, fee, h[k - 1], k) BY <1>1, <2>1 DEF Runs
  <2>3. PICK a : a = h[k - 1] OBVIOUS
  <2>4. Ledger(Day(prices, orders, fee, a, k), k, capital, fee) BY <1>4, <2>1, <2>3, DayLedger
  <2>5. QED BY <2>2, <2>3, <2>4
<1>5. \A k \in 1..n : k - 1 \in good => k \in good BY <1>4
<1>6. \A k \in 0..n : k \in good
  <2> HIDE DEF good
  <2>1. QED BY <1>3, <1>5, Climbs
<1>7. QED BY <1>1, <1>2, <1>6

-----------------------------------------------------------------------------
(* No order and no value depends on a later price                          *)

Side == {"HOLD", "BUY", "SELL"}

\* The prices of a window.
SameAt(q, p, w, i) == \A k \in 1..w : q[i - w + k] = p[i - w + k]

\* What is measured over a window depends on the prices in it only.
LEMMA WindowSame ==
  ASSUME NEW q, NEW p, NEW w \in Nat \ {0}, NEW i \in Int, SameAt(q, p, w, i)
  PROVE  /\ Health!Average(q, w, i) = Health!Average(p, w, i)
         /\ Health!Variance(q, w, i) = Health!Variance(p, w, i)
         /\ Health!Gap(q, w, i) = Health!Gap(p, w, i)
<1> DEFINE rawQ(G) == [s \in SUBSET (1..w) |->
                        IF s = {} THEN 0 ELSE G[s \ {Latest(s)}] + q[i - w + Latest(s)]]
           rawP(G) == [s \in SUBSET (1..w) |->
                        IF s = {} THEN 0 ELSE G[s \ {Latest(s)}] + p[i - w + Latest(s)]]
<1>1. Health!Average(q, w, i) = Health!Frac((CHOOSE G : G = rawQ(G))[1..w], w)
  BY DEF Health!Average, Health!Through, Health!MapThenFoldSet, Latest
<1>2. Health!Average(p, w, i) = Health!Frac((CHOOSE G : G = rawP(G))[1..w], w)
  BY DEF Health!Average, Health!Through, Health!MapThenFoldSet, Latest
<1>4. \A s \in SUBSET (1..w) : s # {} => Latest(s) \in 1..w BY LastIn
<1>5. \A k \in 1..w : q[i - w + k] = p[i - w + k] BY DEF SameAt
<1>6. ASSUME NEW G PROVE rawQ(G) = rawP(G) BY <1>4, <1>5
<1> HIDE DEF rawQ, rawP
<1>7. PICK mean : mean = Health!Average(p, w, i) OBVIOUS
<1>8. Health!Average(q, w, i) = mean
  <2>1. (CHOOSE G : G = rawQ(G)) = (CHOOSE G : G = rawP(G)) BY <1>6
  <2>2. QED BY <1>1, <1>2, <1>7, <2>1
<1>9. Health!Variance(q, w, i) = Health!Variance(p, w, i)
  <2>1. Health!Variance(q, w, i) =
      Health!Mean([k \in 1..w |-> Health!Square(Health!Minus(Health!Whole(q[i - w + k]), mean))])
    BY <1>8 DEF Health!Variance
  <2>2. Health!Variance(p, w, i) =
      Health!Mean([k \in 1..w |-> Health!Square(Health!Minus(Health!Whole(p[i - w + k]), mean))])
    BY <1>7 DEF Health!Variance
  <2>3. [k \in 1..w |-> Health!Square(Health!Minus(Health!Whole(q[i - w + k]), mean))]
          = [k \in 1..w |-> Health!Square(Health!Minus(Health!Whole(p[i - w + k]), mean))] BY <1>5
  <2>4. QED BY <2>1, <2>2, <2>3
<1>10. q[i] = p[i]
  <2>1. w \in 1..w /\ i - w + w = i OBVIOUS
  <2>2. q[i - w + w] = p[i - w + w] BY <1>5, <2>1
  <2>3. QED BY <2>1, <2>2
<1>11. Health!Gap(q, w, i) = Health!Gap(p, w, i) BY <1>7, <1>8, <1>10 DEF Health!Gap
<1>12. QED BY <1>7, <1>8, <1>9, <1>11

\* A history that ended earlier.
Cut(q, p, n) ==
  /\ DOMAIN q = 1..n /\ n <= Len(p)
  /\ \A j \in 1..n : q[j] = p[j]

\* The first n prices are a history cut after n days.
LEMMA CutIs ==
  ASSUME NEW T, NEW p \in Seq(T), NEW n \in Nat, n <= Len(p)
  PROVE  SubSeq(p, 1, n) \in Seq(T) /\ Len(SubSeq(p, 1, n)) = n /\ Cut(SubSeq(p, 1, n), p, n)
<1>1. PICK q : q = SubSeq(p, 1, n) OBVIOUS
<1>2. q \in Seq(T) /\ Len(q) = n /\ \A j \in 1..n : q[j] = p[j] BY <1>1
<1>3. QED BY <1>1, <1>2 DEF Cut

\* A history cut after n days is its first n prices.
LEMMA CutSame ==
  ASSUME NEW T, NEW p \in Seq(T), NEW n \in Nat, n <= Len(p), NEW q \in Seq(T), Cut(q, p, n)
  PROVE  q = SubSeq(p, 1, n)
<1>1. PICK r : r = SubSeq(p, 1, n) OBVIOUS
<1>2. r \in Seq(T) /\ Len(r) = n /\ Cut(r, p, n) BY <1>1, CutIs
<1>3. Len(q) = n /\ DOMAIN q = 1..n /\ DOMAIN r = 1..n BY <1>2 DEF Cut
<1>4. \A j \in 1..n : q[j] = r[j] BY <1>2 DEF Cut
<1>5. q = r BY <1>2, <1>3, <1>4
<1>6. QED BY <1>1, <1>5

\* A window within the days of a cut history is that of the whole one.
LEMMA CutWindow ==
  ASSUME NEW p \in Seq(Nat), NEW n \in Nat, NEW q \in Seq(Nat), Cut(q, p, n),
         NEW w \in Nat \ {0}, NEW i \in Nat, w <= i, i <= n
  PROVE  /\ Health!Average(q, w, i) = Health!Average(p, w, i)
         /\ Health!Variance(q, w, i) = Health!Variance(p, w, i)
         /\ Health!Gap(q, w, i) = Health!Gap(p, w, i)
<1>1. ASSUME NEW k \in 1..w PROVE q[i - w + k] = p[i - w + k]
  <2>1. i - w + k \in 1..n OBVIOUS
  <2>2. QED BY <2>1 DEF Cut
<1>2. SameAt(q, p, w, i) BY <1>1 DEF SameAt
<1>3. QED BY <1>2, WindowSame

\* A function of the first positions is a sequence.
LEMMA IsSequence ==
  ASSUME NEW S, NEW m \in Nat, NEW o \in [1..m -> S]
  PROVE  o \in Seq(S) /\ Len(o) = m
OBVIOUS

Typed(o, p) == o \in Seq(Side) /\ Len(o) = Len(p)

\* Orders on crossings of averages look at no later price (_moving_average_events).
LEMMA CrossingsCut ==
  ASSUME NEW p \in Seq(Nat), NEW n \in Nat, NEW q \in Seq(Nat), Cut(q, p, n),
         NEW short \in Nat \ {0}, NEW long \in Nat, short < long
  PROVE  /\ Typed(Health!Crossings(p, short, long), p)
         /\ Cut(Health!Crossings(q, short, long), Health!Crossings(p, short, long), n)
<1>1. ASSUME NEW r \in Seq(Nat) PROVE Typed(Health!Crossings(r, short, long), r)
  <2>1. PICK m \in Nat : m = Len(r) /\ DOMAIN r = 1..m OBVIOUS
  <2>2. PICK o : o = Health!Crossings(r, short, long) OBVIOUS
  <2>3. DOMAIN o = 1..m BY <2>1, <2>2 DEF Health!Crossings
  <2>4. ASSUME NEW i \in 1..m PROVE o[i] \in Side BY <2>1, <2>2 DEF Health!Crossings, Side
  <2>5. o = [i \in 1..m |-> o[i]] BY <2>1, <2>2 DEF Health!Crossings
  <2>6. o \in [1..m -> Side] BY <2>4, <2>5
  <2>7. o \in Seq(Side) /\ Len(o) = m BY <2>6, IsSequence
  <2>8. QED BY <2>1, <2>2, <2>7 DEF Typed
<1>2. DOMAIN q = 1..n /\ n <= Len(p) /\ DOMAIN p = 1..Len(p) BY DEF Cut
<1>3. ASSUME NEW i \in 1..n PROVE Health!Crossings(q, short, long)[i] = Health!Crossings(p, short, long)[i]
  <2>1. i \in DOMAIN q /\ i \in DOMAIN p BY <1>2
  <2>2. CASE i <= long BY <2>1, <2>2 DEF Health!Crossings
  <2>3. CASE ~(i <= long)
    <3>1. long \in Nat \ {0} /\ i \in Nat /\ i - 1 \in Nat /\ short <= i - 1 /\ long <= i - 1 /\ short <= i
        /\ long <= i /\ i <= n /\ i - 1 <= n
      BY <2>3
    <3>2. Health!Average(q, short, i) = Health!Average(p, short, i)
        /\ Health!Average(q, long, i) = Health!Average(p, long, i)
      BY <3>1, CutWindow
    <3>3. Health!Average(q, short, i - 1) = Health!Average(p, short, i - 1)
        /\ Health!Average(q, long, i - 1) = Health!Average(p, long, i - 1)
      BY <3>1, CutWindow
    <3>4. QED BY <2>1, <2>3, <3>2, <3>3 DEF Health!Crossings
  <2>4. QED BY <2>2, <2>3
<1>4. Len(Health!Crossings(p, short, long)) = Len(p) BY <1>1 DEF Typed
<1>5. DOMAIN Health!Crossings(q, short, long) = 1..n BY <1>2 DEF Health!Crossings
<1>6. QED BY <1>1, <1>2, <1>3, <1>4, <1>5 DEF Cut

\* Orders of the backtest's mean reversion look at no later price
\* (_mean_reversion_events).
LEMMA ReversionsCut ==
  ASSUME NEW p \in Seq(Nat), NEW n \in Nat, NEW q \in Seq(Nat), Cut(q, p, n),
         NEW w \in Nat \ {0}, NEW entry
  PROVE  /\ Typed(Health!Reversions(p, w, entry), p)
         /\ Cut(Health!Reversions(q, w, entry), Health!Reversions(p, w, entry), n)
<1>1. PICK m \in Nat : m = Len(p) /\ DOMAIN p = 1..m OBVIOUS
<1>2. DOMAIN q = 1..n /\ n <= m BY <1>1 DEF Cut
<1>3. PICK o : o = Health!Reversions(p, w, entry) OBVIOUS
<1>4. Typed(o, p)
  <2>1. ASSUME NEW i \in 1..m PROVE o[i] \in Side BY <1>1, <1>3 DEF Health!Reversions, Side
  <2>2. o = [i \in 1..m |-> o[i]] BY <1>1, <1>3 DEF Health!Reversions
  <2>3. o \in [1..m -> Side] BY <2>1, <2>2
  <2>4. o \in Seq(Side) /\ Len(o) = m BY <2>3, IsSequence
  <2>5. QED BY <1>1, <2>4 DEF Typed
<1>5. ASSUME NEW i \in 1..n PROVE Health!Reversions(q, w, entry)[i] = o[i]
  <2>1. i \in DOMAIN q /\ i \in DOMAIN p /\ i \in Nat /\ i <= n BY <1>1, <1>2
  <2>2. CASE i < w BY <1>3, <2>1, <2>2 DEF Health!Reversions
  <2>3. CASE w <= i
    <3>1. Health!Variance(q, w, i) = Health!Variance(p, w, i) /\ Health!Gap(q, w, i) = Health!Gap(p, w, i)
      BY <2>1, <2>3, CutWindow
    <3>2. Health!Far(q, w, i, entry) <=> Health!Far(p, w, i, entry) BY <3>1 DEF Health!Far
    <3>3. QED BY <1>3, <2>1, <3>1, <3>2 DEF Health!Reversions
  <2>4. QED BY <2>1, <2>2, <2>3
<1>6. Len(o) = m BY <1>1, <1>4 DEF Typed
<1>7. DOMAIN Health!Reversions(q, w, entry) = 1..n BY <1>2 DEF Health!Reversions
<1>8. QED BY <1>2, <1>3, <1>4, <1>5, <1>6, <1>7 DEF Cut

\* What grows by one element a day keeps the elements it has.
Appends(f, S, m) ==
  /\ f[0] = <<>>
  /\ \A k \in 0..m : f[k] \in Seq(S)
  /\ \A k \in 1..m : \E o \in S : f[k] = Append(f[k - 1], o)

Lengthened(f, m) ==
  \A k \in 0..m : Len(f[k]) = k /\ \A i \in 0..m : i <= k => \A j \in 1..i : f[i][j] = f[k][j]

\* Sequences that each append to the one before begin with all those before.
LEMMA Lengthens ==
  ASSUME NEW S, NEW m \in Nat, NEW f, Appends(f, S, m)
  PROVE  Lengthened(f, m)
<1>1. /\ f[0] = <<>> /\ \A k \in 0..m : f[k] \in Seq(S)
      /\ \A k \in 1..m : \E o \in S : f[k] = Append(f[k - 1], o)
  BY DEF Appends
<1>2. \A k \in 0..m : Len(f[k]) = k
  <2> DEFINE good == {k \in 0..m : Len(f[k]) = k}
  <2>1. 0 \in good BY <1>1
  <2>2. ASSUME NEW k \in 1..m, Len(f[k - 1]) = k - 1 PROVE Len(f[k]) = k
    <3>1. PICK o \in S : f[k] = Append(f[k - 1], o) BY <1>1
    <3>2. k - 1 \in 0..m OBVIOUS
    <3>3. f[k - 1] \in Seq(S) BY <1>1, <3>2
    <3>4. QED BY <2>2, <3>1, <3>3
  <2>3. \A k \in 1..m : k - 1 \in good => k \in good BY <2>2
  <2>4. \A k \in 0..m : k \in good
    <3> HIDE DEF good
    <3>1. QED BY <2>1, <2>3, Climbs
  <2>5. QED BY <2>4
<1>3. ASSUME NEW i \in 0..m, NEW j \in 1..i PROVE \A k \in 0..m : i <= k => f[i][j] = f[k][j]
  <2> DEFINE good == {k \in 0..m : i <= k => f[i][j] = f[k][j]}
  <2>1. 0 \in good
    <3>1. 0 \in 0..m /\ (i <= 0 => i = 0) OBVIOUS
    <3>2. QED BY <3>1
  <2>2. ASSUME NEW k \in 1..m, i <= k - 1 => f[i][j] = f[k - 1][j], i <= k PROVE f[i][j] = f[k][j]
    <3>1. CASE i = k BY <3>1
    <3>2. CASE i <= k - 1
      <4>1. PICK o \in S : f[k] = Append(f[k - 1], o) BY <1>1
      <4>2. k - 1 \in 0..m OBVIOUS
      <4>3. f[k - 1] \in Seq(S) /\ Len(f[k - 1]) = k - 1 BY <1>1, <1>2, <4>2
      <4>4. j \in 1..Len(f[k - 1]) BY <3>2, <4>3
      <4>5. f[k][j] = f[k - 1][j] BY <4>1, <4>3, <4>4
      <4>6. QED BY <2>2, <3>2, <4>5
    <3>3. QED BY <2>2, <3>1, <3>2
  <2>3. \A k \in 1..m : k - 1 \in good => k \in good BY <2>2
  <2>4. \A k \in 0..m : k \in good
    <3> HIDE DEF good
    <3>1. QED BY <2>1, <2>3, Climbs
  <2>5. QED BY <2>4
<1>4. QED BY <1>2, <1>3 DEF Lengthened

\* The order of a day of mean reversion, and what is known after it.
OrderOf(p, w, entry, exit, in, i) ==
  CASE i < w -> "HOLD"
    [] i >= w /\ ~in /\ Health!Far(p, w, i, entry) /\ Health!Gap(p, w, i).num < 0 -> "BUY"
    [] i >= w /\ in /\ Health!Recovered(p, w, i, exit) -> "SELL"
    [] OTHER -> "HOLD"

After(p, w, entry, exit, s, i) ==
  [in |-> OrderOf(p, w, entry, exit, s.in, i) = "BUY" \/ (s.in /\ OrderOf(p, w, entry, exit, s.in, i) # "SELL"),
   orders |-> Append(s.orders, OrderOf(p, w, entry, exit, s.in, i))]

Known == [in: BOOLEAN, orders: Seq(Side)]

Begun == [in |-> FALSE, orders |-> <<>>]

\* What is known after each day.
Watches(h, p, w, entry, exit, n) ==
  /\ h[0] = Begun
  /\ \A k \in 1..n : h[k] = After(p, w, entry, exit, h[k - 1], k)

Observed(h, p, w, entry, exit, n) ==
  /\ \A k \in 0..n : h[k] \in Known
  /\ Watches(h, p, w, entry, exit, n)
  /\ Health!Recoveries(p, w, entry, exit) = h[n].orders

\* The orders of the health analysis on mean reversion go through the days.
LEMMA RecoveriesRun ==
  ASSUME NEW p \in Seq(Nat), NEW w, NEW entry, NEW exit, NEW n \in Nat, n = Len(p)
  PROVE  \E h : Observed(h, p, w, entry, exit, n)
<1>1. DOMAIN p = 1..n OBVIOUS
<1>2. PICK base : base = Begun OBVIOUS
<1>3. base \in Known BY <1>2 DEF Begun, Known
<1>4. PICK step : step = [q \in Known \X (1..n) |-> After(p, w, entry, exit, q[1], q[2])] OBVIOUS
<1>5. ASSUME NEW s \in Known, NEW i \in 1..n
      PROVE  step[<<s, i>>] = After(p, w, entry, exit, s, i) /\ After(p, w, entry, exit, s, i) \in Known
  <2>1. <<s, i>> \in Known \X (1..n) /\ <<s, i>>[1] = s /\ <<s, i>>[2] = i OBVIOUS
  <2>2. step[<<s, i>>] = After(p, w, entry, exit, s, i) BY <1>4, <2>1
  <2>3. PICK o : o = OrderOf(p, w, entry, exit, s.in, i) OBVIOUS
  <2>4. o \in Side BY <2>3 DEF OrderOf, Side
  <2>5. s.orders \in Seq(Side) /\ s.in \in BOOLEAN BY DEF Known
  <2>6. Append(s.orders, o) \in Seq(Side) BY <2>4, <2>5
  <2>7. (o = "BUY" \/ (s.in /\ o # "SELL")) \in BOOLEAN OBVIOUS
  <2>8. QED BY <2>2, <2>3, <2>6, <2>7 DEF After, Known
<1>6. HasFold(Known, base, step, n) BY <1>3, <1>5, FoldRuns
<1>7. PICK F \in [SUBSET (1..n) -> Known] : Folds(F, base, step, n) BY <1>6 DEF HasFold
<1> DEFINE body(G) == [s \in SUBSET (1..n) |->
                         IF s = {} THEN base ELSE After(p, w, entry, exit, G[s \ {Latest(s)}], Latest(s))]
           raw(G) == [s \in SUBSET (1..n) |->
                        IF s = {} THEN [in |-> FALSE, orders |-> <<>>]
                        ELSE After(p, w, entry, exit, G[s \ {Latest(s)}], Latest(s))]
<1>8. Health!Recoveries(p, w, entry, exit) = (CHOOSE G : G = raw(G))[1..n].orders
  BY <1>1 DEF Health!Recoveries, Health!Through, Health!MapThenFoldSet, Latest, After, OrderOf
<1>10. \A s \in SUBSET (1..n) : s # {} => Latest(s) \in 1..n BY LastIn
<1>11. ASSUME NEW G PROVE raw(G) = body(G) BY <1>2, <1>10 DEF Begun
<1>12. F = body(F)
  <2>1. ASSUME NEW s \in SUBSET (1..n), s # {}
        PROVE  F[s] = After(p, w, entry, exit, F[s \ {Latest(s)}], Latest(s))
    <3>1. Latest(s) \in 1..n /\ s \ {Latest(s)} \in SUBSET (1..n) BY <1>10, <2>1
    <3>2. F[s \ {Latest(s)}] \in Known BY <1>7, <3>1
    <3>3. F[s] = step[<<F[s \ {Latest(s)}], Latest(s)>>] BY <1>7, <2>1 DEF Folds
    <3>4. QED BY <1>5, <3>1, <3>2, <3>3
  <2>2. F[{}] = base BY <1>7 DEF Folds
  <2>3. QED BY <1>7, <2>1, <2>2
<1> HIDE DEF body, raw
<1>13. PICK G : G = CHOOSE H : H = body(H) OBVIOUS
<1>14. G = body(G) BY <1>12, <1>13
<1>15. (CHOOSE H : H = raw(H)) = G BY <1>11, <1>13
<1>16. PICK h : h = [k \in 0..n |-> G[1..k]] OBVIOUS
<1>17. h[0] = base
  <2>1. 1..0 = {} /\ {} \in SUBSET (1..n) /\ 0 \in 0..n OBVIOUS
  <2>2. G[{}] = base BY <1>14, <2>1 DEF body
  <2>3. QED BY <1>16, <2>1, <2>2
<1>18. ASSUME NEW k \in 1..n PROVE h[k] = After(p, w, entry, exit, h[k - 1], k)
  <2>1. 1..k \in SUBSET (1..n) /\ 1..k # {} /\ Latest(1..k) = k /\ 1..k \ {k} = 1..(k - 1) /\ k - 1 \in 0..n
    BY LastOfFirst
  <2>2. G[1..k] = After(p, w, entry, exit, G[1..(k - 1)], k) BY <1>14, <2>1 DEF body
  <2>3. k \in 0..n OBVIOUS
  <2>4. QED BY <1>16, <2>1, <2>2, <2>3
<1>19. \A k \in 0..n : h[k] \in Known
  <2> DEFINE good == {k \in 0..n : h[k] \in Known}
  <2>1. 0 \in good BY <1>3, <1>17
  <2>4. ASSUME NEW k \in 1..n, h[k - 1] \in Known PROVE h[k] \in Known
    <3>1. PICK s \in Known : s = h[k - 1] BY <2>4
    <3>2. After(p, w, entry, exit, s, k) \in Known BY <1>5
    <3>3. QED BY <1>18, <3>1, <3>2
  <2>2. \A k \in 1..n : k - 1 \in good => k \in good BY <2>4
  <2>3. \A k \in 0..n : k \in good
    <3> HIDE DEF good
    <3>1. QED BY <2>1, <2>2, Climbs
  <2>5. QED BY <2>3
<1>20. Watches(h, p, w, entry, exit, n) BY <1>2, <1>17, <1>18 DEF Watches
<1>21. Health!Recoveries(p, w, entry, exit) = h[n].orders
  <2>1. n \in 0..n OBVIOUS
  <2>2. h[n] = G[1..n] BY <1>16, <2>1
  <2>3. QED BY <1>8, <1>15, <2>2
<1>22. QED BY <1>19, <1>20, <1>21 DEF Observed

\* They look at no later price (_mean_reversion_events of the engine).
LEMMA RecoveriesCut ==
  ASSUME NEW p \in Seq(Nat), NEW n \in Nat, NEW q \in Seq(Nat), Cut(q, p, n),
         NEW w \in Nat \ {0}, NEW entry, NEW exit
  PROVE  /\ Typed(Health!Recoveries(p, w, entry, exit), p)
         /\ Cut(Health!Recoveries(q, w, entry, exit), Health!Recoveries(p, w, entry, exit), n)
<1>1. PICK m \in Nat : m = Len(p) OBVIOUS
<1>2. DOMAIN q = 1..n /\ n <= m /\ n = Len(q) BY <1>1 DEF Cut
<1>16. \E h : Observed(h, p, w, entry, exit, m) BY <1>1, RecoveriesRun
<1>17. \E g : Observed(g, q, w, entry, exit, n) BY <1>2, RecoveriesRun
<1>3. PICK h : /\ \A k \in 0..m : h[k] \in Known
               /\ Watches(h, p, w, entry, exit, m)
               /\ Health!Recoveries(p, w, entry, exit) = h[m].orders
  BY <1>16 DEF Observed
<1>4. PICK g : /\ \A k \in 0..n : g[k] \in Known
               /\ Watches(g, q, w, entry, exit, n)
               /\ Health!Recoveries(q, w, entry, exit) = g[n].orders
  BY <1>17 DEF Observed
<1>5. ASSUME NEW k \in 1..n, NEW s \in Known
      PROVE  After(q, w, entry, exit, s, k) = After(p, w, entry, exit, s, k)
  <2>1. k \in Nat /\ k <= n OBVIOUS
  <2>2. OrderOf(q, w, entry, exit, s.in, k) = OrderOf(p, w, entry, exit, s.in, k)
    <3>1. CASE k < w BY <3>1 DEF OrderOf
    <3>2. CASE w <= k
      <4>1. Health!Variance(q, w, k) = Health!Variance(p, w, k) /\ Health!Gap(q, w, k) = Health!Gap(p, w, k)
        BY <2>1, <3>2, CutWindow
      <4>2. Health!Far(q, w, k, entry) <=> Health!Far(p, w, k, entry) BY <4>1 DEF Health!Far
      <4>3. Health!Recovered(q, w, k, exit) <=> Health!Recovered(p, w, k, exit) BY <4>1 DEF Health!Recovered
      <4>4. QED BY <4>1, <4>2, <4>3 DEF OrderOf
    <3>3. QED BY <2>1, <3>1, <3>2
  <2>3. QED BY <2>2 DEF After
<1>6. \A k \in 0..n : g[k] = h[k]
  <2> DEFINE good == {k \in 0..n : g[k] = h[k]}
  <2>1. 0 \in good BY <1>3, <1>4 DEF Watches
  <2>2. ASSUME NEW k \in 1..n, g[k - 1] = h[k - 1] PROVE g[k] = h[k]
    <3>1. k \in 1..m /\ k - 1 \in 0..n BY <1>2
    <3>2. PICK s : s = g[k - 1] OBVIOUS
    <3>3. s \in Known BY <1>4, <3>1, <3>2
    <3>4. g[k] = After(q, w, entry, exit, s, k) BY <1>4, <3>2 DEF Watches
    <3>5. h[k] = After(p, w, entry, exit, s, k) BY <1>3, <2>2, <3>1, <3>2 DEF Watches
    <3>6. QED BY <1>5, <3>3, <3>4, <3>5
  <2>3. \A k \in 1..n : k - 1 \in good => k \in good BY <2>2
  <2>4. \A k \in 0..n : k \in good
    <3> HIDE DEF good
    <3>1. QED BY <2>1, <2>3, Climbs
  <2>5. QED BY <2>4
<1>7. PICK f : f = [k \in 0..m |-> h[k].orders] OBVIOUS
<1>8. Appends(f, Side, m)
  <2>1. f[0] = <<>>
    <3>1. 0 \in 0..m OBVIOUS
    <3>2. QED BY <1>3, <1>7, <3>1 DEF Watches, Begun
  <2>2. \A k \in 0..m : f[k] \in Seq(Side) BY <1>3, <1>7 DEF Known
  <2>3. ASSUME NEW k \in 1..m PROVE \E o \in Side : f[k] = Append(f[k - 1], o)
    <3>1. k \in 0..m /\ k - 1 \in 0..m OBVIOUS
    <3>2. PICK o : o = OrderOf(p, w, entry, exit, h[k - 1].in, k) OBVIOUS
    <3>3. o \in Side BY <3>2 DEF OrderOf, Side
    <3>4. h[k] = After(p, w, entry, exit, h[k - 1], k) BY <1>3 DEF Watches
    <3>5. h[k].orders = Append(h[k - 1].orders, o) BY <3>2, <3>4 DEF After
    <3>6. QED BY <1>7, <3>1, <3>3, <3>5
  <2>4. QED BY <2>1, <2>2, <2>3 DEF Appends
<1>9. Lengthened(f, m) BY <1>8, Lengthens
<1>10. n \in 0..m /\ m \in 0..m BY <1>2
<1>11. f[m] = Health!Recoveries(p, w, entry, exit) /\ f[n] = Health!Recoveries(q, w, entry, exit)
  <2>1. g[n] = h[n] BY <1>6
  <2>2. QED BY <1>3, <1>4, <1>7, <1>10, <2>1
<1>12. f[m] \in Seq(Side) /\ f[n] \in Seq(Side) BY <1>8, <1>10 DEF Appends
<1>13. Len(f[m]) = m /\ Len(f[n]) = n /\ \A j \in 1..n : f[n][j] = f[m][j]
  BY <1>2, <1>9, <1>10 DEF Lengthened
<1>14. DOMAIN f[n] = 1..n BY <1>12, <1>13
<1>15. QED BY <1>1, <1>2, <1>11, <1>12, <1>13, <1>14 DEF Typed, Cut

\* A day adds one value to the curve.
LEMMA DayCurve ==
  ASSUME NEW prices \in Seq(Nat), NEW orders, NEW k \in 1..Len(prices), NEW a \in Account,
         NEW fee, FeeFits(fee)
  PROVE  \E w \in Amount : Day(prices, orders, fee, a, k).curve = Append(a.curve, w)
<1>1. k \in Nat /\ prices[k] \in Nat OBVIOUS
<1>2. PICK price \in Nat : price = prices[k] BY <1>1
<1>3. PICK o : o = Health!Ordered(a, orders[k], k, price, fee) OBVIOUS
<1>4. o \in Account BY <1>1, <1>3, OrderedFits
<1>5. o.curve = a.curve BY <1>3 DEF Health!Ordered, Health!Bought, Health!Sold, Account
<1>6. PICK w : w = Health!Plus(o.cash, Health!Times(o.quantity, Health!Whole(price))) OBVIOUS
<1>7. w \in Amount /\ Health!Valued(o, price).curve = Append(o.curve, w) BY <1>4, <1>6, ValuedFits
<1>8. QED BY <1>2, <1>3, <1>5, <1>7 DEF Day

\* The curve of a day begins with those of the days before.
LEMMA CurvesGrow ==
  ASSUME NEW prices \in Seq(Nat), NEW orders, NEW capital \in Amount, NEW fee, FeeFits(fee),
         NEW n \in Nat, n = Len(prices), NEW h, Runs(h, prices, orders, capital, fee),
         \A k \in 0..n : h[k] \in Account,
         NEW f, f = [k \in 0..n |-> h[k].curve]
  PROVE  Lengthened(f, n) /\ \A k \in 0..n : f[k] \in Seq(Amount)
<1>1. f[0] = <<>>
  <2>1. 0 \in 0..n OBVIOUS
  <2>2. h[0].curve = <<>> BY DEF Runs, Health!Opened
  <2>3. QED BY <2>1, <2>2
<1>2. \A k \in 0..n : f[k] \in Seq(Amount) BY DEF Account
<1>3. ASSUME NEW k \in 1..n PROVE \E w \in Amount : f[k] = Append(f[k - 1], w)
  <2>1. k \in 0..n /\ k - 1 \in 0..n /\ k \in 1..Len(prices) OBVIOUS
  <2>2. PICK a \in Account : a = h[k - 1] BY <2>1
  <2>3. h[k] = Day(prices, orders, fee, a, k) BY <2>1, <2>2 DEF Runs
  <2>4. PICK w \in Amount : Day(prices, orders, fee, a, k).curve = Append(a.curve, w) BY <2>1, DayCurve
  <2>5. QED BY <2>1, <2>2, <2>3, <2>4
<1>4. Appends(f, Amount, n) BY <1>1, <1>2, <1>3 DEF Appends
<1>5. QED BY <1>2, <1>4, Lengthens

\* The account of a day, whether the history went on or not.
Accounted(h, prices, orders, capital, fee, n) ==
  /\ \A k \in 0..n : Ledger(h[k], k, capital, fee)
  /\ Runs(h, prices, orders, capital, fee)
  /\ Health!Simulate(prices, orders, capital, fee) = Health!Closed(h[n], prices, fee)

\* A simulation goes through the days and then sells what is held.
LEMMA AccountedRuns ==
  ASSUME NEW prices \in Seq(Nat), NEW orders, NEW capital \in Amount, NEW fee, FeeFits(fee),
         NEW n \in Nat, n = Len(prices)
  PROVE  \E h : Accounted(h, prices, orders, capital, fee, n)
<1>1. PICK h : /\ \A k \in 0..Len(prices) : Ledger(h[k], k, capital, fee)
               /\ Runs(h, prices, orders, capital, fee)
               /\ Health!Simulate(prices, orders, capital, fee) = Health!Closed(h[Len(prices)], prices, fee)
  BY SimulationFits
<1>2. Accounted(h, prices, orders, capital, fee, n) BY <1>1 DEF Accounted
<1>3. QED BY <1>2

\* The values up to the last day but one are those of the days.
CurveOf(c, h, n) ==
  c \in Seq(Amount) /\ Len(c) = n /\ \A j \in 1..(n - 1) : c[j] = h[j].curve[j]

\* The last curve has the values of all days, but for the last day's sale.
LEMMA CurveIs ==
  ASSUME NEW prices \in Seq(Nat), NEW orders, NEW capital \in Amount, NEW fee, FeeFits(fee),
         NEW n \in Nat, n = Len(prices), NEW h, Accounted(h, prices, orders, capital, fee, n)
  PROVE  CurveOf(Health!Simulate(prices, orders, capital, fee).curve, h, n)
<1>1. \A k \in 0..n : Ledger(h[k], k, capital, fee) /\ h[k] \in Account BY DEF Accounted, Ledger, Books
<1>2. PICK f : f = [k \in 0..n |-> h[k].curve] OBVIOUS
<1>3. Lengthened(f, n) BY <1>1, <1>2, CurvesGrow DEF Accounted
<1>4. n \in 0..n OBVIOUS
<1>5. PICK a : a = h[n] OBVIOUS
<1>6. PICK s : s = Health!Closed(a, prices, fee) OBVIOUS
<1>7. Ledger(a, Len(prices), capital, fee) BY <1>1, <1>4, <1>5
<1>12. EndsLike(s.curve, a.curve, prices) BY <1>6, <1>7, ClosedFits
<1>8. s.curve \in Seq(Amount) /\ Len(s.curve) = n /\ \A j \in 1..(n - 1) : s.curve[j] = a.curve[j]
  BY <1>12 DEF EndsLike
<1>9. ASSUME NEW j \in 1..(n - 1) PROVE s.curve[j] = h[j].curve[j]
  <2>1. j \in 0..n /\ j <= n /\ j \in 1..j OBVIOUS
  <2>2. f[j][j] = f[n][j] BY <1>3, <1>4, <2>1 DEF Lengthened
  <2>3. QED BY <1>2, <1>4, <1>5, <1>8, <2>1, <2>2
<1>10. Health!Simulate(prices, orders, capital, fee) = s BY <1>5, <1>6 DEF Accounted
<1>11. QED BY <1>8, <1>9, <1>10 DEF CurveOf

OrderedAs(e, o, n) == \A j \in 1..n : e[j] = o[j]
ValuedAs(t, s, n) == SubSeq(t.curve, 1, n - 1) = SubSeq(s.curve, 1, n - 1)

\* A history cut short has the values of the whole one but for its last day.
LEMMA CurvesCut ==
  ASSUME NEW p \in Seq(Nat), NEW n \in Nat, NEW q \in Seq(Nat), Cut(q, p, n),
         NEW o, NEW e, OrderedAs(e, o, n), NEW capital \in Amount, NEW fee, FeeFits(fee)
  PROVE  ValuedAs(Health!Simulate(q, e, capital, fee), Health!Simulate(p, o, capital, fee), n)
<1>1. PICK m \in Nat : m = Len(p) OBVIOUS
<1>2. DOMAIN q = 1..n /\ n <= m /\ n = Len(q) /\ \A j \in 1..n : q[j] = p[j] BY <1>1 DEF Cut
<1>3. PICK h : Accounted(h, p, o, capital, fee, m) BY <1>1, AccountedRuns
<1>4. PICK g : Accounted(g, q, e, capital, fee, n) BY <1>2, AccountedRuns
<1>5. \A k \in 0..n : g[k] = h[k]
  <2> DEFINE good == {k \in 0..n : g[k] = h[k]}
  <2>1. 0 \in good BY <1>3, <1>4 DEF Accounted, Runs
  <2>2. ASSUME NEW k \in 1..n, g[k - 1] = h[k - 1] PROVE g[k] = h[k]
    <3>1. k \in 1..Len(q) /\ k \in 1..Len(p) BY <1>1, <1>2
    <3>2. PICK a : a = g[k - 1] OBVIOUS
    <3>3. g[k] = Day(q, e, fee, a, k) BY <1>4, <3>1, <3>2 DEF Accounted, Runs
    <3>4. h[k] = Day(p, o, fee, a, k) BY <1>3, <2>2, <3>1, <3>2 DEF Accounted, Runs
    <3>5. Day(q, e, fee, a, k) = Day(p, o, fee, a, k) BY <1>2 DEF Day, OrderedAs
    <3>6. QED BY <3>3, <3>4, <3>5
  <2>3. \A k \in 1..n : k - 1 \in good => k \in good BY <2>2
  <2>4. \A k \in 0..n : k \in good
    <3> HIDE DEF good
    <3>1. QED BY <2>1, <2>3, Climbs
  <2>5. QED BY <2>4
<1>6. PICK c, d : c = Health!Simulate(q, e, capital, fee).curve
    /\ d = Health!Simulate(p, o, capital, fee).curve OBVIOUS
<1>12. CurveOf(c, g, n) BY <1>2, <1>4, <1>6, CurveIs
<1>13. CurveOf(d, h, m) BY <1>1, <1>3, <1>6, CurveIs
<1>7. c \in Seq(Amount) /\ Len(c) = n /\ \A j \in 1..(n - 1) : c[j] = g[j].curve[j]
  BY <1>12 DEF CurveOf
<1>8. d \in Seq(Amount) /\ Len(d) = m /\ \A j \in 1..(m - 1) : d[j] = h[j].curve[j]
  BY <1>13 DEF CurveOf
<1>9. \A j \in 1..(n - 1) : c[j] = d[j]
  <2>1. \A j \in 1..(n - 1) : j \in 0..n /\ j \in 1..(m - 1) BY <1>2
  <2>2. QED BY <1>5, <1>7, <1>8, <2>1
<1>10. SubSeq(c, 1, n - 1) = SubSeq(d, 1, n - 1)
  <2>1. CASE n = 0
    <3>1. SubSeq(c, 1, n - 1) = <<>> /\ SubSeq(d, 1, n - 1) = <<>> BY <1>7, <1>8, <2>1
    <3>2. QED BY <3>1
  <2>2. CASE n # 0
    <3>1. PICK l \in Nat : l = n - 1 BY <2>2
    <3>2. PICK x, y : x = SubSeq(c, 1, l) /\ y = SubSeq(d, 1, l) OBVIOUS
    <3>3. x \in Seq(Amount) /\ Len(x) = l /\ Cut(x, c, l)
      <4>1. c \in Seq(Amount) /\ l <= Len(c) BY <1>7, <3>1
      <4>2. QED BY <3>2, <4>1, CutIs
    <3>4. y \in Seq(Amount) /\ Len(y) = l /\ Cut(y, d, l)
      <4>1. d \in Seq(Amount) /\ l <= Len(d) BY <1>2, <1>8, <3>1
      <4>2. QED BY <3>2, <4>1, CutIs
    <3>5. \A j \in 1..l : x[j] = y[j] BY <1>9, <3>1, <3>3, <3>4 DEF Cut
    <3>6. x = y BY <3>3, <3>4, <3>5
    <3>7. QED BY <3>1, <3>2, <3>6
  <2>3. QED BY <2>1, <2>2
<1>11. QED BY <1>6, <1>10 DEF ValuedAs

-----------------------------------------------------------------------------
(* The drawdown                                                            *)

\* Quotients are those of the parts crosswise.
LEMMA OverIs ==
  ASSUME NEW a \in Health!Reduced, NEW b \in Health!Reduced, b.num # 0, NEW p, NEW q,
         ScaledBy(a.num, b.den, p), ScaledBy(b.num, a.den, q)
  PROVE  Health!Over(a, b) = Health!Frac(p, q)
<1>1. a.num \in Int /\ b.num \in Int \ {0} /\ a.den \in Int \ {0} /\ b.den \in Int \ {0} BY PartsOf
<1>2. Health!Times(Health!Frac(a.num, b.num), Health!Frac(b.den, a.den)) = Health!Frac(p, q)
  BY <1>1, TimesFrac
<1>3. QED BY <1>2 DEF Health!Over

\* What is lost from one value to another.
Loss(p, e) == Health!Over(Health!Minus(p, e), p)

\* A loss from a peak, as one fraction.
LEMMA LossIs ==
  ASSUME NEW p \in Amount, p.num > 0, NEW e \in Amount,
         NEW k \in Nat \ {0}, NEW w \in Nat, ScaledBy(p.num, e.den, k), ScaledBy(e.num, p.den, w)
  PROVE  Loss(p, e) = Health!Frac(k - w, k)
<1>1. PICK x, u, v \in Nat \ {0}, y \in Nat : x = p.num /\ u = p.den /\ y = e.num /\ v = e.den
  BY PartsOf DEF Amount
<1>2. k = x * v /\ w = y * u BY <1>1 DEF ScaledBy
<1>3. PICK s \in Int \ {0} : s = u * v
  <2>1. u * v \in Int \ {0} BY NotZero
  <2>2. QED BY <2>1
<1>4. PICK m : m = Health!Minus(p, e) OBVIOUS
<1>5. m = Health!Frac(k - w, s) /\ m \in Health!Reduced
  <2>1. m = Health!Frac(k - w, s) BY <1>1, <1>2, <1>3, <1>4 DEF Health!Minus
  <2>2. QED BY <1>3, <2>1, FracReduced
<1>6. PICK a \in Int, b \in Nat \ {0} : a = m.num /\ b = m.den BY <1>5, PartsOf
<1>7. a * s = (k - w) * b BY <1>3, <1>5, <1>6, FracIs
<1>8. PICK f \in Int, g \in Int \ {0} : f = a * u /\ g = x * b
  <2>1. x * b \in Int \ {0} BY NotZero
  <2>2. QED BY <2>1
<1>9. Health!Over(m, p) = Health!Frac(f, g)
  <2>1. ScaledBy(m.num, p.den, f) /\ ScaledBy(p.num, m.den, g) BY <1>1, <1>6, <1>8 DEF ScaledBy
  <2>2. p \in Health!Reduced BY DEF Amount
  <2>3. p.num # 0 BY <1>1
  <2>4. QED BY <1>5, <2>1, <2>2, <2>3, OverIs
<1>10. f * k = (k - w) * g
  <2>1. (a * u) * (x * v) = x * (a * (u * v)) OBVIOUS
  <2>2. f * k = x * (a * s) BY <1>2, <1>3, <1>8, <2>1
  <2>3. PICK c \in Int : c = k - w OBVIOUS
  <2>4. x * (c * b) = c * (x * b) OBVIOUS
  <2>5. QED BY <1>7, <1>8, <2>2, <2>3, <2>4
<1>11. Health!Frac(f, g) = Health!Frac(k - w, k) BY <1>8, <1>10, FracSame
<1>12. QED BY <1>4, <1>9, <1>11 DEF Loss

\* A loss is of all at most, and greater from a higher peak.
LEMMA LossFits ==
  ASSUME NEW p \in Amount, p.num > 0, NEW e \in Amount
  PROVE  /\ Loss(p, e) \in Health!Reduced /\ Health!Below(Loss(p, e), Health!Whole(1))
         /\ \A q \in Amount : Health!Below(p, q) => q.num > 0 /\ Health!Below(Loss(p, e), Loss(q, e))
<1>1. PICK x, u, v \in Nat \ {0}, y \in Nat : x = p.num /\ u = p.den /\ y = e.num /\ v = e.den
  BY PartsOf DEF Amount
<1>2. PICK k \in Nat \ {0}, w \in Nat : k = x * v /\ w = y * u
  <2>1. x * v \in Int \ {0} /\ x * v \in Nat /\ y * u \in Nat BY NotZero
  <2>2. QED BY <2>1
<1>3. ScaledBy(p.num, e.den, k) /\ ScaledBy(e.num, p.den, w) BY <1>1, <1>2 DEF ScaledBy
<1>4. Loss(p, e) = Health!Frac(k - w, k) BY <1>3, LossIs
<1>5. k - w \in Int OBVIOUS
<1>6. Loss(p, e) \in Health!Reduced BY <1>4, <1>5, FracReduced
<1>7. Health!Below(Health!Frac(k - w, k), Health!Frac(1, 1))
  <2>1. Health!Below(Health!Frac(k - w, k), Health!Frac(1, 1)) <=> (k - w) * 1 <= 1 * k BY <1>5, BelowFrac
  <2>2. QED BY <2>1
<1>8. ASSUME NEW q \in Amount, Health!Below(p, q) PROVE q.num > 0 /\ Health!Below(Loss(p, e), Loss(q, e))
  <2>1. p \in Health!Reduced /\ q \in Health!Reduced /\ Health!Whole(0) \in Health!Reduced
    BY WholeIs DEF Amount
  <2>2. q.num > 0
    <3>1. Health!Above(p, Health!Whole(0)) BY <2>1, SignBelow
    <3>2. ~Health!Below(q, Health!Whole(0)) BY <1>8, <2>1, <3>1, BelowLaws DEF Health!Above
    <3>3. QED BY <2>1, <3>2, SignBelow DEF Health!Above
  <2>3. PICK n, z \in Nat \ {0} : n = q.num /\ z = q.den BY <2>1, <2>2, PartsOf
  <2>4. PICK l \in Nat \ {0}, r \in Nat : l = n * v /\ r = y * z
    <3>1. n * v \in Int \ {0} /\ n * v \in Nat /\ y * z \in Nat BY NotZero
    <3>2. QED BY <3>1
  <2>5. ScaledBy(q.num, e.den, l) /\ ScaledBy(e.num, q.den, r) BY <1>1, <2>3, <2>4 DEF ScaledBy
  <2>6. Loss(q, e) = Health!Frac(l - r, l) BY <2>2, <2>5, LossIs
  <2>7. PICK g, h \in Int : g = x * z /\ h = n * u
    <3>1. x * z \in Int /\ n * u \in Int OBVIOUS
    <3>2. QED BY <3>1
  <2>8. g <= h BY <1>1, <1>8, <2>3, <2>7 DEF Health!Below
  <2>9. PICK t \in Nat : t = y * v
    <3>1. y * v \in Nat OBVIOUS
    <3>2. QED BY <3>1
  <2>10. g * t <= h * t BY <2>7, <2>8, <2>9, ProductOrder
  <2>11. r * k = g * t
    <3>1. (y * z) * (x * v) = (x * z) * (y * v) OBVIOUS
    <3>2. QED BY <1>2, <2>4, <2>7, <2>9, <3>1
  <2>12. w * l = h * t
    <3>1. (y * u) * (n * v) = (n * u) * (y * v) OBVIOUS
    <3>2. QED BY <1>2, <2>4, <2>7, <2>9, <3>1
  <2>13. (k - w) * l <= (l - r) * k
    <3>1. (k - w) * l = k * l - w * l /\ (l - r) * k = k * l - r * k OBVIOUS
    <3>2. k * l \in Int /\ w * l \in Int /\ r * k \in Int OBVIOUS
    <3>3. QED BY <2>10, <2>11, <2>12, <3>1, <3>2
  <2>14. l - r \in Int OBVIOUS
  <2>15. Health!Below(Health!Frac(k - w, k), Health!Frac(l - r, l)) BY <1>5, <2>13, <2>14, BelowFrac
  <2>16. QED BY <1>4, <2>2, <2>6, <2>15
<1>9. QED BY <1>4, <1>6, <1>7, <1>8 DEF Health!Whole

\* A value of the curve and what was seen before.
Higher(m, e) == IF Health!Below(m, e) THEN e ELSE m

Track(s, e) ==
  [peak  |-> Higher(s.peak, e),
   worst |-> IF Higher(s.peak, e).num > 0 THEN Higher(s.worst, Loss(Higher(s.peak, e), e)) ELSE s.worst]

Marks == [peak: Amount, worst: Health!Reduced]

Tracks(h, c, n) ==
  /\ h[0] = [peak |-> c[1], worst |-> Health!Whole(0)]
  /\ \A k \in 1..n : h[k] = Track(h[k - 1], c[k])

\* Going through the curve the peak and the worst loss only rise, and the worst is no
\* less than the loss of the day.
LEMMA TrackFits ==
  ASSUME NEW s \in Marks, NEW e \in Amount
  PROVE  /\ Track(s, e) \in Marks /\ Higher(s.peak, e) \in Amount
         /\ Health!Below(s.peak, Higher(s.peak, e)) /\ Health!Below(e, Higher(s.peak, e))
         /\ Health!Below(s.worst, Track(s, e).worst)
         /\ Higher(s.peak, e).num > 0 => Health!Below(Loss(Higher(s.peak, e), e), Track(s, e).worst)
<1>1. s.peak \in Amount /\ s.worst \in Health!Reduced /\ s.peak \in Health!Reduced /\ e \in Health!Reduced
  BY DEF Marks, Amount
<1>2. PICK p : p = Higher(s.peak, e) OBVIOUS
<1>3. p \in Amount /\ Health!Below(s.peak, p) /\ Health!Below(e, p) BY <1>1, <1>2, BelowLaws DEF Higher
<1>4. PICK w : w = Track(s, e).worst OBVIOUS
<1>5. w = IF p.num > 0 THEN Higher(s.worst, Loss(p, e)) ELSE s.worst BY <1>2, <1>4 DEF Track
<1>6. w \in Health!Reduced /\ Health!Below(s.worst, w) /\ (p.num > 0 => Health!Below(Loss(p, e), w))
  <2>1. CASE p.num > 0
    <3>1. PICK l : l = Loss(p, e) OBVIOUS
    <3>2. l \in Health!Reduced BY <1>3, <2>1, <3>1, LossFits
    <3>3. w = Higher(s.worst, l) BY <1>5, <2>1, <3>1
    <3>4. QED BY <1>1, <3>1, <3>2, <3>3, BelowLaws DEF Higher
  <2>2. CASE ~(p.num > 0)
    <3>1. w = s.worst BY <1>5, <2>2
    <3>2. QED BY <1>1, <2>2, <3>1, BelowLaws
  <2>3. QED BY <2>1, <2>2
<1>7. Track(s, e) = [peak |-> p, worst |-> w] BY <1>2, <1>5 DEF Track
<1>8. QED BY <1>2, <1>3, <1>4, <1>6, <1>7 DEF Marks

Tracked(h, c, n) ==
  /\ \A k \in 0..n : h[k] \in Marks
  /\ Tracks(h, c, n)
  /\ Health!Drawdown(c) = h[n].worst

\* The drawdown goes through the curve day by day.
LEMMA DrawdownRuns ==
  ASSUME NEW c \in Seq(Amount), NEW n \in Nat \ {0}, n = Len(c)
  PROVE  \E h : Tracked(h, c, n)
<1>1. DOMAIN c = 1..n /\ \A i \in 1..n : c[i] \in Amount OBVIOUS
<1>2. PICK base : base = [peak |-> c[1], worst |-> Health!Whole(0)] OBVIOUS
<1>3. base \in Marks
  <2>1. c[1] \in Amount BY <1>1
  <2>2. QED BY <1>2, <2>1, WholeIs DEF Marks
<1>4. PICK step : step = [q \in Marks \X (1..n) |-> Track(q[1], c[q[2]])] OBVIOUS
<1>5. ASSUME NEW s \in Marks, NEW i \in 1..n
      PROVE  step[<<s, i>>] = Track(s, c[i]) /\ Track(s, c[i]) \in Marks
  <2>1. <<s, i>> \in Marks \X (1..n) /\ <<s, i>>[1] = s /\ <<s, i>>[2] = i OBVIOUS
  <2>2. step[<<s, i>>] = Track(s, c[i]) BY <1>4, <2>1
  <2>3. QED BY <1>1, <2>2, TrackFits
<1>6. HasFold(Marks, base, step, n) BY <1>3, <1>5, FoldRuns
<1>7. PICK F \in [SUBSET (1..n) -> Marks] : Folds(F, base, step, n) BY <1>6 DEF HasFold
<1> DEFINE body(G) == [s \in SUBSET (1..n) |->
                         IF s = {} THEN base ELSE Track(G[s \ {Latest(s)}], c[Latest(s)])]
           raw(G) == [s \in SUBSET (1..n) |->
                        IF s = {} THEN base ELSE Track(G[s \ {Latest(s)}], c[Latest(s)])]
<1>8. Health!Drawdown(c) = (CHOOSE G : G = raw(G))[1..n].worst
  BY <1>1, <1>2 DEF Health!Drawdown, Health!Through, Health!MapThenFoldSet, Latest, Track, Higher, Loss
<1>10. \A s \in SUBSET (1..n) : s # {} => Latest(s) \in 1..n BY LastIn
<1>11. ASSUME NEW G PROVE raw(G) = body(G) BY <1>1
<1>12. F = body(F)
  <2>1. ASSUME NEW s \in SUBSET (1..n), s # {}
        PROVE  F[s] = Track(F[s \ {Latest(s)}], c[Latest(s)])
    <3>1. Latest(s) \in 1..n /\ s \ {Latest(s)} \in SUBSET (1..n) BY <1>10, <2>1
    <3>2. F[s \ {Latest(s)}] \in Marks BY <1>7, <3>1
    <3>3. F[s] = step[<<F[s \ {Latest(s)}], Latest(s)>>] BY <1>7, <2>1 DEF Folds
    <3>4. QED BY <1>5, <3>1, <3>2, <3>3
  <2>2. F[{}] = base BY <1>7 DEF Folds
  <2>3. QED BY <1>7, <2>1, <2>2
<1> HIDE DEF body, raw
<1>13. PICK G : G = CHOOSE H : H = body(H) OBVIOUS
<1>14. G = body(G) BY <1>12, <1>13
<1>15. (CHOOSE H : H = raw(H)) = G BY <1>11, <1>13
<1>16. PICK h : h = [k \in 0..n |-> G[1..k]] OBVIOUS
<1>17. h[0] = base
  <2>1. 1..0 = {} /\ {} \in SUBSET (1..n) /\ 0 \in 0..n OBVIOUS
  <2>2. G[{}] = base BY <1>14, <2>1 DEF body
  <2>3. QED BY <1>16, <2>1, <2>2
<1>18. ASSUME NEW k \in 1..n PROVE h[k] = Track(h[k - 1], c[k])
  <2>1. 1..k \in SUBSET (1..n) /\ 1..k # {} /\ Latest(1..k) = k /\ 1..k \ {k} = 1..(k - 1) /\ k - 1 \in 0..n
    BY LastOfFirst
  <2>2. G[1..k] = Track(G[1..(k - 1)], c[k]) BY <1>14, <2>1 DEF body
  <2>3. k \in 0..n OBVIOUS
  <2>4. QED BY <1>16, <2>1, <2>2, <2>3
<1>19. \A k \in 0..n : h[k] \in Marks
  <2> DEFINE good == {k \in 0..n : h[k] \in Marks}
  <2>1. 0 \in good BY <1>3, <1>17
  <2>4. ASSUME NEW k \in 1..n, h[k - 1] \in Marks PROVE h[k] \in Marks
    <3>1. PICK s \in Marks : s = h[k - 1] BY <2>4
    <3>2. Track(s, c[k]) \in Marks BY <1>5
    <3>3. QED BY <1>18, <3>1, <3>2
  <2>2. \A k \in 1..n : k - 1 \in good => k \in good BY <2>4
  <2>3. \A k \in 0..n : k \in good
    <3> HIDE DEF good
    <3>1. QED BY <2>1, <2>2, Climbs
  <2>5. QED BY <2>3
<1>20. Tracks(h, c, n) BY <1>2, <1>17, <1>18 DEF Tracks
<1>21. Health!Drawdown(c) = h[n].worst
  <2>1. n \in 0..n OBVIOUS
  <2>2. h[n] = G[1..n] BY <1>16, <2>1
  <2>3. QED BY <1>1, <1>8, <1>15, <2>2
<1>22. QED BY <1>19, <1>20, <1>21 DEF Tracked

\* After k values, the peak is the highest of them and the loss the worst.
Seen(s, c, k) ==
  /\ \E i \in DOMAIN c : s.peak = c[i] /\ (i <= k \/ i = 1)
  /\ \A i \in 1..k : Health!Below(c[i], s.peak)
  /\ s.worst = Health!Whole(0) \/ s.worst \in Health!Losses(c)
  /\ \A j \in 1..k : \A i \in 1..j : c[i].num > 0 => Health!Below(Loss(c[i], c[j]), s.worst)
  /\ Health!Below(s.worst, Health!Whole(1))

\* What is tracked after a day covers every pair of a peak and a later value so far.
LEMMA SeenOn ==
  ASSUME NEW c \in Seq(Amount), NEW k \in 1..Len(c), NEW s \in Marks, Seen(s, c, k - 1)
  PROVE  Seen(Track(s, c[k]), c, k)
<1>1. PICK n \in Nat : n = Len(c) /\ DOMAIN c = 1..n /\ k \in 1..n /\ \A i \in 1..n : c[i] \in Amount OBVIOUS
<1>2. PICK e \in Amount : e = c[k] BY <1>1
<1>3. PICK t : t = Track(s, e) OBVIOUS
<1>4. PICK p : p = Higher(s.peak, e) OBVIOUS
<1>5. /\ t \in Marks /\ p \in Amount /\ t.peak = p /\ Health!Below(s.peak, p) /\ Health!Below(e, p)
      /\ Health!Below(s.worst, t.worst) /\ (p.num > 0 => Health!Below(Loss(p, e), t.worst))
  <2>1. t.peak = p BY <1>3, <1>4 DEF Track
  <2>2. QED BY <1>3, <1>4, <2>1, TrackFits
<1>6. /\ s.peak \in Health!Reduced /\ s.worst \in Health!Reduced /\ t.worst \in Health!Reduced
         /\ p \in Health!Reduced
      /\ \A i \in 1..n : c[i] \in Health!Reduced
  BY <1>1, <1>5 DEF Marks, Amount
<1>7. PICK a \in 1..n : s.peak = c[a] /\ (a <= k - 1 \/ a = 1) BY <1>1 DEF Seen
<1>8. PICK b \in 1..n : p = c[b] /\ b <= k
  <2>1. p = e \/ p = s.peak BY <1>4 DEF Higher
  <2>2. CASE p = e BY <1>1, <1>2, <2>2
  <2>3. CASE p = s.peak
    <3>1. a <= k BY <1>7
    <3>2. QED BY <1>7, <2>3, <3>1
  <2>4. QED BY <2>1, <2>2, <2>3
<1>9. ASSUME NEW i \in 1..k PROVE Health!Below(c[i], p)
  <2>1. CASE i = k BY <1>2, <1>5, <2>1
  <2>2. CASE i # k
    <3>1. i \in 1..(k - 1) /\ i \in 1..n BY <1>1, <2>2
    <3>2. Health!Below(c[i], s.peak) BY <3>1 DEF Seen
    <3>3. c[i] \in Health!Reduced BY <1>6, <3>1
    <3>4. QED BY <1>5, <1>6, <3>2, <3>3, BelowLaws
  <2>3. QED BY <2>1, <2>2
<1>10. t.worst = s.worst \/ (p.num > 0 /\ t.worst = Loss(p, e)) BY <1>3, <1>4 DEF Track, Higher
<1>11. t.worst = Health!Whole(0) \/ t.worst \in Health!Losses(c)
  <2>1. CASE t.worst = s.worst BY <2>1 DEF Seen
  <2>2. CASE p.num > 0 /\ t.worst = Loss(p, e)
    <3>1. PICK d : d = <<b, k>> OBVIOUS
    <3>2. d \in (DOMAIN c) \X (DOMAIN c) /\ d[1] = b /\ d[2] = k BY <1>1, <3>1
    <3>3. d[1] <= d[2] /\ c[d[1]].num > 0 BY <1>8, <2>2, <3>2
    <3>4. t.worst = Health!Over(Health!Minus(c[d[1]], c[d[2]]), c[d[1]]) BY <1>2, <1>8, <2>2, <3>2 DEF Loss
    <3>5. QED BY <3>2, <3>3, <3>4 DEF Health!Losses
  <2>3. QED BY <1>10, <2>1, <2>2
<1>12. ASSUME NEW j \in 1..k, NEW i \in 1..j, c[i].num > 0 PROVE Health!Below(Loss(c[i], c[j]), t.worst)
  <2>1. i \in 1..n /\ j \in 1..n /\ i \in 1..k BY <1>1
  <2>2. PICK x, y \in Amount : x = c[i] /\ y = c[j] BY <1>1, <2>1
  <2>3. PICK l : l = Loss(x, y) OBVIOUS
  <2>4. l \in Health!Reduced BY <1>12, <2>2, <2>3, LossFits
  <2>5. CASE j # k
    <3>1. j \in 1..(k - 1) BY <2>5
    <3>2. Health!Below(l, s.worst) BY <1>12, <2>2, <2>3, <3>1 DEF Seen
    <3>3. QED BY <1>5, <1>6, <2>2, <2>3, <2>4, <3>2, BelowLaws
  <2>6. CASE j = k
    <3>1. y = e /\ Health!Below(x, p) BY <1>2, <1>9, <2>1, <2>2, <2>6
    <3>2. p.num > 0 /\ Health!Below(l, Loss(p, e)) BY <1>5, <1>12, <2>2, <2>3, <3>1, LossFits
    <3>3. Loss(p, e) \in Health!Reduced BY <1>5, <3>2, LossFits
    <3>4. QED BY <1>5, <1>6, <2>2, <2>3, <2>4, <3>2, <3>3, BelowLaws
  <2>7. QED BY <2>5, <2>6
<1>13. Health!Below(t.worst, Health!Whole(1))
  <2>1. CASE t.worst = s.worst BY <2>1 DEF Seen
  <2>2. CASE p.num > 0 /\ t.worst = Loss(p, e) BY <1>5, <2>2, LossFits
  <2>3. QED BY <1>10, <2>1, <2>2
<1>14. Seen(t, c, k) BY <1>1, <1>5, <1>8, <1>9, <1>11, <1>12, <1>13 DEF Seen
<1>15. QED BY <1>2, <1>3, <1>14

\* The drawdown of a curve of amounts is the worst of its losses.
LEMMA DrawdownIs ==
  ASSUME NEW c \in Seq(Amount)
  PROVE  Health!DrawdownFits(c)
<1>1. SUFFICES ASSUME c # <<>> PROVE Health!DrawdownFits(c) BY DEF Health!DrawdownFits
<1>2. PICK n \in Nat \ {0} : n = Len(c) /\ DOMAIN c = 1..n /\ \A i \in 1..n : c[i] \in Amount BY <1>1
<1>3. \E h : Tracked(h, c, n) BY <1>2, DrawdownRuns
<1>4. PICK h : (\A k \in 0..n : h[k] \in Marks) /\ Tracks(h, c, n) /\ Health!Drawdown(c) = h[n].worst
  BY <1>3 DEF Tracked
<1> DEFINE good == {k \in 0..n : Seen(h[k], c, k)}
<1>5. 0 \in good
  <2>1. 1 \in DOMAIN c BY <1>2
  <2>2. h[0].peak = c[1] /\ h[0].worst = Health!Whole(0) BY <1>4 DEF Tracks
  <2>3. Health!Below(Health!Whole(0), Health!Whole(1))
    <3>1. Health!Whole(1) \in Health!Reduced /\ Health!Whole(1).num > 0 BY WholeIs
    <3>2. Health!Whole(1).num \in Int BY <3>1, PartsOf
    <3>3. QED BY <3>1, <3>2, SignBelow
  <2>4. Seen(h[0], c, 0) BY <2>1, <2>2, <2>3 DEF Seen
  <2>5. QED BY <2>4
<1>6. ASSUME NEW k \in 1..n, Seen(h[k - 1], c, k - 1) PROVE Seen(h[k], c, k)
  <2>1. k \in 1..Len(c) /\ k - 1 \in 0..n BY <1>2
  <2>2. PICK s \in Marks : s = h[k - 1] BY <1>4, <2>1
  <2>3. h[k] = Track(s, c[k]) BY <1>4, <2>2 DEF Tracks
  <2>4. QED BY <1>6, <2>1, <2>2, <2>3, SeenOn
<1>7. \A k \in 1..n : k - 1 \in good => k \in good BY <1>6
<1>8. \A k \in 0..n : k \in good
  <2> HIDE DEF good
  <2>1. QED BY <1>5, <1>7, Climbs
<1>9. Seen(h[n], c, n)
  <2>1. n \in 0..n OBVIOUS
  <2>2. QED BY <1>8, <2>1
<1>10. ASSUME NEW l \in Health!Losses(c) PROVE Health!Below(l, Health!Drawdown(c))
  <2>1. PICK d \in (DOMAIN c) \X (DOMAIN c) :
          d[1] <= d[2] /\ c[d[1]].num > 0 /\ l = Health!Over(Health!Minus(c[d[1]], c[d[2]]), c[d[1]])
    BY DEF Health!Losses
  <2>2. PICK i, j \in 1..n : i = d[1] /\ j = d[2] BY <1>2, <2>1
  <2>3. j \in 1..n /\ i \in 1..j /\ c[i].num > 0 /\ l = Loss(c[i], c[j]) BY <2>1, <2>2 DEF Loss
  <2>4. QED BY <1>4, <1>9, <2>3 DEF Seen
<1>11. QED BY <1>4, <1>9, <1>10 DEF Health!DrawdownFits, Seen

-----------------------------------------------------------------------------
(* Both engines on every body                                              *)

\* A whole part is a whole number.
LEMMA TruncIs ==
  ASSUME NEW a \in Health!Reduced
  PROVE  Health!Trunc(a) \in Int
<1>1. PICK n \in Int, d \in Nat \ {0} : n = a.num /\ d = a.den BY PartsOf
<1>2. PICK q \in Int : q = Health!Abs(n) \div d
  <2>1. Health!Abs(n) \in Int BY DEF Health!Abs
  <2>2. Health!Abs(n) \div d \in Int BY <2>1
  <2>3. QED BY <2>2
<1>3. Health!Sign(n) = 1 \/ Health!Sign(n) = -1 BY DEF Health!Sign
<1>4. Health!Sign(n) * q \in Int BY <1>3
<1>5. QED BY <1>1, <1>2, <1>4 DEF Health!Trunc

\* A parameter of the body or its default is a reduced fraction.
LEMMA GivenIs ==
  ASSUME NEW p, \A name \in DOMAIN p : p[name] \in Health!Reduced, NEW name, NEW default \in Health!Reduced
  PROVE  Health!Given(p, name, default) \in Health!Reduced
BY DEF Health!Given

\* Whichever the engine and the template, no order depends on a later price.
LEMMA OrdersCut ==
  ASSUME Health!HealthParameters, config \in Health!Body, config.template \in Health!Supported,
         Health!Valid(config.template, config.parameters),
         NEW engine \in {"health", "backtest"},
         NEW p \in Seq(Nat), NEW n \in Nat, NEW q \in Seq(Nat), Cut(q, p, n)
  PROVE  Typed(Health!OrdersOf(engine, p), p) /\ Cut(Health!OrdersOf(engine, q), Health!OrdersOf(engine, p), n)
<1>1. PICK a : a = config.parameters OBVIOUS
<1>2. \A name \in DOMAIN a : a[name] \in Health!Reduced BY <1>1 DEF Health!HealthParameters, Health!Body
<1>3. \A m \in Nat : Health!Whole(m) \in Health!Reduced BY WholeIs
<1>4. CASE config.template = "moving_average"
  <2>1. PICK short, long : /\ short = Health!Trunc(Health!Given(a, "shortWindow", Health!Whole(5)))
                           /\ long = Health!Trunc(Health!Given(a, "longWindow", Health!Whole(20)))
    OBVIOUS
  <2>2. short \in Int /\ long \in Int BY <1>2, <1>3, <2>1, GivenIs, TruncIs
  <2>3. short > 0 /\ short < long BY <1>1, <1>4, <2>1 DEF Health!Valid
  <2>4. short \in Nat \ {0} /\ long \in Nat BY <2>2, <2>3
  <2>5. /\ Health!OrdersOf(engine, p) = Health!Crossings(p, short, long)
        /\ Health!OrdersOf(engine, q) = Health!Crossings(q, short, long)
    BY <1>1, <1>4, <2>1 DEF Health!OrdersOf, Health!BacktestOrders, Health!Orders
  <2>6. QED BY <2>3, <2>4, <2>5, CrossingsCut
<1>5. CASE config.template = "mean_reversion"
  <2>1. PICK w, entry, exit : /\ w = Health!Trunc(Health!Given(a, "window", Health!Whole(20)))
                              /\ entry = Health!Given(a, "entryZ", Health!Frac(3, 2))
                              /\ exit = Health!Given(a, "exitZ", Health!Frac(1, 2))
    OBVIOUS
  <2>2. w \in Int BY <1>2, <1>3, <2>1, GivenIs, TruncIs
  <2>3. w > 0 BY <1>1, <1>5, <2>1 DEF Health!Valid
  <2>4. w \in Nat \ {0} BY <2>2, <2>3
  <2>5. CASE engine = "health"
    <3>1. /\ Health!OrdersOf(engine, p) = Health!Recoveries(p, w, entry, exit)
          /\ Health!OrdersOf(engine, q) = Health!Recoveries(q, w, entry, exit)
      BY <1>1, <1>5, <2>1, <2>5 DEF Health!OrdersOf, Health!Orders
    <3>2. QED BY <2>4, <3>1, RecoveriesCut
  <2>6. CASE engine = "backtest"
    <3>1. /\ Health!OrdersOf(engine, p) = Health!Reversions(p, w, entry)
          /\ Health!OrdersOf(engine, q) = Health!Reversions(q, w, entry)
      BY <1>1, <1>5, <2>1, <2>6 DEF Health!OrdersOf, Health!BacktestOrders
    <3>2. QED BY <2>4, <3>1, ReversionsCut
  <2>7. QED BY <2>5, <2>6
<1>6. QED BY <1>4, <1>5 DEF Health!Supported

\* What both engines do for a body they accept, whatever it holds.
LEMMA EngineSound ==
  ASSUME Health!HealthParameters, config \in Health!Body
  PROVE  Health!EngineFits
<1>1. SUFFICES ASSUME config.template \in Health!Supported, Health!Valid(config.template, config.parameters),
                      NEW engine \in {"health", "backtest"}
               PROVE  Health!Fits(engine, Health!SimulationOf(engine, config.prices))
  BY DEF Health!EngineFits
<1>2. PICK p \in Seq(Nat) : p = config.prices BY DEF Health!HealthParameters, Health!Body
<1>3. PICK fee : fee = config.fee OBVIOUS
<1>4. FeeFits(fee) BY <1>3 DEF Health!HealthParameters, Health!Body, FeeFits
<1>5. Health!Capital \in Amount BY PriceIs DEF Health!Capital
<1>6. PICK m \in Nat : m = Len(p) OBVIOUS
<1>7. PICK o : o = Health!OrdersOf(engine, p) OBVIOUS
<1>8. PICK s : s = Health!Simulate(p, o, Health!Capital, fee) OBVIOUS
<1>9. Health!SimulationOf(engine, p) = [orders |-> o, account |-> s]
  BY <1>3, <1>7, <1>8 DEF Health!SimulationOf, Health!Simulated
<1>10. Health!Accounts(s)
  <2>1. \E h : Accounted(h, p, o, Health!Capital, fee, m) BY <1>4, <1>5, <1>6, AccountedRuns
  <2>2. PICK h : /\ \A k \in 0..m : Ledger(h[k], k, Health!Capital, fee)
                 /\ s = Health!Closed(h[m], p, fee)
    BY <1>8, <2>1 DEF Accounted
  <2>3. PICK a : a = h[m] OBVIOUS
  <2>4. Ledger(a, Len(p), Health!Capital, fee) BY <1>6, <2>2, <2>3
  <2>5. /\ Health!RoundTrips(Health!Closed(a, p, fee), Health!Capital, fee)
           /\ Health!WinsAreGains(Health!Closed(a, p, fee), fee)
        /\ EndsLike(Health!Closed(a, p, fee).curve, a.curve, p)
    BY <1>4, <1>5, <2>4, ClosedFits
  <2>6. s.curve \in Seq(Amount) BY <2>2, <2>3, <2>5 DEF EndsLike
  <2>7. Health!DrawdownFits(s.curve) BY <2>6, DrawdownIs
  <2>8. QED BY <1>3, <2>2, <2>3, <2>5, <2>7 DEF Health!Accounts
<1>11. ASSUME NEW n \in 1..(m - 1)
       PROVE  Health!SameUntil(n, Health!SimulationOf(engine, SubSeq(p, 1, n)), [orders |-> o, account |-> s])
  <2>1. n \in Nat /\ n <= Len(p) BY <1>6
  <2>2. PICK q : q = SubSeq(p, 1, n) OBVIOUS
  <2>3. q \in Seq(Nat) /\ Len(q) = n /\ Cut(q, p, n) BY <2>1, <2>2, CutIs
  <2>4. PICK e : e = Health!OrdersOf(engine, q) OBVIOUS
  <2>5. Typed(o, p) /\ Cut(e, o, n) BY <1>1, <1>7, <2>1, <2>3, <2>4, OrdersCut
  <2>6. Typed(e, q)
    <3>1. Cut(q, q, n) BY <2>3 DEF Cut
    <3>2. QED BY <1>1, <2>1, <2>3, <2>4, <3>1, OrdersCut
  <2>7. e = SubSeq(o, 1, n)
    <3>1. o \in Seq(Side) /\ e \in Seq(Side) /\ n <= Len(o) BY <2>1, <2>5, <2>6 DEF Typed
    <3>2. QED BY <2>1, <2>5, <3>1, CutSame
  <2>8. OrderedAs(e, o, n) BY <2>5 DEF Cut, OrderedAs
  <2>9. PICK t : t = Health!Simulate(q, e, Health!Capital, fee) OBVIOUS
  <2>10. ValuedAs(t, s, n)
    BY <1>4, <1>5, <1>8, <2>1, <2>3, <2>8, <2>9, CurvesCut
  <2>11. Health!SimulationOf(engine, q) = [orders |-> e, account |-> t]
    BY <1>3, <2>4, <2>9 DEF Health!SimulationOf, Health!Simulated
  <2>12. QED BY <2>2, <2>7, <2>10, <2>11 DEF Health!SameUntil, ValuedAs
<1>12. Health!Days = m BY <1>2, <1>6 DEF Health!Days
<1>13. Health!NoLookahead(engine, Health!SimulationOf(engine, p))
  BY <1>2, <1>9, <1>11, <1>12 DEF Health!NoLookahead
<1>14. QED BY <1>2, <1>9, <1>10, <1>13 DEF Health!Fits

-----------------------------------------------------------------------------
(* Whole parts and shares                                                  *)

\* Addition commutes and associates.
LEMMA PlusLaws ==
  ASSUME NEW a \in Health!Reduced, NEW b \in Health!Reduced, NEW c \in Health!Reduced
  PROVE  /\ Health!Plus(a, b) = Health!Plus(b, a)
         /\ Health!Plus(Health!Plus(a, b), c) = Health!Plus(a, Health!Plus(b, c))
<1>1. PICK x, y, z \in Int, u, v, w \in Nat \ {0} :
        x = a.num /\ u = a.den /\ y = b.num /\ v = b.den /\ z = c.num /\ w = c.den
  BY PartsOf
<1>2. a = Health!Frac(x, u) /\ b = Health!Frac(y, v) /\ c = Health!Frac(z, w) BY <1>1, PartsOf
<1>3. Health!Plus(a, b) = Health!Plus(b, a)
  <2>1. x * v + y * u = y * u + x * v /\ u * v = v * u OBVIOUS
  <2>2. QED BY <1>1, <2>1 DEF Health!Plus
<1>4. PICK q, r \in Int \ {0} : q = u * v /\ r = v * w
  <2>1. u * v \in Int \ {0} /\ v * w \in Int \ {0} BY NotZero
  <2>2. QED BY <2>1
<1>5. PICK s \in Int \ {0} : s = q * w /\ s = u * r
  <2>1. q * w \in Int \ {0} BY <1>4, NotZero
  <2>2. (u * v) * w = u * (v * w) OBVIOUS
  <2>3. QED BY <1>4, <2>1, <2>2
<1>6. PICK i, j \in Int : i = x * v + y * u /\ j = y * w + z * v BY <1>1
<1>7. Health!Plus(a, b) = Health!Frac(i, q) /\ Health!Plus(b, c) = Health!Frac(j, r)
  BY <1>1, <1>4, <1>6 DEF Health!Plus
<1>8. Health!Plus(Health!Frac(i, q), Health!Frac(z, w)) = Health!Frac(i * w + z * q, s)
  <2>1. ScaledBy(q, w, s) BY <1>5 DEF ScaledBy
  <2>2. QED BY <1>4, <1>6, <2>1, SumsFrac
<1>9. Health!Plus(Health!Frac(x, u), Health!Frac(j, r)) = Health!Frac(x * r + j * u, s)
  <2>1. ScaledBy(u, r, s) BY <1>5 DEF ScaledBy
  <2>2. QED BY <1>4, <1>6, <2>1, SumsFrac
<1>10. i * w + z * q = x * r + j * u
  <2>1. (x * v + y * u) * w + z * (u * v) = x * (v * w) + (y * w + z * v) * u OBVIOUS
  <2>2. QED BY <1>4, <1>6, <2>1
<1>11. QED BY <1>2, <1>3, <1>7, <1>8, <1>9, <1>10

\* What two sums have in common does not decide how they compare.
LEMMA PlusAbove ==
  ASSUME NEW a \in Health!Reduced, NEW c \in Health!Reduced, NEW d \in Health!Reduced,
      Health!Below(Health!Plus(a, c), Health!Plus(a, d))
  PROVE  Health!Below(c, d)
<1>1. PICK x, y, z \in Int, u, v, w \in Nat \ {0} :
        x = a.num /\ u = a.den /\ y = c.num /\ v = c.den /\ z = d.num /\ w = d.den
  BY PartsOf
<1>2. PICK p, q \in Nat \ {0} : p = u * v /\ q = u * w
  <2>1. u * v \in Int \ {0} /\ u * w \in Int \ {0} /\ u * v \in Nat /\ u * w \in Nat BY NotZero
  <2>2. QED BY <2>1
<1>3. PICK i, j \in Int : i = x * v + y * u /\ j = x * w + z * u BY <1>1
<1>4. Health!Plus(a, c) = Health!Frac(i, p) /\ Health!Plus(a, d) = Health!Frac(j, q)
  BY <1>1, <1>2, <1>3 DEF Health!Plus
<1>5. i * q <= j * p BY <1>2, <1>3, <1>4, BelowFrac
<1>6. PICK g, h \in Int, k \in Nat \ {0} : g = y * w /\ h = z * v /\ k = u * u
  <2>1. u * u \in Int \ {0} /\ u * u \in Nat /\ y * w \in Int /\ z * v \in Int BY NotZero
  <2>2. QED BY <2>1
<1>7. PICK t \in Int : t = (x * v) * (u * w)
  <2>1. (x * v) * (u * w) \in Int OBVIOUS
  <2>2. QED BY <2>1
<1>8. i * q = t + g * k
  <2>1. (x * v + y * u) * (u * w) = (x * v) * (u * w) + (y * w) * (u * u) OBVIOUS
  <2>2. QED BY <1>2, <1>3, <1>6, <1>7, <2>1
<1>9. j * p = t + h * k
  <2>1. (x * w + z * u) * (u * v) = (x * v) * (u * w) + (z * v) * (u * u) OBVIOUS
  <2>2. QED BY <1>2, <1>3, <1>6, <1>7, <2>1
<1>10. g * k <= h * k
  <2>1. g * k \in Int /\ h * k \in Int BY <1>6
  <2>2. QED BY <1>5, <1>7, <1>8, <1>9, <2>1
<1>11. g <= h BY <1>6, <1>10, ProductOrder
<1>12. QED BY <1>1, <1>6, <1>11 DEF Health!Below

\* The whole part of an amount is the greatest number that is not more.
LEMMA FloorIs ==
  ASSUME NEW a \in Amount
  PROVE  /\ Health!Trunc(a) \in Nat
         /\ \A n \in Nat : n <= Health!Trunc(a) <=> Health!Below(Health!Whole(n), a)
<1>1. PICK x \in Nat, u \in Nat \ {0} : x = a.num /\ u = a.den BY PartsOf DEF Amount
<1>2. a = Health!Frac(x, u) BY <1>1, PartsOf DEF Amount
<1>3. PICK q \in Nat : q = x \div u BY QuotientFits
<1>4. Health!Trunc(a) = q
  <2>1. Health!Sign(x) = 1 /\ Health!Abs(x) = x BY DEF Health!Sign, Health!Abs
  <2>2. QED BY <1>1, <1>3, <2>1 DEF Health!Trunc
<1>5. PICK r \in Nat : x = q * u + r /\ r < u
  <2>1. x % u \in Nat /\ x % u < u /\ x = q * u + (x % u) BY <1>3, RemainderIs
  <2>2. QED BY <2>1
<1>6. ASSUME NEW n \in Nat PROVE n <= q <=> n * u <= x
  <2>1. q * u \in Int /\ n * u \in Int OBVIOUS
  <2>2. n <= q => n * u <= q * u BY ProductOrder
  <2>3. ASSUME ~(n <= q) PROVE ~(n * u <= x)
    <3>1. q + 1 \in Int /\ q + 1 <= n BY <2>3
    <3>2. (q + 1) * u <= n * u BY <3>1, ProductOrder
    <3>3. (q + 1) * u = q * u + u OBVIOUS
    <3>4. QED BY <1>5, <2>1, <3>2, <3>3
  <2>4. QED BY <1>5, <2>1, <2>2, <2>3
<1>7. ASSUME NEW n \in Nat PROVE Health!Below(Health!Whole(n), a) <=> n * u <= x
  <2>1. Health!Below(Health!Frac(n, 1), Health!Frac(x, u)) <=> n * u <= x * 1 BY BelowFrac
  <2>2. QED BY <1>2, <2>1 DEF Health!Whole
<1>8. QED BY <1>4, <1>6, <1>7

\* The whole part of a fraction is its integer quotient.
LEMMA TruncFrac ==
  ASSUME NEW x \in Nat, NEW d \in Nat \ {0}
  PROVE  Health!Trunc(Health!Frac(x, d)) = x \div d
<1>1. PICK a : a = Health!Frac(x, d) OBVIOUS
<1>2. a \in Amount BY <1>1, PriceIs
<1>3. PICK q, r \in Nat : q = x \div d /\ x = q * d + r /\ r < d
  <2>1. x \div d \in Nat /\ x % d \in Nat /\ x % d < d /\ x = (x \div d) * d + (x % d)
    BY QuotientFits, RemainderIs
  <2>2. QED BY <2>1
<1>4. \A n \in Nat : Health!Below(Health!Whole(n), a) <=> n * d <= x
  <2>1. ASSUME NEW n \in Nat PROVE Health!Below(Health!Frac(n, 1), Health!Frac(x, d)) <=> n * d <= x * 1
    BY BelowFrac
  <2>2. QED BY <1>1, <2>1 DEF Health!Whole
<1>5. q <= Health!Trunc(a)
  <2>1. q * d <= x BY <1>3
  <2>2. QED BY <1>2, <1>4, <2>1, FloorIs
<1>6. ~(q + 1 <= Health!Trunc(a))
  <2>1. q + 1 \in Nat OBVIOUS
  <2>2. (q + 1) * d = q * d + d OBVIOUS
  <2>3. ~((q + 1) * d <= x) BY <1>3, <2>2
  <2>4. QED BY <1>2, <1>4, <2>1, <2>3, FloorIs
<1>7. Health!Trunc(a) \in Nat BY <1>2, FloorIs
<1>8. QED BY <1>1, <1>3, <1>5, <1>6, <1>7

\* The size of a fraction is the fraction without its sign.
LEMMA SizeIs ==
  ASSUME NEW a \in Health!Reduced
  PROVE  /\ Health!Size(a) \in Amount /\ Health!Size(a).den = a.den
         /\ Health!Size(a).num = IF a.num < 0 THEN -a.num ELSE a.num
<1>1. PICK n \in Int, d \in Nat \ {0} : n = a.num /\ d = a.den BY PartsOf
<1>2. a = Health!Frac(n, d) /\ a \in Health!Fraction BY <1>1, PartsOf
<1>3. PICK m, k \in Nat : m = Health!Abs(n) /\ k = Health!Abs(d) /\ k # 0 /\ k = d BY DEF Health!Abs
<1>4. PICK g : g = Health!Gcd[<<m, k>>] OBVIOUS
<1>5. g \in Nat \ {0} BY <1>3, <1>4, GcdDivides DEF GcdFits
<1>6. d = d \div g
  <2>1. Health!Frac(n, d).den = k \div g BY <1>3, <1>4 DEF Health!Frac
  <2>2. QED BY <1>1, <1>2, <1>3, <2>1
<1>7. g = 1
  <2>1. PICK r \in Nat : d = d * g + r
    <3>1. d % g \in Nat /\ d = (d \div g) * g + (d % g) BY <1>5, RemainderIs
    <3>2. QED BY <1>6, <3>1
  <2>2. g >= 2 => d * g >= d * 2
    <3>1. 2 <= g => 2 * d <= g * d BY <1>5, ProductOrder
    <3>2. 2 * d = d * 2 /\ g * d = d * g BY <1>5
    <3>3. QED BY <1>5, <3>1, <3>2
  <2>3. QED BY <1>5, <2>1, <2>2
<1>8. PICK s : s = Health!Size(a) OBVIOUS
<1>9. s = [num |-> m, den |-> d] BY <1>1, <1>2, <1>3, <1>8 DEF Health!Size, Health!Fraction
<1>10. Health!Frac(m, d) = s
  <2>1. Health!Abs(m) = m /\ Health!Sign(d) = 1 BY DEF Health!Abs, Health!Sign
  <2>2. Health!Frac(m, d) = [num |-> (m \div g) * 1, den |-> k \div g] BY <1>3, <1>4, <2>1 DEF Health!Frac
  <2>3. m \div 1 = m /\ k \div 1 = k OBVIOUS
  <2>4. QED BY <1>3, <1>7, <1>9, <2>2, <2>3
<1>11. s \in Amount
  <2>1. s.num = m /\ s.den = d BY <1>9
  <2>2. Health!Frac(m, d) \in Health!Reduced BY FracReduced
  <2>3. QED BY <1>10, <2>1, <2>2 DEF Amount
<1>12. s.num = (IF n < 0 THEN -n ELSE n) BY <1>3, <1>9 DEF Health!Abs
<1>13. QED BY <1>1, <1>8, <1>9, <1>11, <1>12

-----------------------------------------------------------------------------
(* Bodies with room for every variation                                    *)

\* The whole part of a loss is not positive, as int cuts towards 0.
LEMMA TruncNegative ==
  ASSUME NEW a \in Health!Reduced, a.num < 0
  PROVE  Health!Trunc(a) \in Int /\ Health!Trunc(a) <= 0
<1>1. PICK n \in Int, d \in Nat \ {0} : n = a.num /\ d = a.den BY PartsOf
<1>2. PICK m \in Nat : m = -n BY <1>1
<1>3. Health!Abs(n) = m /\ Health!Sign(n) = -1 BY <1>1, <1>2 DEF Health!Abs, Health!Sign
<1>4. PICK q \in Nat : q = m \div d BY QuotientFits
<1>5. Health!Trunc(a) = -1 * q BY <1>1, <1>3, <1>4 DEF Health!Trunc
<1>6. QED BY <1>5

Factors == {50, 80, 90, 110, 120, 150}

Shifted(a, k) == Health!Times(a, Health!Frac(k, 100))

\* A window of whole days, moved, has the days that are left of it.
LEMMA WindowMoved ==
  ASSUME NEW a \in Health!Reduced, a.den = 1, NEW k \in Factors, NEW m \in Nat \ {0}
  PROVE  m <= Health!Trunc(Shifted(a, k)) <=> m * 100 <= a.num * k
<1>1. PICK n \in Int : n = a.num BY PartsOf
<1>2. a = Health!Frac(n, 1) /\ k \in Nat \ {0} BY <1>1, PartsOf DEF Factors
<1>3. PICK p \in Int : p = n * k BY <1>2
<1>4. Shifted(a, k) = Health!Frac(p, 100)
  <2>1. ScaledBy(n, k, p) /\ ScaledBy(1, 100, 100) BY <1>3 DEF ScaledBy
  <2>2. QED BY <1>2, <2>1, TimesFrac DEF Shifted
<1>5. CASE n >= 0
  <2>1. p \in Nat
    <3>1. n \in Nat /\ n * k \in Nat BY <1>2, <1>5
    <3>2. QED BY <1>3, <3>1
  <2>2. Health!Frac(p, 100) \in Amount BY <2>1, PriceIs
  <2>3. m <= Health!Trunc(Health!Frac(p, 100)) <=> Health!Below(Health!Whole(m), Health!Frac(p, 100))
    BY <2>2, FloorIs
  <2>4. Health!Below(Health!Frac(m, 1), Health!Frac(p, 100)) <=> m * 100 <= p * 1 BY BelowFrac
  <2>5. QED BY <1>1, <1>3, <1>4, <2>3, <2>4 DEF Health!Whole
<1>6. CASE n < 0
  <2>1. p < 0
    <3>1. n * k <= -k BY <1>2, <1>6, ProductGrows
    <3>2. QED BY <1>2, <1>3, <3>1
  <2>2. Health!Frac(p, 100) \in Health!Reduced /\ Health!Frac(p, 100).num < 0 BY <2>1, FracReduced, SignOf
  <2>3. Health!Trunc(Health!Frac(p, 100)) \in Int /\ Health!Trunc(Health!Frac(p, 100)) <= 0
    BY <2>2, TruncNegative
  <2>4. QED BY <1>1, <1>3, <1>4, <2>1, <2>3
<1>7. QED BY <1>1, <1>5, <1>6

\* A window of whole days is its whole part.
LEMMA WindowIs ==
  ASSUME NEW a \in Health!Reduced, a.den = 1
  PROVE  a.num \in Int /\ Health!Trunc(a) = a.num
<1>1. PICK n \in Int : n = a.num BY PartsOf
<1>2. CASE n < 0
  <2>1. PICK m \in Nat : m = -n BY <1>2
  <2>2. Health!Abs(n) = m /\ Health!Sign(n) = -1 /\ m \div 1 = m BY <1>2, <2>1 DEF Health!Abs, Health!Sign
  <2>3. QED BY <1>1, <2>1, <2>2 DEF Health!Trunc
<1>3. CASE n >= 0
  <2>1. Health!Abs(n) = n /\ Health!Sign(n) = 1 /\ n \div 1 = n BY <1>3 DEF Health!Abs, Health!Sign
  <2>2. QED BY <1>1, <2>1 DEF Health!Trunc
<1>4. QED BY <1>2, <1>3

\* How two thresholds compare, moved or not, by two numbers.
Compared(e, x, u, y) ==
  /\ x.num >= 0 <=> y >= 0
  /\ Health!Below(e, x) <=> u <= y
  /\ Health!Below(e, Health!Times(Health!Whole(2), x)) <=> u <= 2 * y
  /\ \A k \in Factors :
       /\ Shifted(x, k).num >= 0 <=> y >= 0
       /\ Health!Below(Shifted(e, k), x) <=> k * u <= 100 * y
       /\ Health!Below(e, Shifted(x, k)) <=> 100 * u <= k * y

\* Two thresholds compare as whole numbers, with either of them moved.
LEMMA ThresholdsMoved ==
  ASSUME NEW e \in Health!Reduced, NEW x \in Health!Reduced
  PROVE  \E u, y \in Int : Compared(e, x, u, y)
<1>1. PICK a, b \in Int, c, d \in Nat \ {0} : a = e.num /\ c = e.den /\ b = x.num /\ d = x.den BY PartsOf
<1>2. e = Health!Frac(a, c) /\ x = Health!Frac(b, d) BY <1>1, PartsOf
<1>3. PICK u, y \in Int : u = a * d /\ y = b * c
  <2>1. a * d \in Int /\ b * c \in Int OBVIOUS
  <2>2. QED BY <2>1
<1>4. b >= 0 <=> y >= 0
  <2>1. b >= 1 => b * c >= c BY ProductGrows
  <2>2. b < 0 => b * c <= -c BY ProductGrows
  <2>3. b = 0 => b * c = 0 BY ProductGrows
  <2>4. QED BY <1>3, <2>1, <2>2, <2>3
<1>5. Health!Below(e, x) <=> u <= y BY <1>1, <1>3 DEF Health!Below
<1>6. Health!Below(e, Health!Times(Health!Whole(2), x)) <=> u <= 2 * y
  <2>1. PICK p \in Int : p = 2 * b OBVIOUS
  <2>2. ScaledBy(2, b, p) /\ ScaledBy(1, d, d) BY <2>1 DEF ScaledBy
  <2>3. Health!Times(Health!Whole(2), x) = Health!Frac(p, d) BY <1>2, <2>2, TimesFrac DEF Health!Whole
  <2>4. Health!Below(Health!Frac(a, c), Health!Frac(p, d)) <=> a * d <= p * c BY BelowFrac
  <2>5. p * c = 2 * (b * c) BY <2>1
  <2>6. QED BY <1>2, <1>3, <2>3, <2>4, <2>5
<1>7. ASSUME NEW k \in Factors
      PROVE  /\ Shifted(x, k).num >= 0 <=> y >= 0
             /\ Health!Below(Shifted(e, k), x) <=> k * u <= 100 * y
             /\ Health!Below(e, Shifted(x, k)) <=> 100 * u <= k * y
  <2>1. k \in Nat \ {0} BY DEF Factors
  <2>2. PICK p, q \in Int : p = a * k /\ q = b * k
    <3>1. a * k \in Int /\ b * k \in Int BY <2>1
    <3>2. QED BY <3>1
  <2>3. PICK f, g \in Nat \ {0} : f = c * 100 /\ g = d * 100 OBVIOUS
  <2>4. Shifted(e, k) = Health!Frac(p, f)
    <3>1. ScaledBy(a, k, p) /\ ScaledBy(c, 100, f) BY <2>2, <2>3 DEF ScaledBy
    <3>2. QED BY <1>2, <2>1, <3>1, TimesFrac DEF Shifted
  <2>5. Shifted(x, k) = Health!Frac(q, g)
    <3>1. ScaledBy(b, k, q) /\ ScaledBy(d, 100, g) BY <2>2, <2>3 DEF ScaledBy
    <3>2. QED BY <1>2, <2>1, <3>1, TimesFrac DEF Shifted
  <2>6. Shifted(x, k).num >= 0 <=> y >= 0
    <3>1. b >= 1 => b * k >= k BY <2>1, ProductGrows
    <3>2. b < 0 => b * k <= -k BY <2>1, ProductGrows
    <3>3. b = 0 => b * k = 0 BY <2>1, ProductGrows
    <3>4. q >= 0 <=> b >= 0 BY <2>1, <2>2, <3>1, <3>2, <3>3
    <3>5. Health!Frac(q, g).num \in Int /\ (Health!Frac(q, g).num < 0 <=> q < 0) BY SignOf
    <3>6. QED BY <1>4, <2>5, <3>4, <3>5
  <2>7. Health!Below(Shifted(e, k), x) <=> k * u <= 100 * y
    <3>1. Health!Below(Health!Frac(p, f), Health!Frac(b, d)) <=> p * d <= b * f BY BelowFrac
    <3>2. (a * k) * d = k * (a * d) /\ b * (c * 100) = 100 * (b * c) BY <2>1
    <3>3. QED BY <1>2, <1>3, <2>2, <2>3, <2>4, <3>1, <3>2
  <2>8. Health!Below(e, Shifted(x, k)) <=> 100 * u <= k * y
    <3>1. Health!Below(Health!Frac(a, c), Health!Frac(q, g)) <=> a * g <= q * c BY BelowFrac
    <3>2. (b * k) * c = k * (b * c) /\ a * (d * 100) = 100 * (a * d) BY <2>1
    <3>3. QED BY <1>2, <1>3, <2>2, <2>3, <2>5, <3>1, <3>2
  <2>9. QED BY <2>6, <2>7, <2>8
<1>8. Compared(e, x, u, y) BY <1>1, <1>4, <1>5, <1>6, <1>7 DEF Compared
<1>9. QED BY <1>8

Shift(p, name, k) == [p EXCEPT ![name] = Shifted(p[name], k)]

\* A variation is a parameter shifted by one of the factors.
LEMMA PerturbedIs ==
  ASSUME NEW p, NEW name \in DOMAIN p
  PROVE  \A q : q \in Health!Perturbed(p, name) <=> \E k \in Factors : q = Shift(p, name, k)
<1>1. \A n \in Health!Perturbations : 100 + n \in Factors BY DEF Health!Perturbations, Factors
<1>2. \A k \in Factors : k - 100 \in Health!Perturbations /\ 100 + (k - 100) = k
  BY DEF Health!Perturbations, Factors
<1>3. ASSUME NEW n \in Health!Perturbations
      PROVE  [p EXCEPT ![name] = Health!Times(@, Health!Frac(100 + n, 100))] = Shift(p, name, 100 + n)
  BY DEF Shift, Shifted
<1>4. ASSUME NEW q, q \in Health!Perturbed(p, name) PROVE \E k \in Factors : q = Shift(p, name, k)
  <2>1. PICK n \in Health!Perturbations : q = [p EXCEPT ![name] = Health!Times(@, Health!Frac(100 + n, 100))]
    BY <1>4 DEF Health!Perturbed
  <2>2. QED BY <1>1, <1>3, <2>1
<1>5. ASSUME NEW q, NEW k \in Factors, q = Shift(p, name, k) PROVE q \in Health!Perturbed(p, name)
  <2>1. PICK n \in Health!Perturbations : n = k - 100 /\ 100 + n = k BY <1>2
  <2>2. q = [p EXCEPT ![name] = Health!Times(@, Health!Frac(100 + n, 100))] BY <1>3, <1>5, <2>1
  <2>3. QED BY <2>2 DEF Health!Perturbed
<1>6. QED BY <1>4, <1>5

\* A variation changes the parameter it is of and no other.
LEMMA ShiftIs ==
  ASSUME NEW p, NEW name \in DOMAIN p, NEW k
  PROVE  /\ DOMAIN Shift(p, name, k) = DOMAIN p
         /\ Shift(p, name, k)[name] = Shifted(p[name], k)
         /\ \A x \in DOMAIN p : x # name => Shift(p, name, k)[x] = p[x]
BY DEF Shift

\* One variation that is refused refuses all.
LEMMA AnalysableIs ==
  ASSUME NEW p
  PROVE  Health!Analysable(p) <=> /\ Health!Valid(config.template, p)
                                  /\ \A name \in DOMAIN p : \A k \in Factors : Health!Valid(config.template,
                                      Shift(p, name, k))
BY PerturbedIs DEF Health!Analysable

CrossingValid(s, l) == Health!Trunc(s) > 0 /\ Health!Trunc(s) < Health!Trunc(l)
RevertingValid(w, e, x) == Health!Trunc(w) > 0 /\ x.num >= 0 /\ Health!Above(e, x)

\* Windows can be varied exactly if they leave room for it
\* (analyze_parameter_sensitivity, run_simulation).
LEMMA CrossingRoom ==
  ASSUME NEW p, \A name \in DOMAIN p : p[name] \in Health!Reduced,
         config.template = "moving_average", Health!Named(p)
  PROVE  Health!Analysable(p) <=> Health!Room(p)
<1>1. /\ {"shortWindow", "longWindow"} \subseteq DOMAIN p
      /\ p["shortWindow"].den = 1 /\ p["longWindow"].den = 1
  BY DEF Health!Named
<1>2. PICK s, l \in Health!Reduced : s = p["shortWindow"] /\ l = p["longWindow"] /\ s.den = 1 /\ l.den = 1
  BY <1>1
<1>3. PICK m, n \in Int : m = s.num /\ n = l.num /\ Health!Trunc(s) = m /\ Health!Trunc(l) = n
  BY <1>2, WindowIs
<1>4. \A q : {"shortWindow", "longWindow"} \subseteq DOMAIN q =>
        (Health!Valid(config.template, q) <=> CrossingValid(q["shortWindow"], q["longWindow"]))
  BY DEF Health!Valid, Health!Given, CrossingValid
<1>5. Health!Valid(config.template, p) <=> m > 0 /\ m < n BY <1>1, <1>2, <1>3, <1>4 DEF CrossingValid
<1>6. ASSUME NEW k \in Factors, m > 0, m < n
      PROVE  /\ Health!Valid(config.template, Shift(p, "shortWindow", k)) <=>
                100 <= m * k /\ ~(n * 100 <= m * k)
             /\ Health!Valid(config.template, Shift(p, "longWindow", k)) <=> (m + 1) * 100 <= n * k
  <2>1. PICK u, v \in Health!Reduced : u = Shifted(s, k) /\ v = Shifted(l, k)
    <3>1. Health!Frac(k, 100) \in Health!Reduced BY FracReduced DEF Factors
    <3>2. QED BY <3>1, ResultsReduced DEF Shifted
  <2>2. Health!Valid(config.template, Shift(p, "shortWindow", k)) <=> CrossingValid(u, l)
    BY <1>1, <1>2, <1>4, <2>1, ShiftIs
  <2>3. Health!Valid(config.template, Shift(p, "longWindow", k)) <=> CrossingValid(s, v)
    BY <1>1, <1>2, <1>4, <2>1, ShiftIs
  <2>4. Health!Trunc(u) \in Int /\ Health!Trunc(v) \in Int BY <2>1, TruncIs
  <2>5. m \in Nat \ {0} /\ n \in Nat \ {0} /\ m + 1 \in Nat \ {0} BY <1>6
  <2>6. \A i \in Nat \ {0} : i <= Health!Trunc(u) <=> i * 100 <= m * k BY <1>2, <1>3, <2>1, WindowMoved
  <2>7. \A i \in Nat \ {0} : i <= Health!Trunc(v) <=> i * 100 <= n * k BY <1>2, <1>3, <2>1, WindowMoved
  <2>8. /\ 1 <= Health!Trunc(u) <=> 100 <= m * k
        /\ n <= Health!Trunc(u) <=> n * 100 <= m * k
        /\ m + 1 <= Health!Trunc(v) <=> (m + 1) * 100 <= n * k
    BY <2>5, <2>6, <2>7
  <2>9. CrossingValid(u, l) <=> 1 <= Health!Trunc(u) /\ ~(n <= Health!Trunc(u))
    BY <1>3, <2>4 DEF CrossingValid
  <2>10. CrossingValid(s, v) <=> m + 1 <= Health!Trunc(v) BY <1>3, <1>6, <2>4 DEF CrossingValid
  <2>11. QED BY <2>2, <2>3, <2>8, <2>9, <2>10
<1>7. ASSUME NEW name \in DOMAIN p, name \notin {"shortWindow", "longWindow"}, NEW k \in Factors
      PROVE  Health!Valid(config.template, Shift(p, name, k)) <=> Health!Valid(config.template, p)
  BY <1>1, <1>4, <1>7, ShiftIs
<1>8. Health!Room(p) <=> m >= 2 /\ n >= 2 * m + 2 BY <1>1, <1>2, <1>3 DEF Health!Room, Health!Given
<1>9. ASSUME Health!Analysable(p) PROVE Health!Room(p)
  <2>1. m > 0 /\ m < n BY <1>5, <1>9, AnalysableIs
  <2>2. 50 \in Factors BY DEF Factors
  <2>3. Health!Valid(config.template, Shift(p, "shortWindow", 50))
      /\ Health!Valid(config.template, Shift(p, "longWindow", 50))
    BY <1>1, <1>9, <2>2, AnalysableIs
  <2>4. 100 <= m * 50 /\ (m + 1) * 100 <= n * 50 BY <1>6, <2>1, <2>2, <2>3
  <2>5. QED BY <1>8, <2>4
<1>10. ASSUME Health!Room(p) PROVE Health!Analysable(p)
  <2>1. m >= 2 /\ n >= 2 * m + 2 BY <1>8, <1>10
  <2>2. m > 0 /\ m < n BY <2>1
  <2>3. ASSUME NEW k \in Factors PROVE 100 <= m * k /\ ~(n * 100 <= m * k) /\ (m + 1) * 100 <= n * k
    BY <2>1 DEF Factors
  <2>4. ASSUME NEW name \in DOMAIN p, NEW k \in Factors PROVE Health!Valid(config.template, Shift(p, name, k))
    BY <1>5, <1>6, <1>7, <2>2, <2>3
  <2>5. QED BY <1>5, <2>2, <2>4, AnalysableIs
<1>11. QED BY <1>9, <1>10

\* Thresholds can be varied exactly if they leave room for it
\* (analyze_parameter_sensitivity, run_simulation).
LEMMA RevertingRoom ==
  ASSUME NEW p, \A name \in DOMAIN p : p[name] \in Health!Reduced,
         config.template # "moving_average", Health!Named(p)
  PROVE  Health!Analysable(p) <=> Health!Room(p)
<1>1. {"window", "entryZ", "exitZ"} \subseteq DOMAIN p /\ p["window"].den = 1 BY DEF Health!Named
<1>2. PICK w, e, x \in Health!Reduced : w = p["window"] /\ e = p["entryZ"] /\ x = p["exitZ"] /\ w.den = 1
  BY <1>1
<1>3. PICK m \in Int : m = w.num /\ Health!Trunc(w) = m BY <1>2, WindowIs
<1>4. PICK u, y \in Int : Compared(e, x, u, y) BY ThresholdsMoved
<1>5. \A q : {"window", "entryZ", "exitZ"} \subseteq DOMAIN q =>
        (Health!Valid(config.template, q) <=> RevertingValid(q["window"], q["entryZ"], q["exitZ"]))
  BY DEF Health!Valid, Health!Given, RevertingValid
<1>6. Health!Valid(config.template, p) <=> m > 0 /\ y >= 0 /\ ~(u <= y)
  <2>1. x.num >= 0 <=> y >= 0 BY <1>4 DEF Compared
  <2>2. Health!Above(e, x) <=> ~(u <= y) BY <1>4 DEF Compared, Health!Above
  <2>3. QED BY <1>1, <1>2, <1>3, <1>5, <2>1, <2>2 DEF RevertingValid
<1>7. ASSUME NEW k \in Factors, m > 0, y >= 0, ~(u <= y)
      PROVE  /\ Health!Valid(config.template, Shift(p, "window", k)) <=> 100 <= m * k
             /\ Health!Valid(config.template, Shift(p, "entryZ", k)) <=> ~(k * u <= 100 * y)
             /\ Health!Valid(config.template, Shift(p, "exitZ", k)) <=> ~(100 * u <= k * y)
  <2>1. PICK wk, ek, xk \in Health!Reduced : wk = Shifted(w, k) /\ ek = Shifted(e, k) /\ xk = Shifted(x, k)
    <3>1. Health!Frac(k, 100) \in Health!Reduced BY FracReduced DEF Factors
    <3>2. QED BY <3>1, ResultsReduced DEF Shifted
  <2>2. Health!Valid(config.template, Shift(p, "window", k)) <=> RevertingValid(wk, e, x)
    BY <1>1, <1>2, <1>5, <2>1, ShiftIs
  <2>3. Health!Valid(config.template, Shift(p, "entryZ", k)) <=> RevertingValid(w, ek, x)
    BY <1>1, <1>2, <1>5, <2>1, ShiftIs
  <2>4. Health!Valid(config.template, Shift(p, "exitZ", k)) <=> RevertingValid(w, e, xk)
    BY <1>1, <1>2, <1>5, <2>1, ShiftIs
  <2>5. x.num >= 0 /\ Health!Above(e, x) BY <1>4, <1>7 DEF Compared, Health!Above
  <2>6. 1 <= Health!Trunc(wk) <=> 1 * 100 <= m * k BY <1>2, <1>3, <2>1, WindowMoved
  <2>7. Health!Trunc(wk) \in Int BY <2>1, TruncIs
  <2>8. Health!Above(ek, x) <=> ~(k * u <= 100 * y) BY <1>4, <2>1 DEF Compared, Health!Above
  <2>9. xk.num >= 0 /\ (Health!Above(e, xk) <=> ~(100 * u <= k * y))
    BY <1>4, <1>7, <2>1 DEF Compared, Health!Above
  <2>10. RevertingValid(wk, e, x) <=> 100 <= m * k BY <2>5, <2>6, <2>7 DEF RevertingValid
  <2>11. RevertingValid(w, ek, x) <=> ~(k * u <= 100 * y) BY <1>3, <1>7, <2>5, <2>8 DEF RevertingValid
  <2>12. RevertingValid(w, e, xk) <=> ~(100 * u <= k * y) BY <1>3, <1>7, <2>9 DEF RevertingValid
  <2>13. QED BY <2>2, <2>3, <2>4, <2>10, <2>11, <2>12
<1>8. ASSUME NEW name \in DOMAIN p, name \notin {"window", "entryZ", "exitZ"}, NEW k \in Factors
      PROVE  Health!Valid(config.template, Shift(p, name, k)) <=> Health!Valid(config.template, p)
  BY <1>1, <1>5, <1>8, ShiftIs
<1>9. Health!Room(p) <=> m >= 2 /\ y >= 0 /\ ~(u <= 2 * y)
  <2>1. x.num >= 0 <=> y >= 0 BY <1>4 DEF Compared
  <2>2. Health!Above(e, Health!Times(Health!Whole(2), x)) <=> ~(u <= 2 * y) BY <1>4 DEF Compared, Health!Above
  <2>3. QED BY <1>1, <1>2, <1>3, <2>1, <2>2 DEF Health!Room, Health!Given
<1>10. ASSUME Health!Analysable(p) PROVE Health!Room(p)
  <2>1. m > 0 /\ y >= 0 /\ ~(u <= y) BY <1>6, <1>10, AnalysableIs
  <2>2. 50 \in Factors BY DEF Factors
  <2>3. Health!Valid(config.template, Shift(p, "window", 50))
      /\ Health!Valid(config.template, Shift(p, "entryZ", 50))
    BY <1>1, <1>10, <2>2, AnalysableIs
  <2>4. 100 <= m * 50 /\ ~(50 * u <= 100 * y) BY <1>7, <2>1, <2>2, <2>3
  <2>5. QED BY <1>9, <2>1, <2>4
<1>11. ASSUME Health!Room(p) PROVE Health!Analysable(p)
  <2>1. m >= 2 /\ y >= 0 /\ ~(u <= 2 * y) BY <1>9, <1>11
  <2>2. m > 0 /\ ~(u <= y) BY <2>1
  <2>3. ASSUME NEW k \in Factors PROVE 100 <= m * k /\ ~(k * u <= 100 * y) /\ ~(100 * u <= k * y)
    BY <2>1 DEF Factors
  <2>4. ASSUME NEW name \in DOMAIN p, NEW k \in Factors PROVE Health!Valid(config.template, Shift(p, name, k))
    BY <1>6, <1>7, <1>8, <2>1, <2>2, <2>3
  <2>5. QED BY <1>6, <2>1, <2>2, <2>4, AnalysableIs
<1>12. QED BY <1>10, <1>11

-----------------------------------------------------------------------------
(* What is left of a return, and the score                                 *)

\* The least of two amounts is neither more than one nor the other.
LEMMA LeastIs ==
  ASSUME NEW a \in Amount, NEW b \in Amount
  PROVE  /\ Health!Least(a, b) \in Amount
         /\ Health!Below(Health!Least(a, b), a) /\ Health!Below(Health!Least(a, b), b)
         /\ Health!Below(b, a) => Health!Least(a, b) = b
<1>1. a \in Health!Reduced /\ b \in Health!Reduced BY DEF Amount
<1>2. Health!Below(a, a) /\ Health!Below(b, b) /\ (Health!Below(a, b) \/ Health!Below(b, a))
  BY <1>1, BelowLaws
<1>3. Health!Below(a, b) /\ Health!Below(b, a) => a = b BY <1>1, BelowLaws
<1>4. QED BY <1>2, <1>3 DEF Health!Least

\* How an amount compares as a share of another.
ShareOf(a, b) ==
  /\ Health!Over(a, b) \in Amount
  /\ Health!Below(Health!Whole(1), Health!Over(a, b)) <=> Health!Below(b, a)
  /\ Health!Below(Health!Frac(1, 2), Health!Over(a, b)) => Health!Below(Health!Times(b, Health!Frac(1, 2)), a)

\* A quotient of two amounts is how they compare.
LEMMA ShareIs ==
  ASSUME NEW a \in Amount, NEW b \in Amount, b.num > 0
  PROVE  ShareOf(a, b)
<1>1. PICK x \in Nat, y \in Nat \ {0}, u, v \in Nat \ {0} : x = a.num /\ u = a.den /\ y = b.num /\ v = b.den
  BY PartsOf DEF Amount
<1>2. a = Health!Frac(x, u) /\ b = Health!Frac(y, v) /\ a \in Health!Reduced /\ b \in Health!Reduced
  BY <1>1, PartsOf DEF Amount
<1>3. PICK p \in Nat : p = x * v
  <2>1. x * v \in Nat OBVIOUS
  <2>2. QED BY <2>1
<1>4. PICK q \in Nat \ {0} : q = y * u
  <2>1. y * u \in Nat /\ y * u \in Int \ {0} BY NotZero
  <2>2. QED BY <2>1
<1>5. Health!Over(a, b) = Health!Frac(p, q)
  <2>1. ScaledBy(a.num, b.den, p) /\ ScaledBy(b.num, a.den, q) BY <1>1, <1>3, <1>4 DEF ScaledBy
  <2>2. QED BY <1>1, <1>2, <2>1, OverIs
<1>6. Health!Over(a, b) \in Amount BY <1>5, PriceIs
<1>7. Health!Below(Health!Whole(1), Health!Over(a, b)) <=> Health!Below(b, a)
  <2>1. Health!Below(Health!Frac(1, 1), Health!Frac(p, q)) <=> 1 * q <= p * 1 BY BelowFrac
  <2>2. Health!Below(b, a) <=> y * u <= x * v BY <1>1 DEF Health!Below
  <2>3. QED BY <1>3, <1>4, <1>5, <2>1, <2>2 DEF Health!Whole
<1>8. Health!Below(Health!Frac(1, 2), Health!Over(a, b)) <=> q <= p * 2
  <2>1. Health!Below(Health!Frac(1, 2), Health!Frac(p, q)) <=> 1 * q <= p * 2 BY BelowFrac
  <2>2. QED BY <1>5, <2>1
<1>9. Health!Below(Health!Times(b, Health!Frac(1, 2)), a) <=> q <= 2 * p
  <2>1. PICK w \in Nat \ {0} : w = v * 2 OBVIOUS
  <2>2. ScaledBy(y, 1, y) /\ ScaledBy(v, 2, w) BY <2>1 DEF ScaledBy
  <2>3. Health!Times(b, Health!Frac(1, 2)) = Health!Frac(y, w) BY <1>2, <2>2, TimesFrac
  <2>4. Health!Below(Health!Frac(y, w), Health!Frac(x, u)) <=> y * u <= x * w BY BelowFrac
  <2>5. x * (v * 2) = 2 * (x * v) OBVIOUS
  <2>6. QED BY <1>2, <1>3, <1>4, <2>1, <2>3, <2>4, <2>5
<1>10. QED BY <1>6, <1>7, <1>8, <1>9 DEF ShareOf

\* The fractions the analysis compares with are in order.
LEMMA FractionOrder ==
  /\ Health!Whole(1) \in Amount /\ Health!Frac(1, 2) \in Amount /\ Health!Frac(1, 1000) \in Amount
      /\ Health!Whole(0) \in Amount
  /\ Health!Below(Health!Frac(1, 2), Health!Whole(1)) /\ Health!Below(Health!Whole(0), Health!Whole(1))
  /\ ~Health!Below(Health!Frac(1, 2), Health!Whole(0))
<1>1. Health!Below(Health!Frac(1, 2), Health!Frac(1, 1)) <=> 1 * 1 <= 1 * 2 BY BelowFrac
<1>2. Health!Below(Health!Frac(0, 1), Health!Frac(1, 1)) <=> 0 * 1 <= 1 * 1 BY BelowFrac
<1>3. Health!Below(Health!Frac(1, 2), Health!Frac(0, 1)) <=> 1 * 1 <= 0 * 2 BY BelowFrac
<1>4. QED BY <1>1, <1>2, <1>3, PriceIs DEF Health!Whole

\* What is left of the return of the sample.
Left(in, out) ==
  /\ Health!Ratio(in, out) \in Amount /\ Health!Below(Health!Ratio(in, out), Health!Whole(1))
  /\ in.num > 0 /\ Health!Warned(in, out) => ~Health!Below(Health!Frac(1, 2), Health!Ratio(in, out))
  /\ (in.num < 0 /\ Health!Below(in, out) /\ out.num <= 0) => Health!Ratio(in, out) = Health!Whole(1)

\* The ratio is a part of 1, less than half of it after a warning, and all of it where
\* the loss outside is the lesser (analyze_out_of_sample).
LEMMA RatioIs ==
  ASSUME NEW in \in Health!Reduced, NEW out \in Health!Reduced
  PROVE  Left(in, out)
<1>1. in.num \in Int /\ out.num \in Int BY PartsOf
<1>2. Health!Below(Health!Whole(1), Health!Whole(1)) BY BelowLaws, WholeIs
<1>3. Health!Size(in) \in Amount /\ Health!Size(out) \in Amount BY SizeIs
<1>4. CASE in.num > 0 /\ out.num >= 0
  <2>1. in \in Amount /\ out \in Amount BY <1>1, <1>4 DEF Amount
  <2>2. PICK o : o = Health!Over(out, in) OBVIOUS
  <2>3. o \in Amount /\ (Health!Below(Health!Frac(1, 2), o) => Health!Below(Health!Times(in, Health!Frac(1, 2)), out))
    BY <1>4, <2>1, <2>2, ShareIs DEF ShareOf
  <2>4. PICK r : r = Health!Least(o, Health!Whole(1)) OBVIOUS
  <2>5. r \in Amount /\ Health!Below(r, o) /\ Health!Below(r, Health!Whole(1))
    BY <2>3, <2>4, FractionOrder, LeastIs
  <2>6. Health!Ratio(in, out) = r BY <1>1, <1>4, <2>2, <2>4 DEF Health!Ratio
  <2>7. Health!Warned(in, out) => ~Health!Below(Health!Times(in, Health!Frac(1, 2)), out)
    BY DEF Health!Warned, Health!Above
  <2>8. Health!Below(Health!Frac(1, 2), r) => Health!Below(Health!Frac(1, 2), o)
    BY <2>3, <2>5, FractionOrder, BelowLaws DEF Amount
  <2>9. QED BY <1>1, <1>4, <2>3, <2>5, <2>6, <2>7, <2>8 DEF Left
<1>5. CASE in.num < 0 /\ out.num < 0
  <2>1. PICK o : o = Health!Over(Health!Size(in), Health!Size(out)) OBVIOUS
  <2>2. Health!Size(out).num > 0 BY <1>1, <1>5, SizeIs
  <2>3. o \in Amount /\ (Health!Below(Health!Whole(1), o) <=> Health!Below(Health!Size(out), Health!Size(in)))
    BY <1>3, <2>1, <2>2, ShareIs DEF ShareOf
  <2>4. Health!Below(in, out) => Health!Below(Health!Size(out), Health!Size(in))
    <3>1. PICK u, v \in Nat \ {0}, x, y \in Int : u = in.den /\ v = out.den /\ x = in.num /\ y = out.num
      BY PartsOf
    <3>2. Health!Size(in).num = -x /\ Health!Size(in).den = u /\ Health!Size(out).num = -y
        /\ Health!Size(out).den = v
      BY <1>1, <1>5, <3>1, SizeIs
    <3>3. (-y) * u = -(y * u) /\ (-x) * v = -(x * v) /\ y * u \in Int /\ x * v \in Int OBVIOUS
    <3>4. QED BY <3>1, <3>2, <3>3 DEF Health!Below
  <2>5. PICK r : r = Health!Least(o, Health!Whole(1)) OBVIOUS
  <2>6. r \in Amount /\ Health!Below(r, Health!Whole(1))
      /\ (Health!Below(Health!Whole(1), o) => r = Health!Whole(1))
    BY <2>3, <2>5, FractionOrder, LeastIs
  <2>7. Health!Ratio(in, out) = r BY <1>1, <1>5, <2>1, <2>5 DEF Health!Ratio
  <2>8. QED BY <1>1, <1>5, <2>3, <2>4, <2>6, <2>7 DEF Left
<1>6. CASE in.num < 0 /\ out.num = 0
  <2>1. Health!Ratio(in, out) = Health!Whole(1) BY <1>1, <1>6 DEF Health!Ratio
  <2>2. QED BY <1>1, <1>2, <1>6, <2>1, FractionOrder DEF Left
<1>7. CASE in.num > 0 /\ out.num < 0
  <2>1. Health!Ratio(in, out) = Health!Whole(0) BY <1>1, <1>7 DEF Health!Ratio
  <2>2. QED BY <1>1, <1>7, <2>1, FractionOrder DEF Left
<1>8. CASE in.num = 0
  <2>1. Health!Ratio(in, out) =
      IF Health!Above(Health!Frac(1, 1000), Health!Size(out)) THEN Health!Whole(1) ELSE Health!Frac(1, 2)
    <3>1. /\ ~(in.num > 0 /\ out.num >= 0) /\ ~(in.num < 0 /\ out.num < 0)
          /\ ~(in.num < 0 /\ out.num = 0) /\ ~(in.num > 0 /\ out.num < 0)
      BY <1>1, <1>8
    <3>2. QED BY <1>8, <3>1 DEF Health!Ratio
  <2>2. QED BY <1>1, <1>2, <1>8, <2>1, FractionOrder DEF Left
<1>9. CASE in.num < 0 /\ out.num > 0
  <2>1. PICK o : o = Health!Over(out, Health!Size(in)) OBVIOUS
  <2>2. Health!Size(in).num > 0 /\ out \in Amount BY <1>1, <1>9, SizeIs DEF Amount
  <2>3. o \in Amount BY <1>3, <2>1, <2>2, ShareIs DEF ShareOf
  <2>4. PICK r : r = Health!Least(o, Health!Whole(1)) OBVIOUS
  <2>5. r \in Amount /\ Health!Below(r, Health!Whole(1)) BY <2>3, <2>4, FractionOrder, LeastIs
  <2>6. Health!Ratio(in, out) = r BY <1>1, <1>9, <2>1, <2>4 DEF Health!Ratio
  <2>7. QED BY <1>1, <1>9, <2>5, <2>6 DEF Left
<1>10. QED BY <1>1, <1>4, <1>5, <1>6, <1>7, <1>8, <1>9

\* Whole numbers are added, multiplied and compared as numbers.
LEMMA WholesCompare ==
  ASSUME NEW m \in Int, NEW n \in Int
  PROVE  /\ Health!Plus(Health!Whole(m), Health!Whole(n)) = Health!Whole(m + n)
         /\ Health!Times(Health!Whole(m), Health!Whole(n)) = Health!Whole(m * n)
         /\ Health!Below(Health!Whole(m), Health!Whole(n)) <=> m <= n
<1>1. ScaledBy(1, 1, 1) BY DEF ScaledBy
<1>2. Health!Plus(Health!Frac(m, 1), Health!Frac(n, 1)) = Health!Frac(m * 1 + n * 1, 1) BY <1>1, SumsFrac
<1>3. m * 1 + n * 1 = m + n OBVIOUS
<1>4. Health!Below(Health!Frac(m, 1), Health!Frac(n, 1)) <=> m * 1 <= n * 1 BY BelowFrac
<1>5. PICK p \in Int : p = m * n
  <2>1. m * n \in Int OBVIOUS
  <2>2. QED BY <2>1
<1>6. ScaledBy(m, n, p) BY <1>5 DEF ScaledBy
<1>7. Health!Times(Health!Frac(m, 1), Health!Frac(n, 1)) = Health!Frac(p, 1) BY <1>1, <1>6, TimesFrac
<1>8. QED BY <1>2, <1>3, <1>4, <1>5, <1>7 DEF Health!Whole

\* The parts of a score that do not depend on the returns.
Steady(high, all) == Health!Times(IF all = 0 THEN Health!Whole(100) ELSE Health!Frac(100 * (all - high), all), Health!Frac(2, 5))
Enough(trades)    == Health!Times(Health!Least(Health!Frac(trades, 30), Health!Whole(1)), Health!Whole(20))
Points(a, r, e)   == Health!Plus(a, Health!Plus(Health!Times(r, Health!Whole(40)), e))

\* The score is the whole part of three terms with the most they can be.
LEMMA ScoreIs ==
  ASSUME NEW high \in Nat, NEW all \in Nat, high <= all, NEW trades \in Nat, NEW r
  PROVE  /\ Health!Score(high, all, r, trades) = Health!Trunc(Points(Steady(high, all), r, Enough(trades)))
         /\ Steady(high, all) \in Amount /\ Health!Below(Steady(high, all), Health!Whole(40))
         /\ Enough(trades) \in Amount /\ Health!Below(Enough(trades), Health!Whole(20))
<1>1. Health!Score(high, all, r, trades) = Health!Trunc(Points(Steady(high, all), r, Enough(trades)))
  BY DEF Health!Score, Points, Steady, Enough
<1>2. PICK s : s = IF all = 0 THEN Health!Whole(100) ELSE Health!Frac(100 * (all - high), all) OBVIOUS
<1>3. s \in Amount /\ Health!Below(s, Health!Whole(100))
  <2>1. CASE all = 0
    <3>1. Health!Whole(100) \in Amount /\ Health!Below(Health!Whole(100), Health!Whole(100))
      BY PriceIs, WholesCompare
    <3>2. QED BY <1>2, <2>1, <3>1
  <2>2. CASE all # 0
    <3>1. PICK x \in Nat : x = 100 * (all - high) BY <2>2
    <3>2. s = Health!Frac(x, all) BY <1>2, <2>2, <3>1
    <3>3. Health!Below(Health!Frac(x, all), Health!Frac(100, 1)) <=> x * 1 <= 100 * all BY <2>2, BelowFrac
    <3>4. Health!Frac(x, all) \in Amount BY <2>2, PriceIs
    <3>5. QED BY <3>1, <3>2, <3>3, <3>4 DEF Health!Whole
  <2>3. QED BY <2>1, <2>2
<1>4. Health!Frac(2, 5) \in Amount BY PriceIs
<1>5. Health!Times(Health!Frac(2, 5), Health!Whole(100)) = Health!Whole(40)
  <2>1. ScaledBy(2, 100, 200) /\ ScaledBy(5, 1, 5) BY DEF ScaledBy
  <2>2. Health!Times(Health!Frac(2, 5), Health!Frac(100, 1)) = Health!Frac(200, 5) BY <2>1, TimesFrac
  <2>3. 200 * 1 = 40 * 5 OBVIOUS
  <2>4. Health!Frac(200, 5) = Health!Frac(40, 1) BY <2>3, FracSame
  <2>5. QED BY <2>2, <2>4 DEF Health!Whole
<1>6. Steady(high, all) = Health!Times(Health!Frac(2, 5), s)
  <2>1. Health!Times(s, Health!Frac(2, 5)) = Health!Times(Health!Frac(2, 5), s)
    BY <1>3, <1>4, TimesLaws DEF Amount
  <2>2. QED BY <1>2, <2>1 DEF Steady
<1>7. Health!Times(Health!Frac(2, 5), s) \in Amount BY <1>3, <1>4, AmountsAdd
<1>8. Health!Below(Health!Times(Health!Frac(2, 5), s), Health!Times(Health!Frac(2, 5), Health!Whole(100)))
  <2>1. Health!Whole(100) \in Health!Reduced /\ s \in Health!Reduced
      /\ Health!Frac(2, 5) \in Health!Reduced /\ Health!Frac(2, 5).num >= 0
    BY <1>3, <1>4, WholeIs DEF Amount
  <2>2. QED BY <1>3, <2>1, TimesBelow
<1>9. PICK t : t = Health!Least(Health!Frac(trades, 30), Health!Whole(1)) OBVIOUS
<1>10. t \in Amount /\ Health!Below(t, Health!Whole(1))
  <2>1. Health!Frac(trades, 30) \in Amount /\ Health!Whole(1) \in Amount BY PriceIs
  <2>2. QED BY <1>9, <2>1, LeastIs
<1>11. Health!Whole(20) \in Amount /\ Health!Whole(20) \in Health!Reduced /\ Health!Whole(20).num >= 0
  BY PriceIs DEF Amount
<1>12. Enough(trades) = Health!Times(Health!Whole(20), t)
  <2>1. Health!Times(t, Health!Whole(20)) = Health!Times(Health!Whole(20), t)
    BY <1>10, <1>11, TimesLaws DEF Amount
  <2>2. QED BY <1>9, <2>1 DEF Enough
<1>13. Health!Times(Health!Whole(20), t) \in Amount BY <1>10, <1>11, AmountsAdd
<1>14. Health!Below(Health!Times(Health!Whole(20), t), Health!Times(Health!Whole(20), Health!Whole(1)))
  <2>1. Health!Whole(1) \in Health!Reduced /\ t \in Health!Reduced BY <1>10, WholeIs DEF Amount
  <2>2. QED BY <1>10, <1>11, <2>1, TimesBelow
<1>15. Health!Times(Health!Whole(20), Health!Whole(1)) = Health!Whole(20) BY <1>11, TimesLaws
<1>16. QED BY <1>1, <1>5, <1>6, <1>7, <1>8, <1>12, <1>13, <1>14, <1>15

\* The score of any analysis is one of a hundred; without a low risk where less
\* than half of the return is left, and all of the points where all of it is.
LEMMA ScoreFits ==
  ASSUME NEW high \in Nat, NEW all \in Nat, high <= all, NEW trades \in Nat,
         NEW r \in Amount, Health!Below(r, Health!Whole(1))
  PROVE  /\ Health!Score(high, all, r, trades) \in 0..100
         /\ ~Health!Below(Health!Frac(1, 2), r) => Health!Score(high, all, r, trades) < 80
         /\ r = Health!Whole(1) => Health!Score(high, all, r, trades) >= 40 + Health!Score(high, all,
             Health!Whole(0), trades)
<1>1. PICK a, e : a = Steady(high, all) /\ e = Enough(trades) OBVIOUS
<1>2. a \in Amount /\ e \in Amount /\ Health!Below(a, Health!Whole(40)) /\ Health!Below(e, Health!Whole(20))
  BY <1>1, ScoreIs
<1>3. a \in Health!Reduced /\ e \in Health!Reduced /\ r \in Health!Reduced BY <1>2 DEF Amount
<1>4. Health!Score(high, all, r, trades) = Health!Trunc(Points(a, r, e))
      /\ Health!Score(high, all, Health!Whole(0), trades) = Health!Trunc(Points(a, Health!Whole(0), e))
  BY <1>1, ScoreIs
<1>5. PICK p : p = Health!Times(r, Health!Whole(40)) OBVIOUS
<1>6. Health!Whole(40) \in Amount /\ Health!Whole(20) \in Amount /\ Health!Whole(1) \in Amount
    /\ Health!Frac(1, 2) \in Amount /\ Health!Whole(40).num > 0
  BY PriceIs, WholeIs
<1>7. p \in Amount /\ p \in Health!Reduced /\ p = Health!Times(Health!Whole(40), r)
  <2>1. Health!Times(r, Health!Whole(40)) \in Amount BY <1>6, AmountsAdd
  <2>2. Health!Times(r, Health!Whole(40)) = Health!Times(Health!Whole(40), r)
    BY <1>3, <1>6, TimesLaws DEF Amount
  <2>3. QED BY <1>5, <2>1, <2>2 DEF Amount
<1>8. Health!Below(p, Health!Whole(40))
  <2>1. Health!Whole(40) \in Health!Reduced /\ Health!Whole(1) \in Health!Reduced /\ Health!Whole(40).num >= 0
    BY <1>6 DEF Amount
  <2>2. Health!Below(Health!Times(Health!Whole(40), r), Health!Times(Health!Whole(40), Health!Whole(1)))
    BY <1>3, <2>1, TimesBelow
  <2>3. Health!Times(Health!Whole(40), Health!Whole(1)) = Health!Whole(40) BY <2>1, TimesLaws
  <2>4. QED BY <1>7, <2>2, <2>3
<1>9. PICK t : t = Health!Plus(a, Health!Plus(p, e)) OBVIOUS
<1>10. Health!Score(high, all, r, trades) = Health!Trunc(t) BY <1>4, <1>5, <1>9 DEF Points
<1>11. t \in Amount /\ t \in Health!Reduced
  <2>1. Health!Plus(p, e) \in Amount BY <1>2, <1>7, AmountsAdd
  <2>2. QED BY <1>2, <1>9, <2>1, AmountsAdd
<1>12. \A n \in Nat : Health!Whole(n) \in Health!Reduced BY WholeIs
<1>13. Health!Trunc(t) \in Nat /\ \A n \in Nat : n <= Health!Trunc(t) <=> Health!Below(Health!Whole(n), t)
  BY <1>11, FloorIs
<1>14. Health!Trunc(t) <= 100
  <2>1. Health!Below(Health!Plus(p, e), Health!Plus(Health!Whole(40), Health!Whole(20)))
    BY <1>2, <1>3, <1>7, <1>8, <1>12, PlusBelow
  <2>2. Health!Plus(Health!Whole(40), Health!Whole(20)) = Health!Whole(60) BY WholesCompare
  <2>3. Health!Plus(p, e) \in Health!Reduced BY <1>3, <1>7, ResultsReduced
  <2>4. Health!Below(t, Health!Plus(Health!Whole(40), Health!Whole(60)))
    BY <1>2, <1>3, <1>9, <1>12, <2>1, <2>2, <2>3, PlusBelow
  <2>5. Health!Plus(Health!Whole(40), Health!Whole(60)) = Health!Whole(100) BY WholesCompare
  <2>6. Health!Below(Health!Whole(101), t) => Health!Below(Health!Whole(101), Health!Whole(100))
    BY <1>11, <1>12, <2>4, <2>5, BelowLaws
  <2>7. ~Health!Below(Health!Whole(101), Health!Whole(100)) BY WholesCompare
  <2>8. ~(101 <= Health!Trunc(t)) BY <1>13, <2>6, <2>7
  <2>9. QED BY <1>13, <2>8
<1>15. ASSUME ~Health!Below(Health!Frac(1, 2), r) PROVE Health!Trunc(t) < 80
  <2>1. PICK q : q = Health!Plus(a, e) OBVIOUS
  <2>2. q \in Health!Reduced /\ Health!Below(q, Health!Whole(60))
    <3>1. Health!Below(Health!Plus(a, e), Health!Plus(Health!Whole(40), Health!Whole(20)))
      BY <1>2, <1>3, <1>12, PlusBelow
    <3>2. Health!Plus(Health!Whole(40), Health!Whole(20)) = Health!Whole(60) BY WholesCompare
    <3>3. QED BY <1>3, <2>1, <3>1, <3>2, ResultsReduced
  <2>3. t = Health!Plus(q, p)
    <3>1. Health!Plus(p, e) = Health!Plus(e, p) BY <1>3, <1>7, PlusLaws
    <3>2. Health!Plus(Health!Plus(a, e), p) = Health!Plus(a, Health!Plus(e, p)) BY <1>3, <1>7, PlusLaws
    <3>3. QED BY <1>9, <2>1, <3>1, <3>2
  <2>4. Health!Below(t, Health!Plus(Health!Whole(60), p))
    <3>1. Health!Below(p, p) BY <1>7, BelowLaws
    <3>2. QED BY <1>7, <1>12, <2>2, <2>3, <3>1, PlusBelow
  <2>5. ASSUME Health!Below(Health!Whole(80), t) PROVE FALSE
    <3>1. Health!Plus(Health!Whole(60), Health!Whole(20)) = Health!Whole(80) BY WholesCompare
    <3>2. Health!Plus(Health!Whole(60), p) \in Health!Reduced BY <1>7, <1>12, ResultsReduced
    <3>3. Health!Below(Health!Plus(Health!Whole(60), Health!Whole(20)), Health!Plus(Health!Whole(60), p))
      BY <1>11, <1>12, <2>4, <2>5, <3>1, <3>2, BelowLaws
    <3>4. Health!Below(Health!Whole(20), p) BY <1>7, <1>12, <3>3, PlusAbove
    <3>5. Health!Times(Health!Whole(40), Health!Frac(1, 2)) = Health!Whole(20)
      <4>1. ScaledBy(40, 1, 40) /\ ScaledBy(1, 2, 2) BY DEF ScaledBy
      <4>2. Health!Times(Health!Frac(40, 1), Health!Frac(1, 2)) = Health!Frac(40, 2) BY <4>1, TimesFrac
      <4>3. 40 * 1 = 20 * 2 OBVIOUS
      <4>4. Health!Frac(40, 2) = Health!Frac(20, 1) BY <4>3, FracSame
      <4>5. QED BY <4>2, <4>4 DEF Health!Whole
    <3>6. Health!Below(Health!Times(Health!Whole(40), Health!Frac(1, 2)), Health!Times(Health!Whole(40), r))
      BY <1>7, <3>4, <3>5
    <3>7. Health!Whole(40) \in Health!Reduced /\ Health!Frac(1, 2) \in Health!Reduced
        /\ Health!Whole(40).num >= 0
      BY <1>6 DEF Amount
    <3>8. Health!Below(Health!Frac(1, 2), r) BY <1>3, <1>6, <3>6, <3>7, TimesBelow
    <3>9. QED BY <1>15, <3>8
  <2>6. ~(80 <= Health!Trunc(t)) BY <1>13, <2>5
  <2>7. QED BY <1>13, <2>6
<1>16. ASSUME r = Health!Whole(1) PROVE Health!Trunc(t) >= 40 + Health!Trunc(Points(a, Health!Whole(0), e))
  <2>1. p = Health!Whole(40)
    <3>1. Health!Times(Health!Whole(40), Health!Whole(1)) = Health!Whole(40) BY <1>12, TimesLaws
    <3>2. QED BY <1>7, <1>16, <3>1
  <2>2. PICK z : z = Health!Times(Health!Whole(0), Health!Whole(40)) OBVIOUS
  <2>3. z = Health!Whole(0) BY <2>2, WholesCompare
  <2>4. Health!Plus(z, e) = e
    <3>1. Health!Whole(0).num = 0 /\ Health!Whole(0) \in Health!Reduced BY Zero, <1>12
    <3>2. Health!Plus(e, Health!Whole(0)) = e BY <1>3, <3>1, PlusZero
    <3>3. Health!Plus(Health!Whole(0), e) = Health!Plus(e, Health!Whole(0)) BY <1>3, <3>1, PlusLaws
    <3>4. QED BY <2>3, <3>2, <3>3
  <2>5. PICK q : q = Health!Plus(a, e) OBVIOUS
  <2>6. Points(a, Health!Whole(0), e) = q BY <2>2, <2>4, <2>5 DEF Points
  <2>7. q \in Amount /\ q \in Health!Reduced BY <1>2, <2>5, AmountsAdd
  <2>8. PICK n \in Nat : n = Health!Trunc(q) /\ Health!Below(Health!Whole(n), q) BY <2>7, FloorIs
  <2>9. t = Health!Plus(q, Health!Whole(40))
    <3>1. Health!Whole(40) \in Health!Reduced BY <1>12
    <3>2. Health!Plus(Health!Whole(40), e) = Health!Plus(e, Health!Whole(40)) BY <1>3, <3>1, PlusLaws
    <3>3. Health!Plus(Health!Plus(a, e), Health!Whole(40)) = Health!Plus(a, Health!Plus(e, Health!Whole(40)))
      BY <1>3, <3>1, PlusLaws
    <3>4. QED BY <1>9, <2>1, <2>5, <3>2, <3>3
  <2>10. Health!Below(Health!Plus(Health!Whole(n), Health!Whole(40)), t)
    <3>1. Health!Below(Health!Whole(40), Health!Whole(40)) BY WholesCompare
    <3>2. QED BY <1>12, <2>7, <2>8, <2>9, <3>1, PlusBelow
  <2>11. Health!Plus(Health!Whole(n), Health!Whole(40)) = Health!Whole(n + 40) BY WholesCompare
  <2>12. n + 40 <= Health!Trunc(t) BY <1>13, <2>10, <2>11
  <2>13. QED BY <1>13, <2>6, <2>8, <2>12
<1>17. QED BY <1>4, <1>10, <1>13, <1>14, <1>15, <1>16

-----------------------------------------------------------------------------
(* The report                                                              *)

Measured(r) == r.returnRate \in Health!Reduced /\ r.tradeCount \in Nat

\* Whatever is simulated has measured returns and a number of trades.
LEMMA RunMeasured ==
  ASSUME NEW template, NEW q, NEW prices \in Seq(Nat), NEW fee, FeeFits(fee)
  PROVE  Measured(Health!Run(template, q, prices, fee))
<1>1. PICK o : o = Health!Orders(template, q, prices) OBVIOUS
<1>2. PICK a : a = Health!Simulate(prices, o, Health!Capital, fee) OBVIOUS
<1>3. PICK n \in Nat : n = Len(prices) OBVIOUS
<1>4. Health!Capital \in Amount BY PriceIs DEF Health!Capital
<1>5. PICK h : Accounted(h, prices, o, Health!Capital, fee, n) BY <1>3, <1>4, AccountedRuns
<1>6. a.curve \in Seq(Amount) BY <1>2, <1>3, <1>4, <1>5, CurveIs DEF CurveOf
<1>7. PICK m : m = Health!EquityMetrics(a, Health!Capital) OBVIOUS
<1>8. CASE a.curve = <<>>
  <2>1. m = Health!NoMetrics BY <1>7, <1>8 DEF Health!EquityMetrics
  <2>2. QED BY <1>1, <1>2, <1>7, <2>1, WholeIs DEF Health!Run, Health!NoMetrics, Measured
<1>9. CASE a.curve # <<>>
  <2>1. PICK last \in Health!Reduced : last = a.curve[Len(a.curve)] BY <1>6, <1>9 DEF Amount
  <2>2. PICK t \in Nat : t = Len(Health!Sales(a.trades))
    <3>1. Len(Health!Sales(a.trades)) \in Nat BY DEF Health!Sales
    <3>2. QED BY <3>1
  <2>3. m.returnRate = Health!Over(Health!Minus(last, Health!Capital), Health!Capital) /\ m.tradeCount = t
    BY <1>7, <1>9, <2>1, <2>2 DEF Health!EquityMetrics
  <2>4. Health!Over(Health!Minus(last, Health!Capital), Health!Capital) \in Health!Reduced
    <3>1. Health!Capital \in Health!Reduced /\ Health!Capital.num # 0
      BY <1>4, WholeIs DEF Health!Capital, Amount
    <3>2. PICK e \in Health!Reduced : e = Health!Minus(last, Health!Capital) BY <3>1, ResultsReduced
    <3>3. PICK u \in Int, v \in Nat \ {0} : u = e.num /\ v = e.den BY PartsOf
    <3>4. PICK w \in Int \ {0}, x \in Nat \ {0} : w = Health!Capital.num /\ x = Health!Capital.den
      BY <3>1, PartsOf
    <3>5. PICK y \in Int, z \in Int \ {0} : y = u * x /\ z = w * v
      <4>1. u * x \in Int /\ w * v \in Int \ {0} BY <3>3, <3>4, NotZero
      <4>2. QED BY <4>1
    <3>6. ScaledBy(e.num, Health!Capital.den, y) /\ ScaledBy(Health!Capital.num, e.den, z)
      BY <3>3, <3>4, <3>5 DEF ScaledBy
    <3>7. Health!Over(e, Health!Capital) = Health!Frac(y, z) BY <3>1, <3>6, OverIs
    <3>8. QED BY <3>2, <3>5, <3>7, FracReduced
  <2>5. QED BY <1>1, <1>2, <1>7, <2>2, <2>3, <2>4 DEF Health!Run, Measured
<1>10. QED BY <1>8, <1>9

\* What a body is.
LEMMA BodyIs ==
  ASSUME Health!HealthParameters, config \in Health!Body
  PROVE  /\ config.prices \in Seq(Nat) /\ FeeFits(config.fee)
         /\ IsFiniteSet(DOMAIN config.parameters)
         /\ \A name \in DOMAIN config.parameters : config.parameters[name] \in Health!Reduced
         /\ Health!Days \in Nat /\ Health!Split \in Nat /\ Health!Split <= Health!Days
<1>1. config.prices \in Seq(Nat) /\ FeeFits(config.fee) BY DEF Health!HealthParameters, Health!Body, FeeFits
<1>2. config.parameters \in ParameterSets BY DEF Health!Body
<1>3. PICK n \in Nat : n = Health!Days BY <1>1 DEF Health!Days
<1>4. (n * 7) \div 10 \in Nat /\ (n * 7) \div 10 <= n OBVIOUS
<1>5. QED BY <1>1, <1>2, <1>3, <1>4 DEF Health!HealthParameters, Health!Split, Health!IsFiniteSet, IsFiniteSet

\* The cases of a body are parts of its history.
LEMMA CaseMeasured ==
  ASSUME Health!HealthParameters, config \in Health!Body, NEW c \in Health!Cases(config.parameters)
  PROVE  Measured(Health!Run(config.template, c.parameters, SubSeq(config.prices, c.from, c.to), config.fee))
<1>1. PICK d, k \in Nat : d = Health!Days /\ k = Health!Split /\ k <= d BY BodyIs
<1>2. c.from \in {1, k + 1} /\ c.to \in {d, k} BY <1>1 DEF Health!Cases, Health!Case
<1>3. PICK s \in Seq(Nat) : s = config.prices /\ Len(s) = d BY <1>1, BodyIs DEF Health!Days
<1>4. PICK i, j \in Nat : i = c.from /\ j = c.to /\ 1 <= i /\ j <= d BY <1>1, <1>2
<1>5. SubSeq(s, i, j) \in Seq(Nat)
  <2>1. \A x \in i..j : s[x] \in Nat BY <1>3, <1>4
  <2>2. QED BY <1>3, <1>4, <2>1
<1>6. SubSeq(config.prices, c.from, c.to) \in Seq(Nat) BY <1>3, <1>4, <1>5
<1>7. QED BY <1>6, BodyIs, RunMeasured

\* Reports count as this module does.
LEMMA ReportsCount == \A S : Health!Cardinality(S) = Cardinality(S)
BY DEF Health!Cardinality, Cardinality

Fitting == config.template \in Health!Supported /\ Health!Analysable(config.parameters)

Refused == report = Health!Error("INVALID_CONFIGURATION") => ~Health!Analysable(config.parameters)

Drafted ==
  /\ status = "running" /\ Fitting
  /\ DOMAIN report.runs = Health!Cases(config.parameters)
  /\ \A c \in Health!Cases(config.parameters) : Measured(report.runs[c])

Judged ==
  /\ status = "completed" /\ Fitting
  /\ report.in \in Health!Reduced /\ report.out \in Health!Reduced
  /\ report.high \in SUBSET DOMAIN config.parameters /\ report.metrics.tradeCount \in Nat
  /\ report.score = Health!Score(Cardinality(report.high), Cardinality(DOMAIN config.parameters),
                          Health!Ratio(report.in, report.out), report.metrics.tradeCount)
  /\ report.risk = Health!Risk(report.score) /\ report.warned = Health!Warned(report.in, report.out)

\* The inductive invariant: what a report says at its status.
HealthInv ==
  /\ config \in Health!Body /\ alive \in BOOLEAN
  /\ \/ report = Health!NoReport /\ status \in {"pending", "running"}
     \/ report \in {Health!Error(e) : e \in Health!Errors} /\ status = "failed" /\ Refused
     \/ report.kind = "simulated" /\ Drafted
     \/ report.kind = "outcome" /\ Judged

\* The whole history and both its parts are among what is simulated.
LEMMA CasesOf ==
  /\ Health!Case(config.parameters, 1, Health!Days) \in Health!Cases(config.parameters)
  /\ Health!Case(config.parameters, 1, Health!Split) \in Health!Cases(config.parameters)
  /\ Health!Case(config.parameters, Health!Split + 1, Health!Days) \in Health!Cases(config.parameters)
BY DEF Health!Cases

\* What a report is judged to be fits what was simulated (execute_report).
LEMMA OutcomeIs ==
  ASSUME Health!HealthParameters, config \in Health!Body, Drafted, Health!Outcome = report',
         status' = "completed", UNCHANGED config
  PROVE  report'.kind = "outcome" /\ Judged'
<1>1. PICK p : p = config.parameters OBVIOUS
<1>2. PICK in : in = Health!InSample(p) OBVIOUS
<1>3. PICK out : out = Health!OutSample(p) OBVIOUS
<1>4. PICK all : all = Health!Result(p, 1, Health!Days) OBVIOUS
<1>5. PICK high : high = {name \in DOMAIN p : Health!Rating(p, name) = "HIGH"} OBVIOUS
<1>6. PICK score : score = Health!Score(Cardinality(high), Cardinality(DOMAIN p), Health!Ratio(in, out),
    all.tradeCount) OBVIOUS
<1>7. report' = [kind |-> "outcome", score |-> score, risk |-> Health!Risk(score), high |-> high,
                 in |-> in, out |-> out, warned |-> Health!Warned(in, out), metrics |-> all]
  BY <1>1, <1>2, <1>3, <1>4, <1>5, <1>6, ReportsCount DEF Health!Outcome
<1>8. in \in Health!Reduced /\ out \in Health!Reduced /\ all.tradeCount \in Nat
  BY <1>1, <1>2, <1>3, <1>4, CasesOf DEF Drafted, Health!InSample, Health!OutSample, Health!Return,
      Health!Result, Measured
<1>9. high \in SUBSET DOMAIN p BY <1>5
<1>10. Fitting' BY DEF Drafted, Fitting, Health!Analysable, Health!Valid, Health!Perturbed
<1>11. QED BY <1>1, <1>6, <1>7, <1>8, <1>9, <1>10 DEF Judged

\* A report created fits.
LEMMA HealthBegins ==
  ASSUME Health!Init
  PROVE  HealthInv
BY DEF Health!Init, HealthInv

\* Every step of the request keeps the report fitting.
LEMMA HealthStep ==
  ASSUME Health!HealthParameters, HealthInv, Health!Next
  PROVE  HealthInv'
<1>1. CASE Health!Start
  <2>1. report = Health!NoReport \/ report # Health!NoReport OBVIOUS
  <2>2. status = "pending" => report = Health!NoReport BY DEF HealthInv, Drafted, Judged
  <2>3. QED BY <1>1, <2>2 DEF Health!Start, HealthInv
<1>2. ASSUME NEW e \in Health!Errors, Health!Fail(e), e = "INVALID_CONFIGURATION" =>
    ~Health!Analysable(config.parameters)
      PROVE  HealthInv'
  <2>1. report' = Health!Error(e) /\ status' = "failed" /\ alive' = FALSE /\ config' = config
    BY <1>2 DEF Health!Fail, Health!End
  <2>2. Health!Error(e) = Health!Error("INVALID_CONFIGURATION") => e = "INVALID_CONFIGURATION"
    BY DEF Health!Error
  <2>3. Health!Analysable(config.parameters)' = Health!Analysable(config.parameters)
    BY <2>1 DEF Health!Analysable, Health!Valid, Health!Perturbed
  <2>4. Refused' BY <1>2, <2>1, <2>2, <2>3 DEF Refused
  <2>5. QED BY <2>1, <2>4 DEF HealthInv
<1>3. CASE Health!Refuse BY <1>2, <1>3 DEF Health!Refuse, Health!Errors
<1>4. CASE Health!ReadFails BY <1>2, <1>4 DEF Health!ReadFails, Health!Errors
<1>5. CASE Health!ReadNothing BY <1>2, <1>5 DEF Health!ReadNothing, Health!Errors
<1>6. CASE Health!Analyse
  <2>1. CASE ~Health!Analysable(config.parameters) BY <1>2, <1>6, <2>1 DEF Health!Analyse, Health!Errors
  <2>2. CASE Health!Analysable(config.parameters)
    <3>1. /\ report' = [kind |-> "simulated", runs |->
               [c \in Health!Cases(config.parameters) |->
                  Health!Run(config.template, c.parameters, SubSeq(config.prices, c.from, c.to), config.fee)]]
          /\ config' = config /\ status' = "running" /\ alive' = alive /\ config.template \in Health!Supported
      BY <1>6, <2>2 DEF Health!Analyse, Health!Ready
    <3>2. Health!Cases(config.parameters)' = Health!Cases(config.parameters)
      BY <3>1 DEF Health!Cases, Health!Days, Health!Split, Health!Perturbed
    <3>3. Fitting' BY <2>2, <3>1 DEF Fitting, Health!Analysable, Health!Valid, Health!Perturbed
    <3>4. config \in Health!Body BY DEF HealthInv
    <3>5. \A c \in Health!Cases(config.parameters) : Measured(report'.runs[c]) BY <3>1, <3>4, CaseMeasured
    <3>6. DOMAIN report'.runs = Health!Cases(config.parameters) BY <3>1
    <3>7. Drafted' BY <3>1, <3>2, <3>3, <3>5, <3>6 DEF Drafted, Measured
    <3>8. report'.kind = "simulated" BY <3>1
    <3>9. QED BY <3>1, <3>7, <3>8 DEF HealthInv
  <2>3. QED BY <2>1, <2>2
<1>7. CASE Health!Judge
  <2>1. Drafted BY <1>7 DEF Health!Judge, HealthInv, Health!NoReport, Health!Error
  <2>2. report' = Health!Outcome /\ status' = "completed" /\ alive' = FALSE /\ config' = config
    BY <1>7 DEF Health!Judge, Health!End
  <2>3. config \in Health!Body BY DEF HealthInv
  <2>4. report'.kind = "outcome" /\ Judged' BY <2>1, <2>2, <2>3, OutcomeIs
  <2>5. QED BY <2>2, <2>3, <2>4 DEF HealthInv
<1>8. CASE Health!Crash
  <2>1. alive' = FALSE /\ config' = config /\ status' = status /\ report' = report BY <1>8 DEF Health!Crash
  <2>2. Refused' <=> Refused BY <2>1 DEF Refused, Health!Analysable, Health!Valid, Health!Perturbed
  <2>3. Fitting' <=> Fitting BY <2>1 DEF Fitting, Health!Analysable, Health!Valid, Health!Perturbed
  <2>4. Drafted' <=> Drafted
    <3>1. Health!Cases(config.parameters)' = Health!Cases(config.parameters)
      BY <2>1 DEF Health!Cases, Health!Days, Health!Split, Health!Perturbed
    <3>2. QED BY <2>1, <2>3, <3>1 DEF Drafted, Measured
  <2>5. Judged' <=> Judged BY <2>1, <2>3 DEF Judged
  <2>6. QED BY <2>1, <2>2, <2>4, <2>5 DEF HealthInv
<1>9. QED BY <1>1, <1>3, <1>4, <1>5, <1>6, <1>7, <1>8 DEF Health!Next

\* A report that does not change goes on fitting.
LEMMA HealthKept ==
  ASSUME HealthInv, UNCHANGED Health!vars
  PROVE  HealthInv'
<1>1. alive' = alive /\ config' = config /\ status' = status /\ report' = report BY DEF Health!vars
<1>2. Refused' <=> Refused BY <1>1 DEF Refused, Health!Analysable, Health!Valid, Health!Perturbed
<1>3. Fitting' <=> Fitting BY <1>1 DEF Fitting, Health!Analysable, Health!Valid, Health!Perturbed
<1>4. Drafted' <=> Drafted
  <2>1. Health!Cases(config.parameters)' = Health!Cases(config.parameters)
    BY <1>1 DEF Health!Cases, Health!Days, Health!Split, Health!Perturbed
  <2>2. QED BY <1>1, <1>3, <2>1 DEF Drafted, Measured
<1>5. Judged' <=> Judged BY <1>1, <1>3 DEF Judged
<1>6. QED BY <1>1, <1>2, <1>4, <1>5 DEF HealthInv

\* What a report that was judged says of its score.
LEMMA JudgedScore ==
  ASSUME Health!HealthParameters, config \in Health!Body, Judged
  PROVE  /\ report.score \in 0..100
         /\ ~Health!Below(Health!Frac(1, 2), Health!Ratio(report.in, report.out)) => report.score < 80
         /\ Health!Ratio(report.in, report.out) = Health!Whole(1) =>
              report.score >= 40 + Health!Score(Cardinality(report.high), Cardinality(DOMAIN config.parameters),
                                         Health!Whole(0), report.metrics.tradeCount)
         /\ Left(report.in, report.out)
<1>1. PICK high, all, trades \in Nat :
        /\ high = Cardinality(report.high) /\ all = Cardinality(DOMAIN config.parameters) /\ high <= all
        /\ trades = report.metrics.tradeCount
  <2>1. IsFiniteSet(DOMAIN config.parameters) BY BodyIs
  <2>2. report.high \in SUBSET DOMAIN config.parameters /\ report.metrics.tradeCount \in Nat BY DEF Judged
  <2>3. IsFiniteSet(report.high) /\ Cardinality(report.high) <= Cardinality(DOMAIN config.parameters)
    BY <2>1, <2>2, FS_Subset
  <2>4. Cardinality(report.high) \in Nat /\ Cardinality(DOMAIN config.parameters) \in Nat
    BY <2>1, <2>3, FS_CardinalityType
  <2>5. QED BY <2>2, <2>3, <2>4
<1>2. Left(report.in, report.out) BY RatioIs DEF Judged
<1>3. PICK r \in Amount : r = Health!Ratio(report.in, report.out) /\ Health!Below(r, Health!Whole(1))
  BY <1>2 DEF Left
<1>4. report.score = Health!Score(high, all, r, trades) BY <1>1, <1>3 DEF Judged
<1>5. /\ Health!Score(high, all, r, trades) \in 0..100
      /\ ~Health!Below(Health!Frac(1, 2), r) => Health!Score(high, all, r, trades) < 80
      /\ r = Health!Whole(1) => Health!Score(high, all, r, trades) >= 40 + Health!Score(high, all,
          Health!Whole(0), trades)
  BY <1>1, <1>3, ScoreFits
<1>6. QED BY <1>1, <1>2, <1>3, <1>4, <1>5

\* A fitting report is well formed, its score one of a hundred.
LEMMA HealthTyped ==
  ASSUME Health!HealthParameters, HealthInv
  PROVE  Health!TypeOK
<1>1. config \in Health!Body /\ alive \in BOOLEAN BY DEF HealthInv
<1>2. CASE report = Health!NoReport /\ status \in {"pending", "running"}
  <2>1. report.kind = "none" BY <1>2 DEF Health!NoReport
  <2>2. QED BY <1>1, <1>2, <2>1 DEF Health!TypeOK
<1>3. CASE report \in {Health!Error(e) : e \in Health!Errors} /\ status = "failed"
  <2>1. report.kind = "error" BY <1>3 DEF Health!Error
  <2>2. QED BY <1>1, <1>3, <2>1 DEF Health!TypeOK
<1>4. CASE report.kind = "simulated" /\ Drafted BY <1>1, <1>4 DEF Health!TypeOK, Drafted
<1>5. CASE report.kind = "outcome" /\ Judged
  <2>1. report.score \in 0..100 BY <1>1, <1>5, JudgedScore
  <2>2. QED BY <1>1, <1>5, <2>1 DEF Health!TypeOK, Judged
<1>6. QED BY <1>2, <1>3, <1>4, <1>5 DEF HealthInv

\* A body that names its parameters is analysed exactly if it leaves room for every
\* variation (analyze_parameter_sensitivity).
LEMMA RoomFits ==
  ASSUME Health!HealthParameters, HealthInv
  PROVE  Health!RoomNeeded
<1>1. PICK p : p = config.parameters OBVIOUS
<1>2. config \in Health!Body BY DEF HealthInv
<1>3. \A name \in DOMAIN p : p[name] \in Health!Reduced BY <1>1, <1>2, BodyIs
<1>4. ASSUME Health!Named(p) PROVE Health!Analysable(p) <=> Health!Room(p)
  BY <1>3, <1>4, CrossingRoom, RevertingRoom
<1>5. status = "completed" => Health!Analysable(p) BY <1>1 DEF HealthInv, Drafted, Judged, Fitting
<1>6. report = Health!Error("INVALID_CONFIGURATION") => ~Health!Analysable(p)
  BY <1>1 DEF HealthInv, Refused, Health!NoReport, Health!Error
<1>7. QED BY <1>1, <1>4, <1>5, <1>6 DEF Health!RoomNeeded

\* Score and warning agree (calculate_overfit_score).
LEMMA ScoreSound ==
  ASSUME Health!HealthParameters, HealthInv
  PROVE  Health!ScoreAgrees
<1>1. SUFFICES ASSUME status = "completed" PROVE Health!ScoreAgrees BY DEF Health!ScoreAgrees
<1>2. config \in Health!Body /\ Judged BY <1>1 DEF HealthInv, Drafted
<1>3. Left(report.in, report.out) BY <1>2, JudgedScore
<1>4. report.warned /\ report.in.num > 0 => report.risk # "LOW"
  <2>1. ASSUME report.warned, report.in.num > 0 PROVE report.risk # "LOW"
    <3>1. ~Health!Below(Health!Frac(1, 2), Health!Ratio(report.in, report.out))
      BY <1>2, <1>3, <2>1 DEF Left, Judged
    <3>2. report.score < 80 /\ report.score \in 0..100 BY <1>2, <3>1, JudgedScore
    <3>3. Health!Risk(report.score) # "LOW"
      <4>1. PICK s \in 0..79 : s = report.score BY <3>2
      <4>2. s \in 60..79 \/ s \in 40..59 \/ s < 40 BY <4>1
      <4>3. Health!Risk(s) \in {"MEDIUM", "HIGH", "CRITICAL"} BY <4>1, <4>2 DEF Health!Risk
      <4>4. QED BY <4>1, <4>3
    <3>4. QED BY <1>2, <3>3 DEF Judged
  <2>2. QED BY <2>1
<1>5. (report.in.num < 0 /\ Health!Below(report.in, report.out) /\ report.out.num <= 0) =>
        report.score >= 40 + Health!Score(Cardinality(report.high), Cardinality(DOMAIN config.parameters),
                                   Health!Whole(0), report.metrics.tradeCount)
  BY <1>2, <1>3, JudgedScore DEF Left
<1>6. QED BY <1>4, <1>5, ReportsCount DEF Health!ScoreAgrees

\* While a behaviour is about a report, the report says what its status and its
\* body allow.
ReportInv == part = "health" => HealthInv

\* The run starts with a fitting report, if it is about one.
LEMMA ReportBegins ==
  ASSUME MCInit
  PROVE  ReportInv
<1>1. SUFFICES ASSUME part = "health" PROVE HealthInv
  BY DEF ReportInv
<1>2. Health!Init BY <1>1 DEF MCInit
<1>3. QED BY <1>2, HealthBegins

\* Every step of the run keeps the report fitting.
LEMMA ReportStep ==
  ASSUME ReportInv, [MCNext]_mcvars
  PROVE  ReportInv'
<1>1. SUFFICES ASSUME part' = "health" PROVE HealthInv'
  BY DEF ReportInv
<1>2. part' = part
  BY DEF MCNext, mcvars
<1>3. HealthInv BY <1>1, <1>2 DEF ReportInv
<1>4. Health!Next \/ UNCHANGED healthVars
  BY <1>1, <1>2 DEF MCNext, mcvars
<1>5. CASE Health!Next BY <1>3, <1>5, HealthStep, MCParameters
<1>6. CASE UNCHANGED healthVars
  <2>1. UNCHANGED Health!vars BY <1>6 DEF healthVars, Health!vars
  <2>2. QED BY <1>3, <2>1, HealthKept
<1>7. QED BY <1>4, <1>5, <1>6

\* A report that refuses its body had a variation that cannot be run, one that
\* is completed had none, and its score, its risk and its warning are those of
\* its returns (execute_report, calculate_overfit_score).
THEOREM ReportInvariant == MCSpec => []ReportInv
BY ReportBegins, ReportStep, PTL DEF MCSpec

\* Whatever the history, the parameters and the commission: both engines keep
\* their accounts over every round trip, count no loss as a win, measure the
\* worst loss and never look ahead; a body that names its parameters is analysed
\* exactly if every variation can be run; the score is one of a hundred and
\* agrees with the warning (_simulate_backtest, _equity_metrics,
\* analyze_parameter_sensitivity, calculate_overfit_score).
THEOREM ReportsCorrect == MCSpec => [](ReportsFit /\ (part = "health" => Health!TypeOK))
<1>1. HealthInv => /\ Health!TypeOK
                   /\ Health!EngineFits /\ Health!RoomNeeded /\ Health!ScoreAgrees
  <2> SUFFICES ASSUME HealthInv
               PROVE  /\ Health!TypeOK
                      /\ Health!EngineFits /\ Health!RoomNeeded /\ Health!ScoreAgrees
    OBVIOUS
  <2>1. Health!HealthParameters BY MCParameters
  <2>2. config \in Health!Body BY DEF HealthInv
  <2>3. QED BY <2>1, <2>2, HealthTyped, EngineSound, RoomFits, ScoreSound
<1>2. ReportInv => ReportsFit /\ (part = "health" => Health!TypeOK)
  BY <1>1 DEF ReportInv, ReportsFit
<1>3. QED BY <1>2, ReportInvariant, PTL

\* Types, of all five parts.
THEOREM MarketTypes == MCSpec => []TypesOK
<1>1. MarketInv /\ (ReportsFit /\ (part = "health" => Health!TypeOK)) => TypesOK
  BY DEF MarketInv, AnswersInv, StreamInv, SyncInv, TypesOK
<1>2. QED BY <1>1, MarketInvariant, ReportsCorrect, PTL

-----------------------------------------------------------------------------
(* Indicators: sums and means                                              *)

\* The indicators compute with the numbers of the engine.
LEMMA ChartNumbers ==
  ASSUME NEW a, NEW b
  PROVE  /\ Charts!Frac(a, b) = Health!Frac(a, b) /\ Charts!Whole(a) = Health!Whole(a)
         /\ Charts!Plus(a, b) = Health!Plus(a, b) /\ Charts!Minus(a, b) = Health!Minus(a, b)
         /\ Charts!Times(a, b) = Health!Times(a, b) /\ (Charts!Below(a, b) <=> Health!Below(a, b))
<1>1. Charts!Gcd = Health!Gcd BY DEF Charts!Gcd, Health!Gcd
<1>2. \A n : Charts!Abs(n) = Health!Abs(n) /\ Charts!Sign(n) = Health!Sign(n)
  BY DEF Charts!Abs, Health!Abs, Charts!Sign, Health!Sign
<1>3. \A n, d : Charts!Frac(n, d) = Health!Frac(n, d) BY <1>1, <1>2 DEF Charts!Frac, Health!Frac
<1>4. Charts!Whole(a) = Health!Whole(a) BY <1>3 DEF Charts!Whole, Health!Whole
<1>5. Charts!Plus(a, b) = Health!Plus(a, b) BY <1>3 DEF Charts!Plus, Health!Plus
<1>6. Charts!Minus(a, b) = Health!Minus(a, b) BY <1>3 DEF Charts!Minus, Health!Minus
<1>7. Charts!Times(a, b) = Health!Times(a, b) BY <1>3 DEF Charts!Times, Health!Times
<1>8. Charts!Below(a, b) <=> Health!Below(a, b) BY DEF Charts!Below, Health!Below
<1>9. QED BY <1>3, <1>4, <1>5, <1>6, <1>7, <1>8

\* What holds from a day on and goes on from day to day holds to the end.
LEMMA ClimbsFrom ==
  ASSUME NEW p \in Nat, NEW n \in Nat, p <= n, NEW G, p \in G,
         \A k \in (p + 1)..n : k - 1 \in G => k \in G
  PROVE  \A k \in p..n : k \in G
<1>1. PICK m \in Nat : n = p + m
  <2>1. n - p \in Nat /\ n = p + (n - p) OBVIOUS
  <2>2. QED BY <2>1
<1>2. PICK H : H = {k \in 0..m : p + k \in G} OBVIOUS
<1>3. 0 \in H BY <1>2
<1>4. ASSUME NEW k \in 1..m, k - 1 \in H PROVE k \in H
  <2>1. p + (k - 1) \in G BY <1>2, <1>4
  <2>2. p + k \in (p + 1)..n /\ (p + k) - 1 = p + (k - 1) BY <1>1
  <2>3. p + k \in G BY <2>1, <2>2
  <2>4. QED BY <1>2, <2>3
<1>5. \A k \in 0..m : k \in H BY <1>3, <1>4, Climbs
<1>6. ASSUME NEW k \in p..n PROVE k \in G
  <2>1. k - p \in 0..m /\ p + (k - p) = k BY <1>1
  <2>2. k - p \in H BY <1>5, <2>1
  <2>3. QED BY <1>2, <2>1, <2>2
<1>7. QED BY <1>6

\* h is the sum of the first of the numbers d, for every position.
Sums(h, d, m) ==
  /\ h[0] = 0
  /\ \A k \in 1..m : h[k] = h[k - 1] + d[k]
  /\ \A k \in 0..m : h[k] \in Int

Numbers(d, m) == \A k \in 1..m : d[k] \in Int

\* The fold that adds numbers.
Added(d, m) ==
  (CHOOSE G : G = [s \in SUBSET (1..m) |-> IF s = {} THEN 0 ELSE G[s \ {Latest(s)}] + d[Latest(s)]])[1..m]

AddsUp(F, d, m) ==
  F = [s \in SUBSET (1..m) |-> IF s = {} THEN 0 ELSE F[s \ {Latest(s)}] + d[Latest(s)]]

\* There is a function that adds numbers.
LEMMA AddFold ==
  ASSUME NEW m \in Nat, NEW d, Numbers(d, m)
  PROVE  \E F \in [SUBSET (1..m) -> Int] : AddsUp(F, d, m)
<1>1. PICK step : step = [q \in Int \X (1..m) |-> q[1] + d[q[2]]] OBVIOUS
<1>2. ASSUME NEW x \in Int, NEW k \in 1..m PROVE step[<<x, k>>] = x + d[k] /\ x + d[k] \in Int
  <2>1. <<x, k>> \in Int \X (1..m) /\ <<x, k>>[1] = x /\ <<x, k>>[2] = k OBVIOUS
  <2>2. d[k] \in Int BY DEF Numbers
  <2>3. QED BY <1>1, <2>1, <2>2
<1>3. HasFold(Int, 0, step, m)
  <2>1. \A x \in Int : \A k \in 1..m : step[<<x, k>>] \in Int BY <1>2
  <2>2. PICK S, base : S = Int /\ base = 0 OBVIOUS
  <2>3. base \in S /\ \A x \in S : \A k \in 1..m : step[<<x, k>>] \in S BY <2>1, <2>2
  <2>4. HasFold(S, base, step, m) BY <2>3, FoldRuns
  <2>5. QED BY <2>2, <2>4
<1>4. PICK F \in [SUBSET (1..m) -> Int] : Folds(F, 0, step, m) BY <1>3 DEF HasFold
<1>5. ASSUME NEW s \in SUBSET (1..m), s # {} PROVE F[s] = F[s \ {Latest(s)}] + d[Latest(s)]
  <2>1. Latest(s) \in 1..m /\ s \ {Latest(s)} \in SUBSET (1..m) BY <1>5, LastIn
  <2>2. F[s \ {Latest(s)}] \in Int BY <1>4, <2>1
  <2>3. F[s] = step[<<F[s \ {Latest(s)}], Latest(s)>>] BY <1>4, <1>5 DEF Folds
  <2>4. QED BY <1>2, <2>1, <2>2, <2>3
<1>6. F[{}] = 0 BY <1>4 DEF Folds
<1>7. AddsUp(F, d, m) BY <1>4, <1>5, <1>6 DEF AddsUp
<1>8. QED BY <1>7

\* Adding up numbers gives their sum.
LEMMA AddRuns ==
  ASSUME NEW m \in Nat, NEW d, Numbers(d, m)
  PROVE  \E h : Sums(h, d, m) /\ Added(d, m) = h[m]
<1>1. PICK G : G = CHOOSE F : AddsUp(F, d, m) OBVIOUS
<1>2. AddsUp(G, d, m) BY <1>1, AddFold
<1>3. Added(d, m) = G[1..m] BY <1>1 DEF Added, AddsUp
<1>4. PICK h : h = [k \in 0..m |-> G[1..k]] OBVIOUS
<1>5. h[0] = 0
  <2>1. 1..0 = {} /\ {} \in SUBSET (1..m) /\ 0 \in 0..m OBVIOUS
  <2>2. G[{}] = 0 BY <1>2, <2>1 DEF AddsUp
  <2>3. QED BY <1>4, <2>1, <2>2
<1>6. ASSUME NEW k \in 1..m PROVE h[k] = h[k - 1] + d[k]
  <2>1. 1..k \in SUBSET (1..m) /\ 1..k # {} /\ Latest(1..k) = k /\ 1..k \ {k} = 1..(k - 1) /\ k - 1 \in 0..m
    BY LastOfFirst
  <2>2. G[1..k] = G[1..(k - 1)] + d[k] BY <1>2, <2>1 DEF AddsUp
  <2>3. k \in 0..m OBVIOUS
  <2>4. QED BY <1>4, <2>1, <2>2, <2>3
<1>7. \A k \in 0..m : h[k] \in Int
  <2>1. PICK good : good = {k \in 0..m : h[k] \in Int} OBVIOUS
  <2>2. 0 \in good BY <1>5, <2>1
  <2>3. ASSUME NEW k \in 1..m, k - 1 \in good PROVE k \in good
    <3>1. h[k - 1] \in Int /\ k \in 0..m BY <2>1, <2>3
    <3>2. d[k] \in Int BY DEF Numbers
    <3>3. h[k] \in Int BY <1>6, <3>1, <3>2
    <3>4. QED BY <2>1, <3>1, <3>3
  <2>4. \A k \in 0..m : k \in good BY <2>2, <2>3, Climbs
  <2>5. QED BY <2>1, <2>4
<1>8. Sums(h, d, m) BY <1>5, <1>6, <1>7 DEF Sums
<1>9. Added(d, m) = h[m]
  <2>1. m \in 0..m OBVIOUS
  <2>2. QED BY <1>3, <1>4, <2>1
<1>10. QED BY <1>8, <1>9

Agree(d, c, m) == \A k \in 1..m : d[k] = c[k]

\* Sums of the same numbers are the same.
LEMMA SumsSame ==
  ASSUME NEW m \in Nat, NEW n \in Nat, m <= n, NEW d, NEW c, Agree(d, c, m),
         NEW h, NEW g, Sums(h, d, m), Sums(g, c, n)
  PROVE  \A k \in 0..m : h[k] = g[k]
<1>1. PICK G : G = {k \in 0..m : h[k] = g[k]} OBVIOUS
<1>2. 0 \in G BY <1>1 DEF Sums
<1>3. ASSUME NEW k \in 1..m, k - 1 \in G PROVE k \in G
  <2>1. h[k - 1] = g[k - 1] BY <1>1, <1>3
  <2>2. h[k] = h[k - 1] + d[k] BY DEF Sums
  <2>3. k \in 1..n BY <1>3
  <2>4. g[k] = g[k - 1] + c[k] BY <2>3 DEF Sums
  <2>5. d[k] = c[k] BY DEF Agree
  <2>6. k \in 0..m OBVIOUS
  <2>7. QED BY <1>1, <2>1, <2>2, <2>4, <2>5, <2>6
<1>4. \A k \in 0..m : k \in G BY <1>2, <1>3, Climbs
<1>5. QED BY <1>1, <1>4

\* Whole numbers are added as numbers.
LEMMA WholesAdd ==
  ASSUME NEW a \in Int, NEW b \in Int
  PROVE  Health!Plus(Health!Whole(a), Health!Whole(b)) = Health!Whole(a + b)
<1>1. Health!Whole(a) = Health!Frac(a, 1) /\ Health!Whole(b) = Health!Frac(b, 1) BY WholeIs
<1>2. ScaledBy(1, 1, 1) BY DEF ScaledBy
<1>3. Health!Plus(Health!Frac(a, 1), Health!Frac(b, 1)) = Health!Frac(a * 1 + b * 1, 1) BY <1>2, SumsFrac
<1>4. a * 1 + b * 1 = a + b /\ a + b \in Int OBVIOUS
<1>5. Health!Whole(a + b) = Health!Frac(a + b, 1) BY <1>4, WholeIs
<1>6. QED BY <1>1, <1>3, <1>4, <1>5

Wholes(s, d, m) == Len(s) = m /\ \A k \in 1..m : s[k] = Health!Whole(d[k])

\* The mean of whole numbers is their sum over their number (_calculate_sma_indicator).
LEMMA MeanIs ==
  ASSUME NEW m \in Nat \ {0}, NEW d, Numbers(d, m), NEW s, Wholes(s, d, m)
  PROVE  \E h : Sums(h, d, m) /\ Charts!Mean(s) = Health!Frac(h[m], m)
<1> DEFINE raw(G) == [u \in SUBSET (1..m) |->
                        IF u = {} THEN Charts!Whole(0) ELSE Charts!Plus(G[u \ {Latest(u)}], s[Latest(u)])]
           body(G) == [u \in SUBSET (1..m) |->
                        IF u = {} THEN Health!Whole(0) ELSE Health!Plus(G[u \ {Latest(u)}], s[Latest(u)])]
<1>1. Charts!Total(s) = (CHOOSE G : G = raw(G))[1..m]
  BY DEF Charts!Total, Charts!Through, Charts!MapThenFoldSet, Latest, Wholes
<1>2. ASSUME NEW G PROVE raw(G) = body(G) BY ChartNumbers
<1>3. PICK F \in [SUBSET (1..m) -> Int] : AddsUp(F, d, m) BY AddFold
<1>4. PICK E : E = [u \in SUBSET (1..m) |-> Health!Whole(F[u])] OBVIOUS
<1>5. ASSUME NEW u \in SUBSET (1..m), u # {} PROVE E[u] = Health!Plus(E[u \ {Latest(u)}], s[Latest(u)])
  <2>1. Latest(u) \in 1..m /\ u \ {Latest(u)} \in SUBSET (1..m) BY <1>5, LastIn
  <2>2. F[u \ {Latest(u)}] \in Int /\ d[Latest(u)] \in Int BY <1>3, <2>1 DEF Numbers
  <2>3. s[Latest(u)] = Health!Whole(d[Latest(u)]) BY <2>1 DEF Wholes
  <2>4. F[u] = F[u \ {Latest(u)}] + d[Latest(u)] BY <1>3, <1>5 DEF AddsUp
  <2>5. QED BY <1>4, <2>1, <2>2, <2>3, <2>4, WholesAdd
<1>6. E[{}] = Health!Whole(0)
  <2>1. {} \in SUBSET (1..m) OBVIOUS
  <2>2. F[{}] = 0 BY <1>3, <2>1 DEF AddsUp
  <2>3. QED BY <1>4, <2>1, <2>2
<1>7. E = body(E) BY <1>4, <1>5, <1>6
<1> HIDE DEF raw, body
<1>8. PICK G : G = CHOOSE H : H = body(H) OBVIOUS
<1>9. G = body(G) BY <1>7, <1>8
<1>10. Charts!Total(s) = G[1..m]
  <2>1. (CHOOSE H : H = raw(H)) = G BY <1>2, <1>8
  <2>2. QED BY <1>1, <2>1
<1>11. PICK h : Sums(h, d, m) BY AddRuns
<1>12. PICK good : good = {k \in 0..m : G[1..k] = Health!Whole(h[k])} OBVIOUS
<1>13. 0 \in good
  <2>1. 1..0 = {} /\ {} \in SUBSET (1..m) /\ 0 \in 0..m OBVIOUS
  <2>2. G[{}] = Health!Whole(0) BY <1>9, <2>1 DEF body
  <2>3. h[0] = 0 BY <1>11 DEF Sums
  <2>4. QED BY <1>12, <2>1, <2>2, <2>3
<1>14. ASSUME NEW k \in 1..m, k - 1 \in good PROVE k \in good
  <2>1. 1..k \in SUBSET (1..m) /\ 1..k # {} /\ Latest(1..k) = k /\ 1..k \ {k} = 1..(k - 1) /\ k - 1 \in 0..m
    BY LastOfFirst
  <2>2. G[1..k] = Health!Plus(G[1..(k - 1)], s[k]) BY <1>9, <2>1 DEF body
  <2>3. G[1..(k - 1)] = Health!Whole(h[k - 1]) BY <1>12, <1>14
  <2>4. s[k] = Health!Whole(d[k]) /\ d[k] \in Int BY DEF Wholes, Numbers
  <2>5. h[k] = h[k - 1] + d[k] /\ h[k - 1] \in Int BY <1>11, <2>1 DEF Sums
  <2>6. G[1..k] = Health!Whole(h[k]) BY <2>2, <2>3, <2>4, <2>5, WholesAdd
  <2>7. k \in 0..m OBVIOUS
  <2>8. QED BY <1>12, <2>6, <2>7
<1>15. G[1..m] = Health!Whole(h[m])
  <2>1. \A k \in 0..m : k \in good BY <1>13, <1>14, Climbs
  <2>2. m \in 0..m OBVIOUS
  <2>3. QED BY <1>12, <2>1, <2>2
<1>16. Charts!Mean(s) = Health!Frac(h[m], m)
  <2>1. h[m] \in Int
    <3>1. m \in 0..m OBVIOUS
    <3>2. QED BY <1>11, <3>1 DEF Sums
  <2>2. Charts!Mean(s) = Health!Times(Health!Whole(h[m]), Health!Frac(1, m))
    BY <1>10, <1>15, ChartNumbers DEF Charts!Mean, Wholes
  <2>3. Health!Whole(h[m]) = Health!Frac(h[m], 1) BY <2>1, WholeIs
  <2>4. ScaledBy(h[m], 1, h[m]) /\ ScaledBy(1, m, m) BY <2>1 DEF ScaledBy
  <2>5. Health!Times(Health!Frac(h[m], 1), Health!Frac(1, m)) = Health!Frac(h[m], m) BY <2>1, <2>4, TimesFrac
  <2>6. QED BY <2>2, <2>3, <2>5
<1>17. QED BY <1>11, <1>16

\* v is the mean of m of the numbers x, from the one after o on.
Averaged(v, x, o, m) ==
  \E d, h : /\ \A k \in 1..m : d[k] = x[o + k]
            /\ Sums(h, d, m) /\ v = Health!Frac(h[m], m)

\* A sum lies between the multiples of the bounds of its numbers.
LEMMA SumsBound ==
  ASSUME NEW m \in Nat, NEW d, Numbers(d, m), NEW h, Sums(h, d, m), NEW b \in Int
  PROVE  /\ (\A k \in 1..m : b <= d[k]) => \A k \in 0..m : b * k <= h[k]
         /\ (\A k \in 1..m : d[k] <= b) => \A k \in 0..m : h[k] <= b * k
<1>1. ASSUME \A k \in 1..m : b <= d[k] PROVE \A k \in 0..m : b * k <= h[k]
  <2>1. PICK G : G = {k \in 0..m : b * k <= h[k]} OBVIOUS
  <2>2. 0 \in G
    <3>1. b * 0 = 0 /\ h[0] = 0 BY DEF Sums
    <3>2. QED BY <2>1, <3>1
  <2>3. ASSUME NEW k \in 1..m, k - 1 \in G PROVE k \in G
    <3>1. b * (k - 1) <= h[k - 1] /\ h[k - 1] \in Int BY <2>1, <2>3 DEF Sums
    <3>2. h[k] = h[k - 1] + d[k] /\ d[k] \in Int /\ b <= d[k] BY <1>1 DEF Sums, Numbers
    <3>3. b * k = b * (k - 1) + b /\ b * (k - 1) \in Int OBVIOUS
    <3>4. b * k <= h[k] BY <3>1, <3>2, <3>3
    <3>5. QED BY <2>1, <3>4
  <2>4. \A k \in 0..m : k \in G BY <2>2, <2>3, Climbs
  <2>5. QED BY <2>1, <2>4
<1>2. ASSUME \A k \in 1..m : d[k] <= b PROVE \A k \in 0..m : h[k] <= b * k
  <2>1. PICK G : G = {k \in 0..m : h[k] <= b * k} OBVIOUS
  <2>2. 0 \in G
    <3>1. b * 0 = 0 /\ h[0] = 0 BY DEF Sums
    <3>2. QED BY <2>1, <3>1
  <2>3. ASSUME NEW k \in 1..m, k - 1 \in G PROVE k \in G
    <3>1. h[k - 1] <= b * (k - 1) /\ h[k - 1] \in Int BY <2>1, <2>3 DEF Sums
    <3>2. h[k] = h[k - 1] + d[k] /\ d[k] \in Int /\ d[k] <= b BY <1>2 DEF Sums, Numbers
    <3>3. b * k = b * (k - 1) + b /\ b * (k - 1) \in Int OBVIOUS
    <3>4. h[k] <= b * k BY <3>1, <3>2, <3>3
    <3>5. QED BY <2>1, <3>4
  <2>4. \A k \in 0..m : k \in G BY <2>2, <2>3, Climbs
  <2>5. QED BY <2>1, <2>4
<1>3. QED BY <1>1, <1>2

AtLeast(b, x, o, m) == \A k \in 1..m : b <= x[o + k]
AtMost(b, x, o, m)  == \A k \in 1..m : x[o + k] <= b

\* A mean is between bounds of what it is of.
LEMMA MeanBetween ==
  ASSUME NEW x \in Seq(Nat), NEW o \in Nat, NEW m \in Nat \ {0}, o + m <= Len(x), NEW v, Averaged(v, x, o, m)
  PROVE  /\ v \in Health!Reduced
         /\ \A b \in Int : AtLeast(b, x, o, m) => Health!Below(Health!Whole(b), v)
         /\ \A b \in Int : AtMost(b, x, o, m) => Health!Below(v, Health!Whole(b))
<1>1. PICK d, h : /\ \A k \in 1..m : d[k] = x[o + k]
                  /\ Sums(h, d, m) /\ v = Health!Frac(h[m], m)
  BY DEF Averaged
<1>2. Numbers(d, m)
  <2>1. ASSUME NEW k \in 1..m PROVE d[k] \in Int
    <3>1. o + k \in 1..Len(x) OBVIOUS
    <3>2. QED BY <1>1, <3>1
  <2>2. QED BY <2>1 DEF Numbers
<1>3. h[m] \in Int /\ m \in 0..m BY <1>1 DEF Sums
<1>4. v \in Health!Reduced BY <1>1, <1>3, FracReduced
<1>5. ASSUME NEW b \in Int, AtLeast(b, x, o, m) PROVE Health!Below(Health!Whole(b), v)
  <2>1. \A k \in 1..m : b <= d[k] BY <1>1, <1>5 DEF AtLeast
  <2>2. b * m <= h[m] BY <1>1, <1>2, <1>3, <2>1, SumsBound
  <2>3. h[m] * 1 = h[m] BY <1>3
  <2>4. Health!Below(Health!Frac(b, 1), Health!Frac(h[m], m)) BY <1>3, <2>2, <2>3, BelowFrac
  <2>5. QED BY <1>1, <2>4, WholeIs
<1>6. ASSUME NEW b \in Int, AtMost(b, x, o, m) PROVE Health!Below(v, Health!Whole(b))
  <2>1. \A k \in 1..m : d[k] <= b BY <1>1, <1>6 DEF AtMost
  <2>2. h[m] <= b * m BY <1>1, <1>2, <1>3, <2>1, SumsBound
  <2>3. h[m] * 1 = h[m] BY <1>3
  <2>4. Health!Below(Health!Frac(h[m], m), Health!Frac(b, 1)) BY <1>3, <2>2, <2>3, BelowFrac
  <2>5. QED BY <1>1, <2>4, WholeIs
<1>7. QED BY <1>4, <1>5, <1>6

\* The fractions of one denominator are added and compared by their numerators.
LEMMA OneDenominator ==
  ASSUME NEW a \in Int, NEW b \in Int, NEW d \in Nat \ {0}
  PROVE  /\ Health!Plus(Health!Frac(a, d), Health!Frac(b, d)) = Health!Frac(a + b, d)
         /\ Health!Minus(Health!Frac(a, d), Health!Frac(b, d)) = Health!Frac(a - b, d)
         /\ Health!Below(Health!Frac(a, d), Health!Frac(b, d)) <=> a <= b
<1>1. PICK q \in Int \ {0} : q = d * d
  <2>1. d * d \in Int \ {0} BY NotZero
  <2>2. QED BY <2>1
<1>2. ScaledBy(d, d, q) /\ d \in Int \ {0} BY <1>1 DEF ScaledBy
<1>3. /\ Health!Plus(Health!Frac(a, d), Health!Frac(b, d)) = Health!Frac(a * d + b * d, q)
      /\ Health!Minus(Health!Frac(a, d), Health!Frac(b, d)) = Health!Frac(a * d - b * d, q)
  <2>1. PICK e \in Int \ {0} : e = d BY <1>2
  <2>2. ScaledBy(d, e, q) BY <1>2, <2>1
  <2>3. d \in Int \ {0} BY <1>2
  <2>4. Health!Plus(Health!Frac(a, d), Health!Frac(b, e)) = Health!Frac(a * e + b * d, q) BY <2>2, <2>3, SumsFrac
  <2>5. Health!Minus(Health!Frac(a, d), Health!Frac(b, e)) = Health!Frac(a * e - b * d, q) BY <2>2, <2>3, SumsFrac
  <2>6. QED BY <2>1, <2>4, <2>5
<1>4. a * d \in Int /\ b * d \in Int /\ a + b \in Int /\ a - b \in Int OBVIOUS
<1>5. Health!Frac(a * d + b * d, q) = Health!Frac(a + b, d)
  <2>1. a * d + b * d = (a + b) * d OBVIOUS
  <2>2. ((a + b) * d) * d = (a + b) * (d * d) OBVIOUS
  <2>3. QED BY <1>1, <1>4, <2>1, <2>2, FracSame
<1>6. Health!Frac(a * d - b * d, q) = Health!Frac(a - b, d)
  <2>1. a * d - b * d = (a - b) * d OBVIOUS
  <2>2. ((a - b) * d) * d = (a - b) * (d * d) OBVIOUS
  <2>3. QED BY <1>1, <1>4, <2>1, <2>2, FracSame
<1>7. Health!Below(Health!Frac(a, d), Health!Frac(b, d)) <=> a <= b
  <2>1. Health!Below(Health!Frac(a, d), Health!Frac(b, d)) <=> a * d <= b * d BY BelowFrac
  <2>2. QED BY <2>1, ProductOrder
<1>8. QED BY <1>3, <1>5, <1>6, <1>7

Common(x, y, w) ==
  \E d \in Nat \ {0}, a \in Int, b \in Int, c \in Int :
    x = Health!Frac(a, d) /\ y = Health!Frac(b, d) /\ w = Health!Frac(c, d)

\* Three numbers have a common denominator.
LEMMA CommonDenominator ==
  ASSUME NEW x \in Health!Reduced, NEW y \in Health!Reduced, NEW w \in Health!Reduced
  PROVE  Common(x, y, w)
<1>1. PICK n \in Int, p \in Nat \ {0} : x = Health!Frac(n, p) BY PartsOf
<1>2. PICK m \in Int, q \in Nat \ {0} : y = Health!Frac(m, q) BY PartsOf
<1>3. PICK l \in Int, r \in Nat \ {0} : w = Health!Frac(l, r) BY PartsOf
<1>4. PICK u \in Nat \ {0} : u = p * q
  <2>1. p * q \in Int \ {0} /\ p * q >= 0 BY NotZero
  <2>2. QED BY <2>1
<1>5. PICK d \in Nat \ {0} : d = u * r
  <2>1. u * r \in Int \ {0} /\ u * r >= 0 BY NotZero
  <2>2. QED BY <2>1
<1>6. q * r \in Int /\ p * r \in Int /\ n * (q * r) \in Int /\ m * (p * r) \in Int /\ l * u \in Int OBVIOUS
<1>7. Health!Frac(n, p) = Health!Frac(n * (q * r), d)
  <2>1. n * ((p * q) * r) = (n * (q * r)) * p OBVIOUS
  <2>2. QED BY <1>4, <1>5, <1>6, <2>1, FracSame
<1>8. Health!Frac(m, q) = Health!Frac(m * (p * r), d)
  <2>1. m * ((p * q) * r) = (m * (p * r)) * q OBVIOUS
  <2>2. QED BY <1>4, <1>5, <1>6, <2>1, FracSame
<1>9. Health!Frac(l, r) = Health!Frac(l * u, d)
  <2>1. l * (u * r) = (l * u) * r OBVIOUS
  <2>2. QED BY <1>5, <1>6, <2>1, FracSame
<1>10. QED BY <1>1, <1>2, <1>3, <1>6, <1>7, <1>8, <1>9 DEF Common

-----------------------------------------------------------------------------
(* Indicators: a step of an exponential mean                               *)

\* What a step of _ema_series makes of x at the value w.
Moved(x, w, s) == Health!Plus(Health!Times(Health!Minus(w, x), s), x)

Smoothing == {s \in Health!Reduced : Health!Below(Health!Whole(0), s) /\ Health!Below(s, Health!Whole(1))}

\* A step by its numerators.
LEMMA MovedIs ==
  ASSUME NEW a \in Int, NEW c \in Int, NEW d \in Nat \ {0}, NEW k \in Int, NEW e \in Nat \ {0}
  PROVE  \E q \in Nat \ {0} :
           /\ q = d * e
           /\ Moved(Health!Frac(a, d), Health!Frac(c, d), Health!Frac(k, e)) = Health!Frac(c * k + a * (e - k), q)
<1>1. PICK q \in Nat \ {0} : q = d * e
  <2>1. d * e \in Int \ {0} /\ d * e >= 0 BY NotZero
  <2>2. QED BY <2>1
<1>2. c - a \in Int /\ (c - a) * k \in Int /\ a * e \in Int OBVIOUS
<1>3. Health!Minus(Health!Frac(c, d), Health!Frac(a, d)) = Health!Frac(c - a, d) BY OneDenominator
<1>4. Health!Times(Health!Frac(c - a, d), Health!Frac(k, e)) = Health!Frac((c - a) * k, q)
  <2>1. ScaledBy(c - a, k, (c - a) * k) /\ ScaledBy(d, e, q) BY <1>1 DEF ScaledBy
  <2>2. QED BY <1>1, <1>2, <2>1, TimesFrac
<1>5. Health!Frac(a, d) = Health!Frac(a * e, q)
  <2>1. a * (d * e) = (a * e) * d OBVIOUS
  <2>2. QED BY <1>1, <1>2, <2>1, FracSame
<1>6. Health!Plus(Health!Frac((c - a) * k, q), Health!Frac(a * e, q)) = Health!Frac((c - a) * k + a * e, q)
  BY <1>2, OneDenominator
<1>7. (c - a) * k + a * e = c * k + a * (e - k) OBVIOUS
<1>8. QED BY <1>1, <1>3, <1>4, <1>5, <1>6, <1>7 DEF Moved

\* A smoothing as a fraction from 0 to 1.
LEMMA SmoothingParts ==
  ASSUME NEW s \in Smoothing, NEW t \in Smoothing
  PROVE  \E e \in Nat \ {0}, k \in Nat, l \in Nat :
           /\ k <= e /\ l <= e /\ s = Health!Frac(k, e) /\ t = Health!Frac(l, e)
           /\ Health!Below(s, t) <=> k <= l
<1>1. s \in Health!Reduced /\ t \in Health!Reduced BY DEF Smoothing
<1>2. PICK e \in Nat \ {0}, k \in Int, l \in Int : s = Health!Frac(k, e) /\ t = Health!Frac(l, e)
  <2>1. Common(s, t, s) BY <1>1, CommonDenominator
  <2>2. QED BY <2>1 DEF Common
<1>3. Health!Below(Health!Whole(0), Health!Frac(k, e)) => 0 <= k
  <2>1. Health!Below(Health!Frac(0, 1), Health!Frac(k, e)) <=> 0 * e <= k * 1 BY BelowFrac
  <2>2. QED BY <2>1, WholeIs
<1>4. Health!Below(Health!Whole(0), Health!Frac(l, e)) => 0 <= l
  <2>1. Health!Below(Health!Frac(0, 1), Health!Frac(l, e)) <=> 0 * e <= l * 1 BY BelowFrac
  <2>2. QED BY <2>1, WholeIs
<1>5. Health!Below(Health!Frac(k, e), Health!Whole(1)) => k <= e
  <2>1. Health!Below(Health!Frac(k, e), Health!Frac(1, 1)) <=> k * 1 <= 1 * e BY BelowFrac
  <2>2. QED BY <2>1, WholeIs
<1>6. Health!Below(Health!Frac(l, e), Health!Whole(1)) => l <= e
  <2>1. Health!Below(Health!Frac(l, e), Health!Frac(1, 1)) <=> l * 1 <= 1 * e BY BelowFrac
  <2>2. QED BY <2>1, WholeIs
<1>7. k \in Nat /\ l \in Nat /\ k <= e /\ l <= e BY <1>2, <1>3, <1>4, <1>5, <1>6 DEF Smoothing
<1>8. Health!Below(Health!Frac(k, e), Health!Frac(l, e)) <=> k <= l BY OneDenominator
<1>9. QED BY <1>2, <1>7, <1>8

\* A step stays where it is at the value it has, and follows both of its values.
LEMMA MovedFits ==
  ASSUME NEW x \in Health!Reduced, NEW w \in Health!Reduced, NEW s \in Smoothing
  PROVE  Moved(x, w, s) \in Health!Reduced /\ Moved(w, w, s) = w
<1>1. s \in Health!Reduced BY DEF Smoothing
<1>2. Health!Minus(w, x) \in Health!Reduced BY ResultsReduced
<1>3. Health!Times(Health!Minus(w, x), s) \in Health!Reduced BY <1>1, <1>2, ResultsReduced
<1>4. Moved(x, w, s) \in Health!Reduced BY <1>3, ResultsReduced DEF Moved
<1>5. PICK e \in Nat \ {0}, k \in Nat : k <= e /\ s = Health!Frac(k, e) BY SmoothingParts
<1>6. PICK n \in Int, d \in Nat \ {0} : w = Health!Frac(n, d) BY PartsOf
<1>7. PICK q \in Nat \ {0} : q = d * e /\ Moved(w, w, s) = Health!Frac(n * k + n * (e - k), q)
  BY <1>5, <1>6, MovedIs
<1>8. n * k + n * (e - k) = n * e /\ n * e \in Int OBVIOUS
<1>9. (n * e) * d = n * (d * e) OBVIOUS
<1>10. Health!Frac(n * e, q) = Health!Frac(n, d) BY <1>7, <1>8, <1>9, FracSame
<1>11. QED BY <1>4, <1>6, <1>7, <1>8, <1>10

\* A step follows the price it moves to and the value it moves from.
LEMMA MovedFollows ==
  ASSUME NEW x \in Health!Reduced, NEW y \in Health!Reduced, NEW v \in Health!Reduced, NEW w \in Health!Reduced,
         NEW s \in Smoothing
  PROVE  /\ Health!Below(x, y) => Health!Below(Moved(x, w, s), Moved(y, w, s))
         /\ Health!Below(v, w) => Health!Below(Moved(x, v, s), Moved(x, w, s))
<1>1. PICK e \in Nat \ {0}, k \in Nat : k <= e /\ s = Health!Frac(k, e) BY SmoothingParts
<1>2. k \in Nat /\ e - k \in Nat BY <1>1
<1>3. ASSUME Health!Below(x, y) PROVE Health!Below(Moved(x, w, s), Moved(y, w, s))
  <2>1. PICK d \in Nat \ {0}, a \in Int, b \in Int, c \in Int :
          x = Health!Frac(a, d) /\ y = Health!Frac(b, d) /\ w = Health!Frac(c, d)
    <3>1. Common(x, y, w) BY CommonDenominator
    <3>2. QED BY <3>1 DEF Common
  <2>2. PICK q \in Nat \ {0} : q = d * e /\ Moved(x, w, s) = Health!Frac(c * k + a * (e - k), q)
    BY <1>1, <2>1, MovedIs
  <2>3. Moved(y, w, s) = Health!Frac(c * k + b * (e - k), q) BY <1>1, <2>1, <2>2, MovedIs
  <2>4. a <= b BY <1>3, <2>1, OneDenominator
  <2>5. a * (e - k) <= b * (e - k) /\ a * (e - k) \in Int /\ b * (e - k) \in Int BY <1>2, <2>4, ProductOrder
  <2>6. c * k \in Int BY <1>2
  <2>7. c * k + a * (e - k) <= c * k + b * (e - k) BY <2>5, <2>6
  <2>8. c * k + a * (e - k) \in Int /\ c * k + b * (e - k) \in Int BY <2>5, <2>6
  <2>9. QED BY <2>2, <2>3, <2>7, <2>8, OneDenominator
<1>4. ASSUME Health!Below(v, w) PROVE Health!Below(Moved(x, v, s), Moved(x, w, s))
  <2>1. PICK d \in Nat \ {0}, a \in Int, b \in Int, c \in Int :
          x = Health!Frac(a, d) /\ v = Health!Frac(b, d) /\ w = Health!Frac(c, d)
    <3>1. Common(x, v, w) BY CommonDenominator
    <3>2. QED BY <3>1 DEF Common
  <2>2. PICK q \in Nat \ {0} : q = d * e /\ Moved(x, w, s) = Health!Frac(c * k + a * (e - k), q)
    BY <1>1, <2>1, MovedIs
  <2>3. Moved(x, v, s) = Health!Frac(b * k + a * (e - k), q) BY <1>1, <2>1, <2>2, MovedIs
  <2>4. b <= c BY <1>4, <2>1, OneDenominator
  <2>5. b * k <= c * k /\ b * k \in Int /\ c * k \in Int BY <1>2, <2>4, ProductOrder
  <2>6. a * (e - k) \in Int BY <1>2
  <2>7. b * k + a * (e - k) <= c * k + a * (e - k) BY <2>5, <2>6
  <2>8. PICK m \in Int, n \in Int : m = b * k + a * (e - k) /\ n = c * k + a * (e - k) BY <2>5, <2>6
  <2>9. Health!Below(Health!Frac(m, q), Health!Frac(n, q)) BY <2>7, <2>8, OneDenominator
  <2>10. QED BY <2>2, <2>3, <2>8, <2>9
<1>5. QED BY <1>3, <1>4

\* Upwards when rising, downwards when not.
Upwards(rising, x, y) == IF rising THEN Health!Below(x, y) ELSE Health!Below(y, x)

\* Of two steps towards the same value, the one that starts nearer and moves
\* faster stays nearer.
LEMMA MovedNearer ==
  ASSUME NEW rising \in BOOLEAN, NEW x \in Health!Reduced, NEW y \in Health!Reduced, NEW w \in Health!Reduced,
         NEW s \in Smoothing, NEW t \in Smoothing, Health!Below(s, t),
         Upwards(rising, x, y), Upwards(rising, y, w)
  PROVE  Upwards(rising, Moved(x, w, s), Moved(y, w, t))
<1>1. PICK e \in Nat \ {0}, k \in Nat, l \in Nat :
        k <= e /\ l <= e /\ s = Health!Frac(k, e) /\ t = Health!Frac(l, e) /\ k <= l
  BY SmoothingParts
<1>2. PICK d \in Nat \ {0}, a \in Int, b \in Int, c \in Int :
        x = Health!Frac(a, d) /\ y = Health!Frac(b, d) /\ w = Health!Frac(c, d)
  <2>1. Common(x, y, w) BY CommonDenominator
  <2>2. QED BY <2>1 DEF Common
<1>3. PICK q \in Nat \ {0} : q = d * e /\ Moved(x, w, s) = Health!Frac(c * k + a * (e - k), q)
  BY <1>1, <1>2, MovedIs
<1>4. Moved(y, w, t) = Health!Frac(c * l + b * (e - l), q) BY <1>1, <1>2, <1>3, MovedIs
<1>5. k \in Nat /\ l \in Nat /\ e - k \in Nat /\ l - k \in Nat BY <1>1
<1>6. /\ c * k \in Int /\ a * (e - k) \in Int /\ b * (e - k) \in Int /\ c * (l - k) \in Int /\ b * (l - k) \in Int
      /\ c * l + b * (e - l) \in Int
  BY <1>5
<1>7. c * l + b * (e - l) = c * k + b * (e - k) + c * (l - k) - b * (l - k) BY <1>5
<1>8. CASE rising
  <2>1. a <= b /\ b <= c BY <1>2, <1>8, OneDenominator DEF Upwards
  <2>2. a * (e - k) <= b * (e - k) /\ b * (l - k) <= c * (l - k) BY <1>5, <2>1, ProductOrder
  <2>3. c * k + a * (e - k) <= c * l + b * (e - l) BY <1>6, <1>7, <2>2
  <2>4. c * k + a * (e - k) \in Int BY <1>6
  <2>5. QED BY <1>3, <1>4, <1>6, <1>8, <2>3, <2>4, OneDenominator DEF Upwards
<1>9. CASE ~rising
  <2>1. b <= a /\ c <= b BY <1>2, <1>9, OneDenominator DEF Upwards
  <2>2. b * (e - k) <= a * (e - k) /\ c * (l - k) <= b * (l - k) BY <1>5, <2>1, ProductOrder
  <2>3. c * l + b * (e - l) <= c * k + a * (e - k) BY <1>6, <1>7, <2>2
  <2>4. c * k + a * (e - k) \in Int BY <1>6
  <2>5. QED BY <1>3, <1>4, <1>6, <1>9, <2>3, <2>4, OneDenominator DEF Upwards
<1>10. QED BY <1>8, <1>9

-----------------------------------------------------------------------------
(* Indicators: simple means                                                *)

Last(s, p) == Charts!LastOf(s, p)

\* The last prices.
LEMMA LastIs ==
  ASSUME NEW S, NEW s \in Seq(S), NEW p \in Nat \ {0}, p <= Len(s)
  PROVE  /\ Last(s, p) \in Seq(S) /\ Len(Last(s, p)) = p /\ DOMAIN Last(s, p) = 1..p
         /\ \A k \in 1..p : Last(s, p)[k] = s[Len(s) - p + k]
<1>1. Len(s) - p + 1 \in 1..(Len(s) + 1) /\ Len(s) \in (Len(s) - p + 1 - 1)..Len(s) OBVIOUS
<1>2. Last(s, p) = SubSeq(s, Len(s) - p + 1, Len(s)) BY DEF Last, Charts!LastOf
<1>3. Last(s, p) \in Seq(S) /\ Len(Last(s, p)) = Len(s) - (Len(s) - p + 1) + 1
      /\ \A k \in 1..(Len(s) - (Len(s) - p + 1) + 1) : Last(s, p)[k] = s[Len(s) - p + 1 + k - 1]
  BY <1>1, <1>2, SubSeqProperties
<1>4. Len(s) - (Len(s) - p + 1) + 1 = p OBVIOUS
<1>5. \A k \in 1..p : Len(s) - p + 1 + k - 1 = Len(s) - p + k OBVIOUS
<1>6. DOMAIN Last(s, p) = 1..p BY <1>3, <1>4
<1>7. QED BY <1>3, <1>4, <1>5, <1>6

\* Values are the whole numbers of prices.
LEMMA ValuesAre ==
  ASSUME NEW x \in Seq(Nat)
  PROVE  /\ Charts!Values(x) \in Seq(Health!Reduced) /\ Len(Charts!Values(x)) = Len(x)
         /\ \A k \in 1..Len(x) : Charts!Values(x)[k] = Health!Whole(x[k])
<1>1. Charts!Values(x) = [i \in 1..Len(x) |-> Health!Whole(x[i])] BY ChartNumbers DEF Charts!Values
<1>2. \A i \in 1..Len(x) : Health!Whole(x[i]) \in Health!Reduced BY WholeIs
<1>3. [i \in 1..Len(x) |-> Health!Whole(x[i])] \in Seq(Health!Reduced) BY <1>2, IsSequence
<1>4. QED BY <1>1, <1>3

\* The mean of some of the values, next to each other.
LEMMA MeanOf ==
  ASSUME NEW x \in Seq(Nat), NEW o \in Nat, NEW m \in Nat \ {0}, o + m <= Len(x),
         NEW s, Len(s) = m, \A k \in 1..m : s[k] = Charts!Values(x)[o + k]
  PROVE  Averaged(Charts!Mean(s), x, o, m)
<1>1. PICK d : d = [k \in 1..m |-> x[o + k]] OBVIOUS
<1>2. ASSUME NEW k \in 1..m PROVE d[k] = x[o + k] /\ d[k] \in Int /\ s[k] = Health!Whole(d[k])
  <2>1. o + k \in 1..Len(x) OBVIOUS
  <2>2. QED BY <1>1, <2>1, ValuesAre
<1>3. Numbers(d, m) /\ Wholes(s, d, m) BY <1>2 DEF Numbers, Wholes
<1>4. PICK h : Sums(h, d, m) /\ Charts!Mean(s) = Health!Frac(h[m], m) BY <1>3, MeanIs
<1>5. QED BY <1>2, <1>4 DEF Averaged

\* The simple moving average is the mean of the last prices.
LEMMA SmaIs ==
  ASSUME NEW x \in Seq(Nat), x = close, NEW p \in Nat \ {0}, p <= Len(x)
  PROVE  Averaged(Charts!Sma(p).value, x, Len(x) - p, p)
<1>1. PICK V \in Seq(Health!Reduced) : V = Charts!Values(x) /\ Len(V) = Len(x) BY ValuesAre
<1>2. PICK s : s = Last(V, p) OBVIOUS
<1>3. Len(s) = p /\ \A k \in 1..p : s[k] = Charts!Values(x)[Len(x) - p + k]
  <2>1. p <= Len(V) BY <1>1
  <2>2. Len(s) = p /\ \A k \in 1..p : s[k] = V[Len(V) - p + k] BY <1>2, <2>1, LastIs
  <2>3. QED BY <1>1, <2>2
<1>4. Len(x) - p \in Nat /\ Len(x) - p + p <= Len(x) OBVIOUS
<1>5. Averaged(Charts!Mean(s), x, Len(x) - p, p) BY <1>3, <1>4, MeanOf
<1>6. Charts!Sma(p).value = Charts!Mean(s)
  <2>1. ~(p <= 0) /\ ~(Len(x) < p) OBVIOUS
  <2>2. Charts!Sma(p) = Charts!Ok(Charts!Mean(s)) BY <1>1, <1>2, <2>1 DEF Charts!Sma, Charts!Indicator, Last
  <2>3. QED BY <2>2 DEF Charts!Ok
<1>7. QED BY <1>5, <1>6

\* Some price is the lowest, and some the highest.
LEMMA Extremes ==
  ASSUME NEW s \in Seq(Nat), s # <<>>
  PROVE  \E i, j \in 1..Len(s) : \A k \in 1..Len(s) : s[i] <= s[k] /\ s[k] <= s[j]
<1>1. PICK S : S = {s[k] : k \in 1..Len(s)} OBVIOUS
<1>2. S \in SUBSET Nat /\ \A k \in 1..Len(s) : s[k] \in S BY <1>1
<1>3. 1 \in 1..Len(s) OBVIOUS
<1>4. S # {} BY <1>2, <1>3
<1>5. PICK a \in S : \A y \in S : a <= y BY <1>2, <1>4, HasLeast
<1>6. IsFiniteSet(S)
  <2>1. IsFiniteSet(1..Len(s)) BY FS_Interval
  <2>2. PICK f : f = [k \in 1..Len(s) |-> s[k]] OBVIOUS
  <2>3. f \in Surjection(1..Len(s), S) BY <1>1, <2>2 DEF Surjection
  <2>4. QED BY <2>1, <2>3, FS_Surjection
<1>7. S \in SUBSET Int BY <1>2
<1>8. PICK b \in S : \A y \in S : y <= b BY <1>4, <1>6, <1>7, HasLast
<1>9. PICK i \in 1..Len(s) : s[i] = a BY <1>1
<1>10. PICK j \in 1..Len(s) : s[j] = b BY <1>1
<1>11. \A k \in 1..Len(s) : s[i] <= s[k] /\ s[k] <= s[j] BY <1>2, <1>5, <1>8, <1>9, <1>10
<1>12. QED BY <1>11

\* A number between bounds of the prices is between two of them.
LEMMA WithinExtremes ==
  ASSUME NEW s \in Seq(Nat), s # <<>>, NEW v,
         \A b \in Nat : AtLeast(b, s, 0, Len(s)) => Health!Below(Health!Whole(b), v),
         \A b \in Nat : AtMost(b, s, 0, Len(s)) => Health!Below(v, Health!Whole(b))
  PROVE  Charts!Within(s, v)
<1>1. PICK i \in 1..Len(s), j \in 1..Len(s) : \A k \in 1..Len(s) : s[i] <= s[k] /\ s[k] <= s[j] BY Extremes
<1>2. \A k \in 1..Len(s) : 0 + k = k OBVIOUS
<1>3. AtLeast(s[i], s, 0, Len(s)) /\ AtMost(s[j], s, 0, Len(s)) BY <1>1, <1>2 DEF AtLeast, AtMost
<1>4. s[i] \in Nat /\ s[j] \in Nat OBVIOUS
<1>5. Health!Below(Health!Whole(s[i]), v) /\ Health!Below(v, Health!Whole(s[j])) BY <1>3, <1>4
<1>6. \A n : Charts!Whole(n) = Health!Whole(n) BY ChartNumbers
<1>7. \A m, n : Charts!Below(m, n) <=> Health!Below(m, n) BY ChartNumbers
<1>8. i \in DOMAIN s /\ j \in DOMAIN s OBVIOUS
<1>9. QED BY <1>5, <1>6, <1>7, <1>8 DEF Charts!Within

\* The simple moving average is between prices it is of.
LEMMA SmaWithin ==
  ASSUME NEW x \in Seq(Nat), x = close, NEW p \in Nat \ {0}, p <= Len(x)
  PROVE  Charts!Within(Last(x, p), Charts!Sma(p).value) /\ Charts!Sma(p).value \in Health!Reduced
<1>1. PICK v : v = Charts!Sma(p).value OBVIOUS
<1>2. Averaged(v, x, Len(x) - p, p) BY <1>1, SmaIs
<1>3. Len(x) - p \in Nat /\ Len(x) - p + p <= Len(x) OBVIOUS
<1>4. PICK s \in Seq(Nat) : s = Last(x, p) /\ Len(s) = p /\ \A k \in 1..p : s[k] = x[Len(x) - p + k]
  BY LastIs
<1>5. v \in Health!Reduced BY <1>2, <1>3, MeanBetween
<1>6. \A k \in 1..p : 0 + k = k OBVIOUS
<1>7. ASSUME NEW b \in Nat, AtLeast(b, s, 0, Len(s)) PROVE Health!Below(Health!Whole(b), v)
  <2>1. AtLeast(b, x, Len(x) - p, p) BY <1>4, <1>6, <1>7 DEF AtLeast
  <2>2. b \in Int OBVIOUS
  <2>3. QED BY <1>2, <1>3, <2>1, <2>2, MeanBetween
<1>8. ASSUME NEW b \in Nat, AtMost(b, s, 0, Len(s)) PROVE Health!Below(v, Health!Whole(b))
  <2>1. AtMost(b, x, Len(x) - p, p) BY <1>4, <1>6, <1>8 DEF AtMost
  <2>2. b \in Int OBVIOUS
  <2>3. QED BY <1>2, <1>3, <2>1, <2>2, MeanBetween
<1>9. s # <<>> BY <1>4
<1>10. Charts!Within(s, v) BY <1>7, <1>8, <1>9, WithinExtremes
<1>11. QED BY <1>1, <1>4, <1>5, <1>10

\* Prices that never fall when rising, and never rise when not.
Ordered(rising, m, n) == IF rising THEN m <= n ELSE n <= m
Monotone(rising, x)   == \A i \in 1..(Len(x) - 1) : Ordered(rising, x[i], x[i + 1])

\* What is so from each price to the next is so from each to all later ones.
LEMMA MonotoneFar ==
  ASSUME NEW rising \in BOOLEAN, NEW x \in Seq(Nat), Monotone(rising, x),
         NEW i \in 1..Len(x), NEW j \in i..Len(x)
  PROVE  Ordered(rising, x[i], x[j])
<1>1. PICK n \in Nat : n = Len(x) OBVIOUS
<1>2. PICK G : G = {k \in i..n : Ordered(rising, x[i], x[k])} OBVIOUS
<1>3. i \in Nat /\ i <= n /\ \A k \in i..n : x[k] \in Nat BY <1>1
<1>4. i \in G BY <1>2, <1>3 DEF Ordered
<1>5. ASSUME NEW k \in (i + 1)..n, k - 1 \in G PROVE k \in G
  <2>1. k \in i..n /\ k - 1 \in i..n /\ k - 1 \in 1..(n - 1) /\ (k - 1) + 1 = k BY <1>3
  <2>2. Ordered(rising, x[k - 1], x[k]) BY <1>1, <2>1 DEF Monotone
  <2>3. Ordered(rising, x[i], x[k - 1]) BY <1>2, <1>5
  <2>4. x[i] \in Nat /\ x[k - 1] \in Nat /\ x[k] \in Nat BY <1>3, <2>1
  <2>5. Ordered(rising, x[i], x[k])
    <3>1. PICK u \in Nat, v \in Nat, w \in Nat : u = x[i] /\ v = x[k - 1] /\ w = x[k] BY <2>4
    <3>2. Ordered(rising, u, v) /\ Ordered(rising, v, w) BY <2>2, <2>3, <3>1
    <3>3. Ordered(rising, u, w) BY <3>2 DEF Ordered
    <3>4. QED BY <3>1, <3>3
  <2>6. QED BY <1>2, <2>1, <2>5
<1>6. \A k \in i..n : k \in G BY <1>3, <1>4, <1>5, ClimbsFrom
<1>7. QED BY <1>1, <1>2, <1>6

\* In a rise the mean of fewer of the last prices is not below that of more.
LEMMA SmaRises ==
  ASSUME NEW x \in Seq(Nat), x = close, Monotone(TRUE, x), NEW p \in Nat \ {0}, NEW q \in Nat, p < q, q <= Len(x)
  PROVE  Health!Below(Charts!Sma(q).value, Charts!Sma(p).value)
<1>1. PICK n \in Nat : n = Len(x) OBVIOUS
<1>2. PICK r \in Nat \ {0} : q = r + p
  <2>1. q - p \in Nat \ {0} /\ q = (q - p) + p OBVIOUS
  <2>2. QED BY <2>1
<1>3. q \in Nat \ {0} /\ n - q \in Nat /\ n - p \in Nat /\ n - p = (n - q) + r BY <1>1, <1>2
<1>4. PICK d, h : /\ \A k \in 1..q : d[k] = x[n - q + k]
                  /\ Sums(h, d, q) /\ Charts!Sma(q).value = Health!Frac(h[q], q)
  <2>1. Averaged(Charts!Sma(q).value, x, n - q, q) BY <1>1, <1>3, SmaIs
  <2>2. QED BY <2>1 DEF Averaged
<1>5. PICK c, g : /\ \A k \in 1..p : c[k] = x[n - p + k]
                  /\ Sums(g, c, p) /\ Charts!Sma(p).value = Health!Frac(g[p], p)
  <2>1. p <= n BY <1>1, <1>2
  <2>2. Averaged(Charts!Sma(p).value, x, n - p, p) BY <1>1, <2>1, SmaIs
  <2>3. QED BY <2>2 DEF Averaged
<1>6. PICK y \in Int : y = x[n - p + 1]
  <2>1. n - p + 1 \in 1..Len(x) BY <1>1, <1>2
  <2>2. QED BY <2>1
<1>7. \A k \in 1..q : n - q + k \in 1..n BY <1>2, <1>3
<1>8. \A k \in 1..p : n - p + k \in 1..n /\ r + k \in 1..q /\ n - q + (r + k) = n - p + k BY <1>2, <1>3
<1>9. ASSUME NEW k \in 1..r PROVE d[k] <= y
  <2>1. k \in 1..q /\ n - q + k \in 1..n /\ n - p + 1 \in (n - q + k)..n BY <1>2, <1>3
  <2>2. Ordered(TRUE, x[n - q + k], x[n - p + 1]) BY <1>1, <2>1, MonotoneFar
  <2>3. QED BY <1>4, <1>6, <2>1, <2>2 DEF Ordered
<1>10. ASSUME NEW k \in 1..p PROVE y <= c[k]
  <2>1. n - p + 1 \in 1..n /\ n - p + k \in (n - p + 1)..n BY <1>2, <1>3
  <2>2. Ordered(TRUE, x[n - p + 1], x[n - p + k]) BY <1>1, <2>1, MonotoneFar
  <2>3. QED BY <1>5, <1>6, <2>2 DEF Ordered
<1>11. Numbers(d, q) /\ Numbers(c, p)
  <2>1. \A j \in 1..n : x[j] \in Int BY <1>1
  <2>2. \A k \in 1..q : d[k] \in Int BY <1>4, <1>7, <2>1
  <2>3. \A k \in 1..p : c[k] \in Int BY <1>5, <1>8, <2>1
  <2>4. QED BY <2>2, <2>3 DEF Numbers
<1>12. Numbers(d, r) /\ Sums(h, d, r)
  <2>1. \A k \in 1..r : k \in 1..q BY <1>2
  <2>2. \A k \in 0..r : k \in 0..q BY <1>2
  <2>3. QED BY <1>4, <1>11, <2>1, <2>2 DEF Numbers, Sums
<1>13. h[r] <= y * r
  <2>1. r \in Nat /\ \A k \in 1..r : d[k] <= y BY <1>9
  <2>2. \A k \in 0..r : h[k] <= y * k BY <1>12, <2>1, SumsBound
  <2>3. r \in 0..r OBVIOUS
  <2>4. QED BY <2>2, <2>3
<1>14. y * p <= g[p]
  <2>1. p \in Nat /\ \A k \in 1..p : y <= c[k] BY <1>10
  <2>2. \A k \in 0..p : y * k <= g[k] BY <1>5, <1>11, <2>1, SumsBound
  <2>3. p \in 0..p OBVIOUS
  <2>4. QED BY <2>2, <2>3
<1>a. PICK a \in Int, b \in Int : a = h[r] /\ b = g[p]
  <2>1. r \in 0..r /\ p \in 0..p OBVIOUS
  <2>2. QED BY <1>5, <1>12, <2>1 DEF Sums
<1>15. h[q] = h[r] + g[p]
  <2>1. PICK G : G = {k \in 0..p : h[r + k] = h[r] + g[k]} OBVIOUS
  <2>2. 0 \in G
    <3>1. r + 0 = r /\ g[0] = 0 BY <1>5 DEF Sums
    <3>2. h[r] + 0 = h[r] BY <1>a
    <3>3. QED BY <2>1, <3>1, <3>2
  <2>3. ASSUME NEW k \in 1..p, k - 1 \in G PROVE k \in G
    <3>1. r + k \in 1..q /\ r + k - 1 = r + (k - 1) /\ k - 1 \in 0..p BY <1>2
    <3>2. h[r + k] = h[r + (k - 1)] + d[r + k] BY <1>4, <3>1 DEF Sums
    <3>3. g[k] = g[k - 1] + c[k] /\ g[k - 1] \in Int BY <1>5, <3>1 DEF Sums
    <3>4. d[r + k] = c[k] /\ c[k] \in Int BY <1>4, <1>5, <1>8, <1>11, <3>1 DEF Numbers
    <3>5. h[r + (k - 1)] = h[r] + g[k - 1] BY <2>1, <2>3
    <3>6. h[r + k] = h[r] + g[k]
      <4>1. PICK u \in Int, v \in Int : u = g[k - 1] /\ v = c[k] BY <3>3, <3>4
      <4>2. g[k] = u + v /\ h[r + (k - 1)] = a + u /\ h[r + k] = h[r + (k - 1)] + v
        BY <1>a, <3>2, <3>3, <3>4, <3>5, <4>1
      <4>3. (a + u) + v = a + (u + v) OBVIOUS
      <4>4. QED BY <1>a, <4>2, <4>3
    <3>7. QED BY <2>1, <3>6
  <2>4. \A k \in 0..p : k \in G BY <2>2, <2>3, Climbs
  <2>5. h[r + p] = h[r] + g[p] BY <2>1, <2>4
  <2>6. QED BY <1>2, <2>5
<1>16. h[q] * p <= g[p] * q
  <2>2. y * r \in Int /\ y * p \in Int OBVIOUS
  <2>3. a * p <= (y * r) * p BY <1>13, <1>a, <2>2, ProductOrder
  <2>4. (y * p) * r <= b * r BY <1>14, <1>a, <2>2, ProductOrder
  <2>5. (y * r) * p = (y * p) * r OBVIOUS
  <2>6. (a + b) * p = a * p + b * p OBVIOUS
  <2>7. b * (r + p) = b * r + b * p OBVIOUS
  <2>8. a * p \in Int /\ b * p \in Int /\ b * r \in Int /\ (y * r) * p \in Int OBVIOUS
  <2>9. a * p + b * p <= b * r + b * p BY <2>3, <2>4, <2>5, <2>8
  <2>10. QED BY <1>2, <1>15, <1>a, <2>6, <2>7, <2>9
<1>17. h[q] \in Int /\ g[p] \in Int BY <1>15, <1>a
<1>18. QED BY <1>3, <1>4, <1>5, <1>16, <1>17, BelowFrac

-----------------------------------------------------------------------------
(* Indicators: exponential means                                           *)

\* F is a mean as far as the day n: m to the day p, then a step a day.
Steps(F, n, v, p, m, s) == F = [i \in 0..n |-> IF i <= p THEN m ELSE Moved(F[i - 1], v[i], s)]
HasSteps(n, v, p, m, s) == \E F : Steps(F, n, v, p, m, s)

\* There is such a mean as far as every day.
LEMMA StepsRun ==
  ASSUME NEW v, NEW p \in Nat, NEW m, NEW s
  PROVE  \A n \in Nat : HasSteps(n, v, p, m, s)
<1> DEFINE B == {n \in Nat : ~HasSteps(n, v, p, m, s)}
<1>1. SUFFICES ASSUME B # {} PROVE FALSE
  OBVIOUS
<1>2. B \in SUBSET Nat /\ \A n \in Nat : n \in B <=> ~HasSteps(n, v, p, m, s) OBVIOUS
<1> HIDE DEF B
<1>3. PICK k \in B : \A j \in B : k <= j BY <1>1, <1>2, HasLeast
<1>4. k \in Nat /\ ~HasSteps(k, v, p, m, s) BY <1>2
<1>5. CASE k = 0
  <2>1. PICK F : F = [i \in 0..k |-> m] OBVIOUS
  <2>2. \A i \in 0..k : i <= p BY <1>5
  <2>3. Steps(F, k, v, p, m, s) BY <2>1, <2>2 DEF Steps
  <2>4. QED BY <1>4, <2>3 DEF HasSteps
<1>6. CASE k # 0
  <2>1. PICK j \in Nat : k = j + 1
    <3>1. k - 1 \in Nat /\ k = (k - 1) + 1 BY <1>4, <1>6
    <3>2. QED BY <3>1
  <2>2. j \notin B BY <1>3, <2>1
  <2>3. PICK F : Steps(F, j, v, p, m, s) BY <1>2, <2>2 DEF HasSteps
  <2>4. PICK G : G = [i \in 0..k |-> IF i \in 0..j THEN F[i] ELSE IF i <= p THEN m ELSE Moved(F[i - 1], v[i], s)]
    OBVIOUS
  <2>5. ASSUME NEW i \in 0..k PROVE G[i] = IF i <= p THEN m ELSE Moved(G[i - 1], v[i], s)
    <3>1. i > p => i - 1 \in 0..j /\ i - 1 \in 0..k BY <2>1
    <3>2. i > p => G[i - 1] = F[i - 1] BY <2>4, <3>1
    <3>3. CASE i \in 0..j
      <4>1. F[i] = IF i <= p THEN m ELSE Moved(F[i - 1], v[i], s) BY <2>3, <3>3 DEF Steps
      <4>2. QED BY <2>4, <3>2, <3>3, <4>1
    <3>4. CASE i \notin 0..j BY <2>4, <3>2, <3>4
    <3>5. QED BY <3>3, <3>4
  <2>6. Steps(G, k, v, p, m, s) BY <2>4, <2>5 DEF Steps
  <2>7. QED BY <1>4, <2>6 DEF HasSteps
<1>7. QED BY <1>5, <1>6

\* Such means agree as far as both go.
LEMMA StepsAgree ==
  ASSUME NEW v, NEW p \in Nat, NEW m, NEW s, NEW n \in Nat, NEW o \in Nat, NEW F, NEW G,
         Steps(F, n, v, p, m, s), Steps(G, o, v, p, m, s), NEW k \in Nat, k <= n, k <= o
  PROVE  F[k] = G[k]
<1>1. PICK S : S = {i \in 0..k : F[i] = G[i]} OBVIOUS
<1>2. ASSUME NEW i \in 0..k
      PROVE  /\ F[i] = IF i <= p THEN m ELSE Moved(F[i - 1], v[i], s)
             /\ G[i] = IF i <= p THEN m ELSE Moved(G[i - 1], v[i], s)
  <2>1. i \in 0..n /\ i \in 0..o OBVIOUS
  <2>2. QED BY <2>1 DEF Steps
<1>3. 0 \in S
  <2>1. 0 \in 0..k /\ 0 <= p OBVIOUS
  <2>2. QED BY <1>1, <1>2, <2>1
<1>4. ASSUME NEW i \in 1..k, i - 1 \in S PROVE i \in S
  <2>1. i \in 0..k /\ F[i - 1] = G[i - 1] BY <1>1, <1>4
  <2>2. QED BY <1>1, <1>2, <2>1
<1>5. \A i \in 0..k : i \in S BY <1>3, <1>4, Climbs
<1>6. k \in 0..k OBVIOUS
<1>7. QED BY <1>1, <1>5, <1>6

EndlessSteps(E, v, p, m, s) == E = [i \in Nat |-> IF i <= p THEN m ELSE Moved(E[i - 1], v[i], s)]

\* There is such a mean for all days.
LEMMA StepsGoOn ==
  ASSUME NEW v, NEW p \in Nat, NEW m, NEW s
  PROVE  \E E : EndlessSteps(E, v, p, m, s)
<1> DEFINE F(n) == CHOOSE G : Steps(G, n, v, p, m, s)
<1>1. \A n \in Nat : HasSteps(n, v, p, m, s) BY StepsRun
<1>2. ASSUME NEW n \in Nat PROVE Steps(F(n), n, v, p, m, s) BY <1>1 DEF HasSteps
<1> HIDE DEF F
<1>3. PICK E : E = [i \in Nat |-> F(i)[i]] OBVIOUS
<1>4. ASSUME NEW i \in Nat PROVE E[i] = IF i <= p THEN m ELSE Moved(E[i - 1], v[i], s)
  <2>1. i \in 0..i OBVIOUS
  <2>2. F(i)[i] = IF i <= p THEN m ELSE Moved(F(i)[i - 1], v[i], s) BY <1>2, <2>1 DEF Steps
  <2>3. CASE i <= p BY <1>3, <2>2, <2>3
  <2>4. CASE ~(i <= p)
    <3>1. PICK j \in Nat : j = i - 1 BY <2>4
    <3>2. j <= j /\ j <= i BY <3>1
    <3>3. Steps(F(j), j, v, p, m, s) /\ Steps(F(i), i, v, p, m, s) BY <1>2
    <3>4. F(j)[j] = F(i)[j] BY <3>2, <3>3, StepsAgree
    <3>5. QED BY <1>3, <2>2, <2>4, <3>1, <3>4
  <2>5. QED BY <2>3, <2>4
<1>5. EndlessSteps(E, v, p, m, s) BY <1>3, <1>4 DEF EndlessSteps
<1>6. QED BY <1>5

\* e is the exponential mean of the prices x with a period of p.
Emas(e, x, p) ==
  /\ Averaged(e[p], x, 0, p)
  /\ \A i \in (p + 1)..Len(x) : e[i] = Moved(e[i - 1], Health!Whole(x[i]), Health!Frac(2, p + 1))

\* The series is that of the exponential mean (_ema_series).
LEMMA SeriesIs ==
  ASSUME NEW x \in Seq(Nat), NEW p \in Nat \ {0}, p <= Len(x)
  PROVE  \E e : /\ Emas(e, x, p)
                /\ Charts!EmaSeries(Charts!Values(x), p) = [k \in 1..(Len(x) - p + 1) |-> e[k + p - 1]]
<1>1. PICK v \in Seq(Health!Reduced) :
        v = Charts!Values(x) /\ Len(v) = Len(x) /\ \A k \in 1..Len(x) : v[k] = Health!Whole(x[k])
  BY ValuesAre
<1>2. PICK first, m, s : first = SubSeq(v, 1, p) /\ m = Charts!Mean(first) /\ s = Charts!Frac(2, p + 1) OBVIOUS
<1> DEFINE raw(E) == [i \in Nat |-> IF i <= p THEN m
                                    ELSE Charts!Plus(Charts!Times(Charts!Minus(v[i], E[i - 1]), s), E[i - 1])]
           body(E) == [i \in Nat |-> IF i <= p THEN m ELSE Moved(E[i - 1], v[i], s)]
<1>3. ~(Len(v) < p) BY <1>1
<1>4. Charts!EmaSeries(v, p) = [k \in 1..(Len(v) - p + 1) |-> (CHOOSE E : E = raw(E))[k + p - 1]]
  BY <1>2, <1>3 DEF Charts!EmaSeries
<1>5. ASSUME NEW E PROVE raw(E) = body(E)
  <2>1. \A a, b : Charts!Minus(a, b) = Health!Minus(a, b) BY ChartNumbers
  <2>2. \A a, b : Charts!Times(a, b) = Health!Times(a, b) BY ChartNumbers
  <2>3. \A a, b : Charts!Plus(a, b) = Health!Plus(a, b) BY ChartNumbers
  <2>4. QED BY <2>1, <2>2, <2>3 DEF Moved
<1>6. \E E : E = body(E)
  <2>1. p \in Nat OBVIOUS
  <2>2. PICK E : EndlessSteps(E, v, p, m, s) BY <2>1, StepsGoOn
  <2>3. E = body(E) BY <2>2 DEF EndlessSteps
  <2>4. QED BY <2>3
<1> HIDE DEF raw, body
<1>7. PICK e : e = CHOOSE E : E = body(E) OBVIOUS
<1>8. e = body(e) BY <1>6, <1>7
<1>9. (CHOOSE E : E = raw(E)) = e BY <1>5, <1>7
<1>10. \A i \in Nat : e[i] = IF i <= p THEN m ELSE Moved(e[i - 1], v[i], s) BY <1>8 DEF body
<1>11. Averaged(e[p], x, 0, p)
  <2>1. 1 \in 1..(Len(v) + 1) /\ p \in (1 - 1)..Len(v) BY <1>1
  <2>2. Len(first) = p - 1 + 1 /\ \A k \in 1..(p - 1 + 1) : first[k] = v[1 + k - 1] BY <1>2, <2>1, SubSeqProperties
  <2>3. Len(first) = p /\ \A k \in 1..p : first[k] = Charts!Values(x)[0 + k]
    <3>1. p - 1 + 1 = p /\ \A k \in 1..p : 1 + k - 1 = k /\ 0 + k = k OBVIOUS
    <3>2. QED BY <1>1, <2>2, <3>1
  <2>4. 0 \in Nat /\ 0 + p <= Len(x) OBVIOUS
  <2>5. Averaged(m, x, 0, p) BY <1>2, <2>3, <2>4, MeanOf
  <2>6. e[p] = m BY <1>10
  <2>7. QED BY <2>5, <2>6
<1>12. s = Health!Frac(2, p + 1) BY <1>2, ChartNumbers
<1>13. ASSUME NEW i \in (p + 1)..Len(x) PROVE e[i] = Moved(e[i - 1], Health!Whole(x[i]), Health!Frac(2, p + 1))
  <2>1. i \in Nat /\ ~(i <= p) /\ i \in 1..Len(x) OBVIOUS
  <2>2. QED BY <1>1, <1>10, <1>12, <2>1
<1>14. Emas(e, x, p) BY <1>11, <1>13 DEF Emas
<1>15. QED BY <1>1, <1>4, <1>9, <1>14

\* The moving average is the last of the series.
LEMMA EmaIs ==
  ASSUME NEW x \in Seq(Nat), x = close, NEW p \in Nat \ {0}, p <= Len(x)
  PROVE  \E e : Emas(e, x, p) /\ Charts!Ema(p).value = e[Len(x)]
<1>1. PICK e : /\ Emas(e, x, p)
               /\ Charts!EmaSeries(Charts!Values(x), p) = [k \in 1..(Len(x) - p + 1) |-> e[k + p - 1]]
  BY SeriesIs
<1>2. PICK t : t = Charts!EmaSeries(Charts!Values(x), p) OBVIOUS
<1>3. PICK n \in Nat : n = Len(x) - p + 1
  <2>1. Len(x) - p + 1 \in Nat OBVIOUS
  <2>2. QED BY <2>1
<1>4. t = [k \in 1..n |-> e[k + p - 1]] /\ n \in 1..n /\ n + p - 1 = Len(x) BY <1>1, <1>2, <1>3
<1>5. Len(t) = n /\ t[n] = e[Len(x)]
  <2>1. DOMAIN t = 1..n /\ t = [k \in 1..n |-> t[k]] BY <1>4
  <2>2. Len(t) = n
    <3>1. \A k \in 1..n : t[k] \in {t[j] : j \in 1..n} OBVIOUS
    <3>2. t \in [1..n -> {t[j] : j \in 1..n}] BY <2>1, <3>1
    <3>3. QED BY <3>2, IsSequence
  <2>3. QED BY <1>4, <2>2
<1>6. ~(p <= 0) /\ ~(Len(x) < p) OBVIOUS
<1>7. Charts!Ema(p).value = t[Len(t)] BY <1>2, <1>6 DEF Charts!Ema, Charts!Indicator, Charts!Ok
<1>8. QED BY <1>1, <1>5, <1>7

\* The smoothing of a longer period is slower, and so is that of a plain mean.
LEMMA SmoothingFits ==
  ASSUME NEW p \in Nat \ {0}, NEW q \in Nat, p < q
  PROVE  /\ Health!Frac(2, p + 1) \in Smoothing /\ Health!Frac(2, q + 1) \in Smoothing
         /\ Health!Below(Health!Frac(2, q + 1), Health!Frac(2, p + 1))
         /\ Health!Frac(1, q) \in Smoothing /\ Health!Below(Health!Frac(1, q), Health!Frac(2, p + 1))
<1>1. ASSUME NEW a \in Nat, NEW b \in Nat \ {0}, a <= b PROVE Health!Frac(a, b) \in Smoothing
  <2>1. Health!Below(Health!Frac(0, 1), Health!Frac(a, b)) <=> 0 * b <= a * 1 BY BelowFrac
  <2>2. Health!Below(Health!Frac(a, b), Health!Frac(1, 1)) <=> a * 1 <= 1 * b BY BelowFrac
  <2>3. Health!Whole(0) = Health!Frac(0, 1) /\ Health!Whole(1) = Health!Frac(1, 1) BY WholeIs
  <2>4. Health!Frac(a, b) \in Health!Reduced
    <3>1. a \in Int /\ b \in Int \ {0} OBVIOUS
    <3>2. QED BY <3>1, FracReduced
  <2>5. 0 * b <= a * 1 /\ a * 1 <= 1 * b BY <1>1
  <2>6. QED BY <2>1, <2>2, <2>3, <2>4, <2>5 DEF Smoothing
<1>2. PICK u \in Nat \ {0}, v \in Nat \ {0}, w \in Nat \ {0} : u = p + 1 /\ v = q + 1 /\ w = q OBVIOUS
<1>3. 2 <= u /\ 2 <= v /\ 1 <= w BY <1>2
<1>4. Health!Frac(2, u) \in Smoothing /\ Health!Frac(2, v) \in Smoothing /\ Health!Frac(1, w) \in Smoothing
  BY <1>1, <1>3
<1>5. Health!Below(Health!Frac(2, v), Health!Frac(2, u)) <=> 2 * u <= 2 * v BY BelowFrac
<1>6. Health!Below(Health!Frac(1, w), Health!Frac(2, u)) <=> 1 * u <= 2 * w BY BelowFrac
<1>7. 2 * u <= 2 * v /\ 1 * u <= 2 * w BY <1>2
<1>8. QED BY <1>2, <1>4, <1>5, <1>6, <1>7

\* An exponential mean stays between bounds of all prices.
LEMMA EmaBetween ==
  ASSUME NEW x \in Seq(Nat), NEW p \in Nat \ {0}, p <= Len(x), NEW e, Emas(e, x, p), NEW i \in p..Len(x)
  PROVE  /\ e[i] \in Health!Reduced
         /\ \A b \in Nat : AtLeast(b, x, 0, Len(x)) => Health!Below(Health!Whole(b), e[i])
         /\ \A b \in Nat : AtMost(b, x, 0, Len(x)) => Health!Below(e[i], Health!Whole(b))
<1>1. PICK n \in Nat : n = Len(x) /\ p <= n OBVIOUS
<1>2. PICK s \in Smoothing : s = Health!Frac(2, p + 1)
  <2>1. p < p + 1 /\ p + 1 \in Nat OBVIOUS
  <2>2. QED BY <2>1, SmoothingFits
<1>3. Averaged(e[p], x, 0, p) BY DEF Emas
<1>4. 0 \in Nat /\ 0 + p <= Len(x) OBVIOUS
<1>5. \A j \in 1..n : x[j] \in Nat BY <1>1
<1>6. ASSUME NEW k \in (p + 1)..n PROVE e[k] = Moved(e[k - 1], Health!Whole(x[k]), s) /\ x[k] \in Nat
  BY <1>1, <1>2, <1>5 DEF Emas
<1>7. \A k \in p..n : e[k] \in Health!Reduced
  <2>1. PICK G : G = {k \in p..n : e[k] \in Health!Reduced} OBVIOUS
  <2>2. p \in G BY <1>1, <1>3, <1>4, <2>1, MeanBetween
  <2>3. ASSUME NEW k \in (p + 1)..n, k - 1 \in G PROVE k \in G
    <3>1. e[k - 1] \in Health!Reduced /\ k \in p..n BY <2>1, <2>3
    <3>2. x[k] \in Int BY <1>6
    <3>3. Health!Whole(x[k]) \in Health!Reduced BY <3>2, WholeIs
    <3>4. Moved(e[k - 1], Health!Whole(x[k]), s) \in Health!Reduced BY <3>1, <3>3, MovedFits
    <3>5. QED BY <1>6, <2>1, <3>1, <3>4
  <2>4. \A k \in p..n : k \in G BY <1>1, <2>2, <2>3, ClimbsFrom
  <2>5. QED BY <2>1, <2>4
<1>8. ASSUME NEW b \in Nat, AtLeast(b, x, 0, Len(x)) PROVE Health!Below(Health!Whole(b), e[i])
  <2>1. PICK w \in Health!Reduced : w = Health!Whole(b) BY WholeIs
  <2>2. PICK G : G = {k \in p..n : Health!Below(w, e[k])} OBVIOUS
  <2>3. \A k \in 1..n : b <= x[k]
    <3>1. \A k \in 1..n : 0 + k = k OBVIOUS
    <3>2. QED BY <1>1, <1>8, <3>1 DEF AtLeast
  <2>4. p \in G
    <3>1. \A k \in 1..p : k \in 1..n /\ 0 + k = k BY <1>1
    <3>2. AtLeast(b, x, 0, p) BY <2>3, <3>1 DEF AtLeast
    <3>3. b \in Int OBVIOUS
    <3>4. Health!Below(Health!Whole(b), e[p]) BY <1>3, <1>4, <3>2, <3>3, MeanBetween
    <3>5. QED BY <1>1, <2>1, <2>2, <3>4
  <2>5. ASSUME NEW k \in (p + 1)..n, k - 1 \in G PROVE k \in G
    <3>1. e[k - 1] \in Health!Reduced /\ Health!Below(w, e[k - 1]) /\ k \in p..n BY <1>7, <2>2, <2>5
    <3>2. PICK y \in Int : y = x[k] /\ b <= y BY <1>6, <2>3
    <3>3. PICK v \in Health!Reduced : v = Health!Whole(y) BY WholeIs
    <3>4. Health!Below(w, v)
      <4>1. b \in Int OBVIOUS
      <4>2. QED BY <2>1, <3>2, <3>3, <4>1, WholesCompare
    <3>5. Moved(w, w, s) = w /\ Moved(w, v, s) \in Health!Reduced /\ Moved(e[k - 1], v, s) \in Health!Reduced
      BY <3>1, MovedFits
    <3>6. Health!Below(Moved(w, w, s), Moved(w, v, s)) BY <3>4, MovedFollows
    <3>7. Health!Below(Moved(w, v, s), Moved(e[k - 1], v, s)) BY <3>1, MovedFollows
    <3>8. Health!Below(w, Moved(e[k - 1], v, s)) BY <3>5, <3>6, <3>7, BelowLaws
    <3>9. QED BY <1>6, <2>2, <3>1, <3>2, <3>3, <3>8
  <2>6. \A k \in p..n : k \in G BY <1>1, <2>4, <2>5, ClimbsFrom
  <2>7. QED BY <1>1, <2>1, <2>2, <2>6
<1>9. ASSUME NEW b \in Nat, AtMost(b, x, 0, Len(x)) PROVE Health!Below(e[i], Health!Whole(b))
  <2>1. PICK w \in Health!Reduced : w = Health!Whole(b) BY WholeIs
  <2>2. PICK G : G = {k \in p..n : Health!Below(e[k], w)} OBVIOUS
  <2>3. \A k \in 1..n : x[k] <= b
    <3>1. \A k \in 1..n : 0 + k = k OBVIOUS
    <3>2. QED BY <1>1, <1>9, <3>1 DEF AtMost
  <2>4. p \in G
    <3>1. \A k \in 1..p : k \in 1..n /\ 0 + k = k BY <1>1
    <3>2. AtMost(b, x, 0, p) BY <2>3, <3>1 DEF AtMost
    <3>3. b \in Int OBVIOUS
    <3>4. Health!Below(e[p], Health!Whole(b)) BY <1>3, <1>4, <3>2, <3>3, MeanBetween
    <3>5. QED BY <1>1, <2>1, <2>2, <3>4
  <2>5. ASSUME NEW k \in (p + 1)..n, k - 1 \in G PROVE k \in G
    <3>1. e[k - 1] \in Health!Reduced /\ Health!Below(e[k - 1], w) /\ k \in p..n BY <1>7, <2>2, <2>5
    <3>2. PICK y \in Int : y = x[k] /\ y <= b BY <1>6, <2>3
    <3>3. PICK v \in Health!Reduced : v = Health!Whole(y) BY WholeIs
    <3>4. Health!Below(v, w)
      <4>1. b \in Int OBVIOUS
      <4>2. QED BY <2>1, <3>2, <3>3, <4>1, WholesCompare
    <3>5. Moved(w, w, s) = w /\ Moved(w, v, s) \in Health!Reduced /\ Moved(e[k - 1], v, s) \in Health!Reduced
      BY <3>1, MovedFits
    <3>6. Health!Below(Moved(w, v, s), Moved(w, w, s)) BY <3>4, MovedFollows
    <3>7. Health!Below(Moved(e[k - 1], v, s), Moved(w, v, s)) BY <3>1, MovedFollows
    <3>8. Health!Below(Moved(e[k - 1], v, s), w) BY <3>5, <3>6, <3>7, BelowLaws
    <3>9. QED BY <1>6, <2>2, <3>1, <3>2, <3>3, <3>8
  <2>6. \A k \in p..n : k \in G BY <1>1, <2>4, <2>5, ClimbsFrom
  <2>7. QED BY <1>1, <2>1, <2>2, <2>6
<1>10. QED BY <1>1, <1>7, <1>8, <1>9

\* While prices rise an exponential mean is not above the last of them, while
\* they fall not below.
LEMMA EmaBehind ==
  ASSUME NEW rising \in BOOLEAN, NEW x \in Seq(Nat), Monotone(rising, x), NEW p \in Nat \ {0}, p <= Len(x),
         NEW e, Emas(e, x, p), NEW i \in p..Len(x)
  PROVE  Upwards(rising, e[i], Health!Whole(x[i]))
<1>1. PICK n \in Nat : n = Len(x) /\ p <= n OBVIOUS
<1>2. PICK s \in Smoothing : s = Health!Frac(2, p + 1)
  <2>1. p < p + 1 /\ p + 1 \in Nat OBVIOUS
  <2>2. QED BY <2>1, SmoothingFits
<1>3. \A j \in 1..n : x[j] \in Nat BY <1>1
<1>4. PICK G : G = {k \in p..n : Upwards(rising, e[k], Health!Whole(x[k]))} OBVIOUS
<1>5. p \in G
  <2>1. Averaged(e[p], x, 0, p) BY DEF Emas
  <2>2. 0 \in Nat /\ 0 + p <= Len(x) OBVIOUS
  <2>3. PICK b \in Int : b = x[p] BY <1>1, <1>3
  <2>4. ASSUME NEW k \in 1..p PROVE Ordered(rising, x[0 + k], b)
    <3>1. k \in 1..Len(x) /\ p \in k..Len(x) /\ 0 + k = k BY <1>1
    <3>2. QED BY <2>3, <3>1, MonotoneFar
  <2>5. CASE rising
    <3>1. AtMost(b, x, 0, p) BY <2>4, <2>5 DEF Ordered, AtMost
    <3>2. Health!Below(e[p], Health!Whole(b)) BY <2>1, <2>2, <3>1, MeanBetween
    <3>3. QED BY <1>1, <1>4, <2>3, <2>5, <3>2 DEF Upwards
  <2>6. CASE ~rising
    <3>1. AtLeast(b, x, 0, p) BY <2>4, <2>6 DEF Ordered, AtLeast
    <3>2. Health!Below(Health!Whole(b), e[p]) BY <2>1, <2>2, <3>1, MeanBetween
    <3>3. QED BY <1>1, <1>4, <2>3, <2>6, <3>2 DEF Upwards
  <2>7. QED BY <2>5, <2>6
<1>6. ASSUME NEW k \in (p + 1)..n, k - 1 \in G PROVE k \in G
  <2>1. k \in p..n /\ k - 1 \in p..n /\ k - 1 \in 1..(n - 1) /\ (k - 1) + 1 = k /\ k \in 1..n BY <1>1
  <2>2. PICK a \in Int, b \in Int : a = x[k - 1] /\ b = x[k]
    <3>1. k - 1 \in 1..n BY <2>1
    <3>2. x[k - 1] \in Int /\ x[k] \in Int BY <1>3, <2>1, <3>1
    <3>3. QED BY <3>2
  <2>3. PICK v \in Health!Reduced, w \in Health!Reduced : v = Health!Whole(a) /\ w = Health!Whole(b) BY WholeIs
  <2>4. PICK y \in Health!Reduced : y = e[k - 1] BY <1>1, <2>1, EmaBetween
  <2>5. Upwards(rising, y, v) BY <1>4, <1>6, <2>2, <2>3, <2>4
  <2>6. Ordered(rising, a, b) BY <1>1, <2>1, <2>2 DEF Monotone
  <2>7. Upwards(rising, v, w)
    <3>1. (Health!Below(v, w) <=> a <= b) /\ (Health!Below(w, v) <=> b <= a) BY <2>3, WholesCompare
    <3>2. QED BY <2>6, <3>1 DEF Ordered, Upwards
  <2>8. Upwards(rising, y, w) BY <2>5, <2>7, BelowLaws DEF Upwards
  <2>9. Moved(w, w, s) = w BY MovedFits
  <2>10. Upwards(rising, Moved(y, w, s), Moved(w, w, s)) BY <2>8, MovedFollows DEF Upwards
  <2>11. e[k] = Moved(y, w, s) BY <1>1, <1>2, <2>2, <2>3, <2>4 DEF Emas
  <2>12. QED BY <1>4, <2>1, <2>2, <2>3, <2>9, <2>10, <2>11
<1>7. \A k \in p..n : k \in G BY <1>1, <1>5, <1>6, ClimbsFrom
<1>8. QED BY <1>1, <1>4, <1>7

\* A plain mean moves to the next price by its share of the prices.
LEMMA MeanMoves ==
  ASSUME NEW a \in Int, NEW c \in Int, NEW j \in Nat \ {0}
  PROVE  Moved(Health!Frac(a, j), Health!Whole(c), Health!Frac(1, j + 1)) = Health!Frac(a + c, j + 1)
<1>1. PICK b \in Int : b = c * j OBVIOUS
<1>2. Health!Whole(c) = Health!Frac(b, j)
  <2>1. c * j = b * 1 /\ 1 \in Int \ {0} /\ j \in Int \ {0} BY <1>1
  <2>2. Health!Frac(c, 1) = Health!Frac(b, j) BY <2>1, FracSame
  <2>3. QED BY <2>2, WholeIs
<1>3. PICK e \in Nat \ {0}, one \in Int : e = j + 1 /\ one = 1
  <2>1. j + 1 \in Nat \ {0} OBVIOUS
  <2>2. QED BY <2>1
<1>4. PICK q \in Nat \ {0} :
        q = j * e /\ Moved(Health!Frac(a, j), Health!Frac(b, j), Health!Frac(one, e)) = Health!Frac(b * one + a * (e - one), q)
  BY MovedIs
<1>5. b * one + a * (e - one) = (a + c) * j BY <1>1, <1>3
<1>6. Health!Frac((a + c) * j, q) = Health!Frac(a + c, e)
  <2>1. ((a + c) * j) * e = (a + c) * (j * e) OBVIOUS
  <2>2. (a + c) * j \in Int /\ a + c \in Int /\ q \in Int \ {0} /\ e \in Int \ {0} OBVIOUS
  <2>3. QED BY <1>4, <2>1, <2>2, FracSame
<1>7. QED BY <1>2, <1>3, <1>4, <1>5, <1>6

\* While prices rise the mean of all is not above an exponential mean of them,
\* while they fall not below.
LEMMA MeanBehind ==
  ASSUME NEW rising \in BOOLEAN, NEW x \in Seq(Nat), Monotone(rising, x), NEW p \in Nat \ {0}, p <= Len(x),
         NEW e, Emas(e, x, p), NEW i \in p..Len(x), NEW v, Averaged(v, x, 0, i)
  PROVE  Upwards(rising, v, e[i])
<1>1. PICK n \in Nat : n = Len(x) /\ p <= n OBVIOUS
<1>2. PICK s \in Smoothing : s = Health!Frac(2, p + 1)
  <2>1. p < p + 1 /\ p + 1 \in Nat OBVIOUS
  <2>2. QED BY <2>1, SmoothingFits
<1>3. \A j \in 1..n : x[j] \in Int BY <1>1
<1>4. PICK h : Sums(h, x, n)
  <2>1. Numbers(x, n) BY <1>3 DEF Numbers
  <2>2. QED BY <2>1, AddRuns
<1>5. \A j \in 0..n : h[j] \in Int BY <1>4 DEF Sums
<1>6. ASSUME NEW j \in 1..n, NEW w, Averaged(w, x, 0, j) PROVE w = Health!Frac(h[j], j)
  <2>1. PICK d, g : (\A k \in 1..j : d[k] = x[0 + k]) /\ Sums(g, d, j) /\ w = Health!Frac(g[j], j)
    BY <1>6 DEF Averaged
  <2>2. \A k \in 1..j : 0 + k = k OBVIOUS
  <2>3. Agree(d, x, j) BY <2>1, <2>2 DEF Agree
  <2>4. j \in Nat /\ j <= n /\ j \in 0..j OBVIOUS
  <2>5. \A k \in 0..j : g[k] = h[k] BY <1>4, <2>1, <2>3, <2>4, SumsSame
  <2>6. QED BY <2>1, <2>4, <2>5
<1>7. \A k \in p..n : e[k] \in Health!Reduced BY <1>1, EmaBetween
<1>8. PICK G : G = {k \in p..n : Upwards(rising, Health!Frac(h[k], k), e[k])} OBVIOUS
<1>9. p \in G
  <2>1. Averaged(e[p], x, 0, p) /\ p \in 1..n /\ p \in p..n BY <1>1 DEF Emas
  <2>2. e[p] = Health!Frac(h[p], p) /\ e[p] \in Health!Reduced BY <1>6, <1>7, <2>1
  <2>3. Upwards(rising, e[p], e[p]) BY <2>2, BelowLaws DEF Upwards
  <2>4. QED BY <1>8, <2>1, <2>2, <2>3
<1>10. ASSUME NEW k \in (p + 1)..n, k - 1 \in G PROVE k \in G
  <2>1. k \in p..n /\ k - 1 \in p..n /\ k \in 1..n /\ k \in 0..n /\ k - 1 \in 0..n /\ k \in Nat BY <1>1
  <2>2. PICK j \in Nat \ {0} : j = k - 1 /\ k = j + 1 BY <2>1
  <2>3. PICK a \in Int, c \in Int : a = h[j] /\ c = x[k]
    <3>1. h[j] \in Int /\ x[k] \in Int BY <1>3, <1>5, <2>1, <2>2
    <3>2. QED BY <3>1
  <2>4. h[k] = a + c BY <1>4, <2>1, <2>2, <2>3 DEF Sums
  <2>5. PICK y \in Health!Reduced, w \in Health!Reduced, m \in Health!Reduced :
          y = e[j] /\ w = Health!Whole(c) /\ m = Health!Frac(a, j)
    <3>1. e[j] \in Health!Reduced BY <1>7, <2>1, <2>2
    <3>2. Health!Whole(c) \in Health!Reduced BY WholeIs
    <3>3. j \in Int \ {0} OBVIOUS
    <3>4. Health!Frac(a, j) \in Health!Reduced BY <3>3, FracReduced
    <3>5. QED BY <3>1, <3>2, <3>4
  <2>6. Upwards(rising, m, y) BY <1>8, <1>10, <2>2, <2>3, <2>5
  <2>7. Upwards(rising, y, w)
    <3>1. Upwards(rising, e[k - 1], Health!Whole(x[k - 1])) BY <1>1, <2>1, EmaBehind
    <3>2. k - 1 \in 1..(n - 1) /\ (k - 1) + 1 = k /\ k - 1 \in 1..n BY <1>1, <2>1
    <3>3. PICK b \in Int : b = x[k - 1] BY <1>3, <3>2
    <3>4. Ordered(rising, b, c) BY <1>1, <2>3, <3>2, <3>3 DEF Monotone
    <3>5. PICK u \in Health!Reduced : u = Health!Whole(b) BY WholeIs
    <3>6. Upwards(rising, u, w)
      <4>1. (Health!Below(u, w) <=> b <= c) /\ (Health!Below(w, u) <=> c <= b) BY <2>5, <3>5, WholesCompare
      <4>2. QED BY <3>4, <4>1 DEF Ordered, Upwards
    <3>7. Upwards(rising, y, u) BY <2>2, <2>5, <3>1, <3>3, <3>5
    <3>8. QED BY <3>6, <3>7, BelowLaws DEF Upwards
  <2>8. PICK t \in Smoothing : t = Health!Frac(1, k) /\ Health!Below(t, s)
    <3>1. p < k BY <2>1
    <3>2. QED BY <1>2, <2>1, <3>1, SmoothingFits
  <2>9. Upwards(rising, Moved(m, w, t), Moved(y, w, s)) BY <2>6, <2>7, <2>8, MovedNearer
  <2>10. Moved(m, w, t) = Health!Frac(h[k], k) BY <2>2, <2>4, <2>5, <2>8, MeanMoves
  <2>11. Moved(y, w, s) = e[k] BY <1>1, <1>2, <2>2, <2>3, <2>5 DEF Emas
  <2>12. QED BY <1>8, <2>1, <2>9, <2>10, <2>11
<1>11. \A k \in p..n : k \in G BY <1>1, <1>9, <1>10, ClimbsFrom
<1>12. i \in 1..n BY <1>1
<1>13. v = Health!Frac(h[i], i) BY <1>6, <1>12
<1>14. QED BY <1>1, <1>8, <1>11, <1>13

\* Of two exponential means that of the shorter period follows prices that rise,
\* or fall, more closely.
LEMMA EmaFollows ==
  ASSUME NEW rising \in BOOLEAN, NEW x \in Seq(Nat), Monotone(rising, x), NEW p \in Nat \ {0}, NEW q \in Nat,
         p < q, q <= Len(x), NEW e, Emas(e, x, p), NEW f, Emas(f, x, q), NEW i \in q..Len(x)
  PROVE  Upwards(rising, f[i], e[i])
<1>1. PICK n \in Nat : n = Len(x) /\ p <= n /\ q <= n OBVIOUS
<1>2. PICK s \in Smoothing, t \in Smoothing :
        s = Health!Frac(2, q + 1) /\ t = Health!Frac(2, p + 1) /\ Health!Below(s, t)
  BY SmoothingFits
<1>3. q \in Nat \ {0} OBVIOUS
<1>4. \A k \in p..n : e[k] \in Health!Reduced BY <1>1, EmaBetween
<1>5. \A k \in q..n : f[k] \in Health!Reduced BY <1>1, <1>3, EmaBetween
<1>6. \A j \in 1..n : x[j] \in Int BY <1>1
<1>7. PICK G : G = {k \in q..n : Upwards(rising, f[k], e[k])} OBVIOUS
<1>8. q \in G
  <2>1. Averaged(f[q], x, 0, q) BY DEF Emas
  <2>2. q \in p..Len(x) BY <1>1
  <2>3. Upwards(rising, f[q], e[q]) BY <1>1, <2>1, <2>2, MeanBehind
  <2>4. QED BY <1>1, <1>7, <2>3
<1>9. ASSUME NEW k \in (q + 1)..n, k - 1 \in G PROVE k \in G
  <2>1. k \in q..n /\ k - 1 \in q..n /\ k - 1 \in p..n /\ k \in 1..n /\ k \in (p + 1)..n BY <1>1
  <2>2. PICK c \in Int : c = x[k] BY <1>6, <2>1
  <2>3. PICK w \in Health!Reduced, y \in Health!Reduced, z \in Health!Reduced :
          w = Health!Whole(c) /\ y = f[k - 1] /\ z = e[k - 1]
    <3>1. f[k - 1] \in Health!Reduced /\ e[k - 1] \in Health!Reduced BY <1>4, <1>5, <2>1
    <3>2. Health!Whole(c) \in Health!Reduced BY WholeIs
    <3>3. QED BY <3>1, <3>2
  <2>4. Upwards(rising, y, z) BY <1>7, <1>9, <2>3
  <2>5. Upwards(rising, z, w)
    <3>1. Upwards(rising, e[k - 1], Health!Whole(x[k - 1])) BY <1>1, <2>1, EmaBehind
    <3>2. k - 1 \in 1..(n - 1) /\ (k - 1) + 1 = k /\ k - 1 \in 1..n BY <1>1, <2>1
    <3>3. PICK b \in Int : b = x[k - 1] BY <1>6, <3>2
    <3>4. Ordered(rising, b, c) BY <1>1, <2>2, <3>2, <3>3 DEF Monotone
    <3>5. PICK u \in Health!Reduced : u = Health!Whole(b) BY WholeIs
    <3>6. Upwards(rising, u, w)
      <4>1. (Health!Below(u, w) <=> b <= c) /\ (Health!Below(w, u) <=> c <= b) BY <2>3, <3>5, WholesCompare
      <4>2. QED BY <3>4, <4>1 DEF Ordered, Upwards
    <3>7. Upwards(rising, z, u) BY <2>3, <3>1, <3>3, <3>5
    <3>8. QED BY <3>6, <3>7, BelowLaws DEF Upwards
  <2>6. Upwards(rising, Moved(y, w, s), Moved(z, w, t)) BY <1>2, <2>4, <2>5, MovedNearer
  <2>7. f[k] = Moved(y, w, s) BY <1>1, <1>2, <2>2, <2>3 DEF Emas
  <2>8. e[k] = Moved(z, w, t) BY <1>1, <1>2, <2>1, <2>2, <2>3 DEF Emas
  <2>9. QED BY <1>7, <2>1, <2>6, <2>7, <2>8
<1>10. \A k \in q..n : k \in G BY <1>1, <1>8, <1>9, ClimbsFrom
<1>11. QED BY <1>1, <1>7, <1>10

\* The moving averages are what they should be of.
LEMMA AveragesHold ==
  ASSUME NEW x \in Seq(Nat), x = close, Periods \subseteq Int
  PROVE  Charts!AveragesFit
<1>1. ASSUME NEW p \in Nat \ {0}, p <= Len(x)
      PROVE  /\ Charts!Within(Charts!LastOf(x, p), Charts!Sma(p).value) /\ Charts!Within(x, Charts!Ema(p).value)
             /\ p = Len(x) => Charts!Sma(p).value = Charts!Ema(p).value
  <2>1. Charts!Within(Charts!LastOf(x, p), Charts!Sma(p).value) BY <1>1, SmaWithin DEF Last
  <2>2. PICK e : Emas(e, x, p) /\ Charts!Ema(p).value = e[Len(x)] BY <1>1, EmaIs
  <2>3. Len(x) \in p..Len(x) /\ x # <<>> BY <1>1
  <2>4. Charts!Within(x, Charts!Ema(p).value)
    <3>1. /\ \A b \in Nat : AtLeast(b, x, 0, Len(x)) => Health!Below(Health!Whole(b), e[Len(x)])
          /\ \A b \in Nat : AtMost(b, x, 0, Len(x)) => Health!Below(e[Len(x)], Health!Whole(b))
      BY <1>1, <2>2, <2>3, EmaBetween
    <3>2. QED BY <2>2, <2>3, <3>1, WithinExtremes
  <2>5. ASSUME p = Len(x) PROVE Charts!Sma(p).value = Charts!Ema(p).value
    <3>1. Averaged(Charts!Sma(p).value, x, 0, p)
      <4>1. Len(x) - p = 0 BY <2>5
      <4>2. Averaged(Charts!Sma(p).value, x, Len(x) - p, p) BY <1>1, SmaIs
      <4>3. QED BY <4>1, <4>2
    <3>2. Averaged(e[p], x, 0, p) BY <2>2 DEF Emas
    <3>3. PICK d, h : (\A k \in 1..p : d[k] = x[0 + k]) /\ Sums(h, d, p) /\ Charts!Sma(p).value = Health!Frac(h[p], p)
      BY <3>1 DEF Averaged
    <3>4. PICK c, g : (\A k \in 1..p : c[k] = x[0 + k]) /\ Sums(g, c, p) /\ e[p] = Health!Frac(g[p], p)
      BY <3>2 DEF Averaged
    <3>5. Agree(d, c, p) BY <3>3, <3>4 DEF Agree
    <3>6. p \in Nat /\ p <= p /\ p \in 0..p OBVIOUS
    <3>7. \A k \in 0..p : h[k] = g[k] BY <3>3, <3>4, <3>5, <3>6, SumsSame
    <3>8. QED BY <2>2, <2>5, <3>3, <3>4, <3>6, <3>7
  <2>6. QED BY <2>1, <2>4, <2>5
<1>2. ASSUME NEW p \in Nat \ {0}, NEW q \in Nat, p < q, q <= Len(x), Monotone(TRUE, x)
      PROVE  /\ Charts!Below(Charts!Sma(q).value, Charts!Sma(p).value)
             /\ Charts!Below(Charts!Ema(q).value, Charts!Ema(p).value)
  <2>1. Health!Below(Charts!Sma(q).value, Charts!Sma(p).value) BY <1>2, SmaRises
  <2>2. PICK e : Emas(e, x, p) /\ Charts!Ema(p).value = e[Len(x)]
    <3>1. p <= Len(x) BY <1>2
    <3>2. QED BY <3>1, EmaIs
  <2>3. PICK f : Emas(f, x, q) /\ Charts!Ema(q).value = f[Len(x)]
    <3>1. q \in Nat \ {0} BY <1>2
    <3>2. QED BY <1>2, <3>1, EmaIs
  <2>4. Len(x) \in q..Len(x) /\ TRUE \in BOOLEAN BY <1>2
  <2>5. Upwards(TRUE, f[Len(x)], e[Len(x)]) BY <1>2, <2>2, <2>3, <2>4, EmaFollows
  <2>6. Health!Below(Charts!Ema(q).value, Charts!Ema(p).value) BY <2>2, <2>3, <2>5 DEF Upwards
  <2>7. QED BY <2>1, <2>6, ChartNumbers
<1>3. ASSUME \A i \in 1..(Len(x) - 1) : x[i] <= x[i + 1] PROVE Monotone(TRUE, x)
  BY <1>3 DEF Monotone, Ordered
<1>4. ASSUME NEW p \in Periods, p > 0 PROVE p \in Nat \ {0} BY <1>4
<1>5. ASSUME NEW q \in Periods, NEW p \in Nat \ {0}, p < q PROVE q \in Nat BY <1>5
<1>6. QED BY <1>1, <1>2, <1>3, <1>4, <1>5 DEF Charts!AveragesFit

-----------------------------------------------------------------------------
(* Indicators: convergence                                                 *)

\* The line ends with the difference of two moving averages.
LEMMA LineIs ==
  ASSUME NEW x \in Seq(Nat), x = close, NEW f \in Nat \ {0}, NEW s \in Nat \ {0}, f < s, s <= Len(x)
  PROVE  \E e, h, l : /\ Emas(e, x, f) /\ Emas(h, x, s)
                      /\ l = Charts!MacdLine(f, s) /\ l[Len(l)] = Health!Minus(e[Len(x)], h[Len(x)])
<1>1. f <= Len(x) OBVIOUS
<1>2. PICK e : /\ Emas(e, x, f)
               /\ Charts!EmaSeries(Charts!Values(x), f) = [k \in 1..(Len(x) - f + 1) |-> e[k + f - 1]]
  BY <1>1, SeriesIs
<1>3. PICK h : /\ Emas(h, x, s)
               /\ Charts!EmaSeries(Charts!Values(x), s) = [k \in 1..(Len(x) - s + 1) |-> h[k + s - 1]]
  BY SeriesIs
<1>4. PICK n \in Nat \ {0} : n = Len(x) - s + 1
  <2>1. Len(x) - s + 1 \in Nat \ {0} OBVIOUS
  <2>2. QED BY <2>1
<1>5. PICK a, b : a = Charts!EmaSeries(Charts!Values(x), f) /\ b = Charts!EmaSeries(Charts!Values(x), s) OBVIOUS
<1>6. DOMAIN b = 1..n /\ b = [k \in 1..n |-> h[k + s - 1]] BY <1>3, <1>4, <1>5
<1>7. PICK l : l = Charts!MacdLine(f, s) OBVIOUS
<1>8. l = [k \in 1..n |-> Charts!Minus(a[k + s - f], b[k])] BY <1>5, <1>6, <1>7 DEF Charts!MacdLine
<1>9. Len(l) = n
  <2>1. PICK T : T = {l[k] : k \in 1..n} OBVIOUS
  <2>2. \A k \in 1..n : l[k] \in T BY <2>1
  <2>3. l \in [1..n -> T] BY <1>8, <2>2
  <2>4. QED BY <2>3, IsSequence
<1>10. n \in 1..n /\ n + s - f \in 1..(Len(x) - f + 1) /\ n + s - 1 = Len(x) /\ (n + s - f) + f - 1 = Len(x) BY <1>4
<1>11. a[n + s - f] = e[Len(x)] BY <1>2, <1>5, <1>10
<1>12. b[n] = h[Len(x)] BY <1>6, <1>10
<1>13. l[n] = Charts!Minus(e[Len(x)], h[Len(x)]) BY <1>8, <1>10, <1>11, <1>12
<1>14. l[Len(l)] = Health!Minus(e[Len(x)], h[Len(x)]) BY <1>9, <1>13, ChartNumbers
<1>15. QED BY <1>2, <1>3, <1>7, <1>14

\* What is returned of the line.
LEMMA MacdIs ==
  ASSUME NEW f, NEW s, NEW g, ~(f <= 0), ~(s <= 0), ~(g <= 0), ~(f >= s), NEW l, l = Charts!MacdLine(f, s)
  PROVE  LET m == Charts!Macd(f, s, g) IN
         /\ m.status = "ok" <=> ~(Len(close) < s)
         /\ ~(Len(close) < s) => m.value = l[Len(l)]
<1>1. CASE Len(close) < s
  BY <1>1 DEF Charts!Macd, Charts!Insufficient, Charts!WithHistogram
<1>2. CASE ~(Len(close) < s)
  BY <1>2 DEF Charts!Macd, Charts!Ok, Charts!WithHistogram
<1>3. QED BY <1>1, <1>2

\* Convergence has the sign of a steady rise or fall.
LEMMA ConvergenceHolds ==
  ASSUME NEW x \in Seq(Nat), x = close, Periods \subseteq Int
  PROVE  Charts!ConvergenceFits
<1>1. ASSUME NEW f \in Nat \ {0}, NEW s \in Nat \ {0}, NEW g, ~(g <= 0), f < s, s <= Len(x)
      PROVE  /\ Monotone(TRUE, x) => Charts!Below(Charts!Whole(0), Charts!Macd(f, s, g).value)
             /\ Monotone(FALSE, x) => Charts!Below(Charts!Macd(f, s, g).value, Charts!Whole(0))
  <2>1. PICK e, h, l : /\ Emas(e, x, f) /\ Emas(h, x, s)
                       /\ l = Charts!MacdLine(f, s) /\ l[Len(l)] = Health!Minus(e[Len(x)], h[Len(x)])
    BY <1>1, LineIs
  <2>2. PICK v : v = Charts!Macd(f, s, g).value OBVIOUS
  <2>3. v = Health!Minus(e[Len(x)], h[Len(x)])
    <3>1. ~(f <= 0) /\ ~(s <= 0) /\ ~(f >= s) /\ ~(Len(close) < s) BY <1>1
    <3>2. Charts!Macd(f, s, g).value = l[Len(l)] BY <1>1, <2>1, <3>1, MacdIs
    <3>3. QED BY <2>1, <2>2, <3>2
  <2>4. PICK a \in Health!Reduced, b \in Health!Reduced : a = e[Len(x)] /\ b = h[Len(x)]
    <3>1. Len(x) \in f..Len(x) /\ Len(x) \in s..Len(x) /\ f <= Len(x) BY <1>1
    <3>2. e[Len(x)] \in Health!Reduced BY <2>1, <3>1, EmaBetween
    <3>3. h[Len(x)] \in Health!Reduced BY <1>1, <2>1, <3>1, EmaBetween
    <3>4. QED BY <3>2, <3>3
  <2>5. v \in Health!Reduced BY <2>3, <2>4, ResultsReduced
  <2>6. Len(x) \in s..Len(x) BY <1>1
  <2>7. ASSUME Monotone(TRUE, x) PROVE Health!Below(Health!Whole(0), v)
    <3>1. TRUE \in BOOLEAN OBVIOUS
    <3>2. Upwards(TRUE, h[Len(x)], e[Len(x)]) BY <1>1, <2>1, <2>6, <2>7, <3>1, EmaFollows
    <3>3. Health!Below(b, a) BY <2>4, <3>2 DEF Upwards
    <3>4. v.num >= 0 BY <2>3, <2>4, <3>3, SignMinus
    <3>5. QED BY <2>5, <3>4, SignBelow
  <2>8. ASSUME Monotone(FALSE, x) PROVE Health!Below(v, Health!Whole(0))
    <3>1. FALSE \in BOOLEAN OBVIOUS
    <3>2. Upwards(FALSE, h[Len(x)], e[Len(x)]) BY <1>1, <2>1, <2>6, <2>8, <3>1, EmaFollows
    <3>3. Health!Below(a, b) BY <2>4, <3>2 DEF Upwards
    <3>4. ~(v.num > 0)
      <4>1. ~Health!Above(a, b) BY <3>3 DEF Health!Above
      <4>2. QED BY <2>3, <2>4, <4>1, SignMinus
    <3>5. ~Health!Above(v, Health!Whole(0)) BY <2>5, <3>4, SignBelow
    <3>6. QED BY <3>5 DEF Health!Above
  <2>9. Charts!Whole(0) = Health!Whole(0) BY ChartNumbers
  <2>10. \A m, n : Charts!Below(m, n) <=> Health!Below(m, n) BY ChartNumbers
  <2>11. QED BY <2>2, <2>7, <2>8, <2>9, <2>10
<1>2. ASSUME NEW f \in Periods, NEW s \in Periods, NEW g \in Periods, f > 0, f < s, g > 0
      PROVE  LET m == Charts!Macd(f, s, g) IN
             /\ m.status = "ok" <=> Len(x) >= s
             /\ m.status = "ok" =>
                  /\ Monotone(TRUE, x) => Charts!Below(Charts!Whole(0), m.value)
                  /\ Monotone(FALSE, x) => Charts!Below(m.value, Charts!Whole(0))
  <2>1. f \in Nat \ {0} /\ s \in Nat \ {0} /\ ~(g <= 0) /\ ~(f <= 0) /\ ~(s <= 0) /\ ~(f >= s) BY <1>2
  <2>2. PICK l : l = Charts!MacdLine(f, s) OBVIOUS
  <2>3. PICK m : m = Charts!Macd(f, s, g) OBVIOUS
  <2>4. m.status = "ok" <=> ~(Len(close) < s) BY <2>1, <2>2, <2>3, MacdIs
  <2>5. ~(Len(x) < s) <=> Len(x) >= s BY <2>1
  <2>6. Len(x) >= s => s <= Len(x) BY <2>1
  <2>7. Len(x) >= s => /\ Monotone(TRUE, x) => Charts!Below(Charts!Whole(0), m.value)
                       /\ Monotone(FALSE, x) => Charts!Below(m.value, Charts!Whole(0))
    BY <1>1, <1>2, <2>1, <2>3, <2>6
  <2>8. QED BY <2>3, <2>4, <2>5, <2>7
<1>3. (\A i \in 1..(Len(x) - 1) : x[i] <= x[i + 1]) => Monotone(TRUE, x) BY DEF Monotone, Ordered
<1>4. (\A i \in 1..(Len(x) - 1) : x[i] >= x[i + 1]) => Monotone(FALSE, x)
  <2>1. ASSUME \A i \in 1..(Len(x) - 1) : x[i] >= x[i + 1], NEW i \in 1..(Len(x) - 1)
        PROVE  x[i + 1] <= x[i]
    <3>1. x[i] \in Nat /\ x[i + 1] \in Nat
      <4>1. i \in 1..Len(x) /\ i + 1 \in 1..Len(x) OBVIOUS
      <4>2. QED BY <4>1
    <3>2. x[i] >= x[i + 1] BY <2>1
    <3>3. QED BY <3>1, <3>2
  <2>2. QED BY <2>1 DEF Monotone, Ordered
<1>5. QED BY <1>2, <1>3, <1>4 DEF Charts!ConvergenceFits

-----------------------------------------------------------------------------
(* Indicators: relative strength                                           *)

\* The fold that takes numbers away.
Taken(e, m) ==
  (CHOOSE G : G = [s \in SUBSET (1..m) |-> IF s = {} THEN 0 ELSE G[s \ {Latest(s)}] - e[Latest(s)]])[1..m]

\* Taking numbers away is adding their negatives.
LEMMA TakeRuns ==
  ASSUME NEW m \in Nat, NEW d, Numbers(d, m), NEW e, \A k \in 1..m : e[k] \in Int /\ d[k] = -e[k]
  PROVE  \E h : Sums(h, d, m) /\ Taken(e, m) = h[m]
<1> DEFINE body(G) == [s \in SUBSET (1..m) |-> IF s = {} THEN 0 ELSE G[s \ {Latest(s)}] - e[Latest(s)]]
<1>1. PICK F \in [SUBSET (1..m) -> Int] : AddsUp(F, d, m) BY AddFold
<1>2. ASSUME NEW s \in SUBSET (1..m) PROVE F[s] = IF s = {} THEN 0 ELSE F[s \ {Latest(s)}] - e[Latest(s)]
  <2>1. CASE s = {} BY <1>1, <2>1 DEF AddsUp
  <2>2. CASE s # {}
    <3>1. Latest(s) \in 1..m /\ s \ {Latest(s)} \in SUBSET (1..m) BY <2>2, LastIn
    <3>2. PICK a \in Int, b \in Int : a = F[s \ {Latest(s)}] /\ b = e[Latest(s)] /\ d[Latest(s)] = -b BY <1>1, <3>1
    <3>3. F[s] = a + (-b) BY <1>1, <2>2, <3>2 DEF AddsUp
    <3>4. a + (-b) = a - b OBVIOUS
    <3>5. QED BY <2>2, <3>2, <3>3, <3>4
  <2>3. QED BY <2>1, <2>2
<1>3. F = body(F) BY <1>1, <1>2
<1>4. PICK G : G = CHOOSE H : H = body(H) OBVIOUS
<1>5. G = body(G) BY <1>3, <1>4
<1>6. Taken(e, m) = G[1..m] BY <1>4 DEF Taken
<1> HIDE DEF body
<1>7. PICK h : Sums(h, d, m) BY AddRuns
<1>8. PICK good : good = {k \in 0..m : G[1..k] = h[k]} OBVIOUS
<1>9. 0 \in good
  <2>1. 1..0 = {} /\ {} \in SUBSET (1..m) /\ 0 \in 0..m OBVIOUS
  <2>2. G[{}] = 0 BY <1>5, <2>1 DEF body
  <2>3. h[0] = 0 BY <1>7 DEF Sums
  <2>4. QED BY <1>8, <2>1, <2>2, <2>3
<1>10. ASSUME NEW k \in 1..m, k - 1 \in good PROVE k \in good
  <2>1. 1..k \in SUBSET (1..m) /\ 1..k # {} /\ Latest(1..k) = k /\ 1..k \ {k} = 1..(k - 1) /\ k - 1 \in 0..m
    BY LastOfFirst
  <2>2. G[1..k] = G[1..(k - 1)] - e[k] BY <1>5, <2>1 DEF body
  <2>3. PICK a \in Int, b \in Int : a = h[k - 1] /\ b = e[k] /\ h[k] = a + (-b) BY <1>7, <2>1 DEF Sums
  <2>4. G[1..(k - 1)] = a BY <1>8, <1>10, <2>3
  <2>5. a + (-b) = a - b /\ k \in 0..m OBVIOUS
  <2>6. QED BY <1>8, <2>2, <2>3, <2>4, <2>5
<1>11. \A k \in 0..m : k \in good BY <1>9, <1>10, Climbs
<1>12. m \in 0..m OBVIOUS
<1>13. QED BY <1>6, <1>7, <1>8, <1>11, <1>12

\* The gains and the losses of changes, and what is computed of them.
Gained(s) == Charts!FoldLeft(LAMBDA n, c : n + (IF c > 0 THEN c ELSE 0), 0, s)
Lost(s)   == Charts!FoldLeft(LAMBDA n, c : n - (IF c < 0 THEN c ELSE 0), 0, s)
Strength(gain, loss) ==
  CASE gain = 0 /\ loss = 0 -> Charts!Whole(50)
    [] gain > 0 /\ loss = 0 -> Charts!Whole(100)
    [] OTHER -> Charts!Frac(100 * gain, gain + loss)

\* The gains are added up.
LEMMA GainedIs ==
  ASSUME NEW m \in Nat, NEW c, DOMAIN c = 1..m, NEW d, \A k \in 1..m : d[k] = IF c[k] > 0 THEN c[k] ELSE 0
  PROVE  Gained(c) = Added(d, m)
<1> DEFINE raw(G) == [s \in SUBSET (1..m) |->
                        IF s = {} THEN 0
                        ELSE G[s \ {Latest(s)}] + (IF c[Latest(s)] > 0 THEN c[Latest(s)] ELSE 0)]
           body(G) == [s \in SUBSET (1..m) |-> IF s = {} THEN 0 ELSE G[s \ {Latest(s)}] + d[Latest(s)]]
<1>1. Gained(c) = (CHOOSE G : G = raw(G))[1..m]
  BY DEF Gained, Charts!FoldLeft, Charts!MapThenFoldSet, Charts!Max, Latest
<1>2. ASSUME NEW G PROVE raw(G) = body(G)
  <2>1. \A s \in SUBSET (1..m) : s # {} => Latest(s) \in 1..m BY LastIn
  <2>2. QED BY <2>1
<1>3. Added(d, m) = (CHOOSE G : G = body(G))[1..m] BY DEF Added
<1> HIDE DEF raw, body
<1>4. QED BY <1>1, <1>2, <1>3

\* The losses are taken away.
LEMMA LostIs ==
  ASSUME NEW m \in Nat, NEW c, DOMAIN c = 1..m, NEW e, \A k \in 1..m : e[k] = IF c[k] < 0 THEN c[k] ELSE 0
  PROVE  Lost(c) = Taken(e, m)
<1> DEFINE raw(G) == [s \in SUBSET (1..m) |->
                        IF s = {} THEN 0
                        ELSE G[s \ {Latest(s)}] - (IF c[Latest(s)] < 0 THEN c[Latest(s)] ELSE 0)]
           body(G) == [s \in SUBSET (1..m) |-> IF s = {} THEN 0 ELSE G[s \ {Latest(s)}] - e[Latest(s)]]
<1>1. Lost(c) = (CHOOSE G : G = raw(G))[1..m]
  BY DEF Lost, Charts!FoldLeft, Charts!MapThenFoldSet, Charts!Max, Latest
<1>2. ASSUME NEW G PROVE raw(G) = body(G)
  <2>1. \A s \in SUBSET (1..m) : s # {} => Latest(s) \in 1..m BY LastIn
  <2>2. QED BY <2>1
<1>3. Taken(e, m) = (CHOOSE G : G = body(G))[1..m] BY DEF Taken
<1> HIDE DEF raw, body
<1>4. QED BY <1>1, <1>2, <1>3

\* By how much prices rise to the one at j.
RisesTo(s, j) == IF s[j + 1] > s[j] THEN s[j + 1] - s[j] ELSE 0

\* What prices rise is added up over the days of the period.
LEMMA RiseIs ==
  ASSUME NEW s, NEW n \in Nat, Len(s) = n, NEW p \in Nat, NEW d, \A k \in 1..p : d[k] = RisesTo(s, n - p + k - 1)
  PROVE  Charts!Rise(s, p) = Added(d, p)
<1> DEFINE days == [k \in 1..p |-> Len(s) - p + k - 1]
           raw(G) == [u \in SUBSET (1..p) |->
                        IF u = {} THEN 0
                        ELSE G[u \ {Latest(u)}] + (IF s[days[Latest(u)] + 1] > s[days[Latest(u)]]
                                                   THEN s[days[Latest(u)] + 1] - s[days[Latest(u)]] ELSE 0)]
           body(G) == [u \in SUBSET (1..p) |-> IF u = {} THEN 0 ELSE G[u \ {Latest(u)}] + d[Latest(u)]]
<1>1. Charts!Rise(s, p) = (CHOOSE G : G = raw(G))[1..p]
  <2>1. DOMAIN days = 1..p OBVIOUS
  <2> DEFINE step(G) == [u \in SUBSET (DOMAIN days) |->
                           IF u = {} THEN 0
                           ELSE G[u \ {Latest(u)}] + (IF s[days[Latest(u)] + 1] > s[days[Latest(u)]]
                                                      THEN s[days[Latest(u)] + 1] - s[days[Latest(u)]] ELSE 0)]
  <2>2. Charts!Rise(s, p) = (CHOOSE G : G = step(G))[DOMAIN days]
    BY DEF Charts!Rise, Charts!FoldLeft, Charts!MapThenFoldSet, Charts!Max, Latest
  <2> HIDE DEF days
  <2>3. QED BY <2>1, <2>2
<1>2. ASSUME NEW G PROVE raw(G) = body(G)
  <2>1. \A u \in SUBSET (1..p) : u # {} => Latest(u) \in 1..p BY LastIn
  <2>2. \A k \in 1..p : days[k] = n - p + k - 1 OBVIOUS
  <2> HIDE DEF days
  <2>3. QED BY <2>1, <2>2 DEF RisesTo
<1>3. Added(d, p) = (CHOOSE G : G = body(G))[1..p] BY DEF Added
<1> HIDE DEF raw, body
<1>4. QED BY <1>1, <1>2, <1>3

\* The changes of the last prices.
LEMMA ChangesAre ==
  ASSUME NEW x \in Seq(Nat), NEW p \in Nat \ {0}, p + 1 <= Len(x), NEW k \in 1..p
  PROVE  /\ Len(x) - p + k - 1 \in 1..Len(x) /\ Len(x) - p + k \in 1..Len(x)
         /\ Last(x, p + 1)[k + 1] = x[Len(x) - p + k] /\ Last(x, p + 1)[k] = x[Len(x) - p + k - 1]
<1>1. PICK q \in Nat \ {0} : q = p + 1 /\ q <= Len(x)
  <2>1. p + 1 \in Nat \ {0} OBVIOUS
  <2>2. QED BY <2>1
<1>2. \A j \in 1..q : Last(x, q)[j] = x[Len(x) - q + j]
  <2>1. q <= Len(x) BY <1>1
  <2>2. PICK S : S = Nat OBVIOUS
  <2>3. x \in Seq(S) BY <2>2
  <2>4. QED BY <2>1, <2>3, LastIs
<1>3. k + 1 \in 1..q /\ k \in 1..q BY <1>1
<1>4. Len(x) - q + (k + 1) = Len(x) - p + k /\ Len(x) - q + k = Len(x) - p + k - 1 BY <1>1
<1>5. Len(x) - p + k - 1 \in 1..Len(x) /\ Len(x) - p + k \in 1..Len(x) OBVIOUS
<1>6. QED BY <1>1, <1>2, <1>3, <1>4, <1>5

\* The gains are the rises of the prices, the losses those of the mirrored ones.
LEMMA ChangesSummed ==
  ASSUME NEW x \in Seq(Nat), NEW p \in Nat \ {0}, p + 1 <= Len(x),
         NEW c, c = [i \in 1..p |-> Last(x, p + 1)[i + 1] - Last(x, p + 1)[i]]
  PROVE  /\ Gained(c) \in Nat /\ Gained(c) = Charts!Rise(x, p)
         /\ Lost(c) \in Nat /\ Lost(c) = Charts!Rise(Charts!Mirror(x), p)
<1>1. PICK n \in Nat : n = Len(x) OBVIOUS
<1>2. PICK y : y = Charts!Mirror(x) OBVIOUS
<1>3. Len(y) = n /\ \A i \in 1..n : y[i] = -x[i] /\ x[i] \in Nat
  <2>1. y = [i \in 1..n |-> -x[i]] BY <1>1, <1>2 DEF Charts!Mirror
  <2>2. \A i \in 1..n : -x[i] \in Int BY <1>1
  <2>3. [i \in 1..n |-> -x[i]] \in [1..n -> Int] BY <2>2
  <2>4. Len(y) = n BY <2>1, <2>3, IsSequence
  <2>5. QED BY <1>1, <2>1, <2>4
<1>4. PICK d : d = [k \in 1..p |-> RisesTo(x, n - p + k - 1)] OBVIOUS
<1>5. PICK e : e = [k \in 1..p |-> IF c[k] < 0 THEN c[k] ELSE 0] OBVIOUS
<1>6. PICK f : f = [k \in 1..p |-> RisesTo(y, n - p + k - 1)] OBVIOUS
<1>7. ASSUME NEW k \in 1..p
      PROVE  /\ d[k] = IF c[k] > 0 THEN c[k] ELSE 0
             /\ d[k] \in Nat /\ e[k] \in Int /\ f[k] = -e[k] /\ f[k] \in Nat
  <2>1. PICK j \in 1..n : j = n - p + k - 1 /\ j + 1 = n - p + k /\ j + 1 \in 1..n
    <3>1. n - p + k - 1 \in 1..n /\ n - p + k \in 1..n /\ (n - p + k - 1) + 1 = n - p + k BY <1>1, ChangesAre
    <3>2. QED BY <3>1
  <2>2. PICK a \in Nat, b \in Nat : a = x[j] /\ b = x[j + 1] /\ y[j] = -a /\ y[j + 1] = -b BY <1>3, <2>1
  <2>3. c[k] = b - a
    <3>1. Last(x, p + 1)[k + 1] = b /\ Last(x, p + 1)[k] = a BY <1>1, <2>1, <2>2, ChangesAre
    <3>2. QED BY <3>1
  <2>4. d[k] = IF b > a THEN b - a ELSE 0 BY <1>4, <2>1, <2>2 DEF RisesTo
  <2>5. f[k] = IF -b > -a THEN (-b) - (-a) ELSE 0 BY <1>6, <2>1, <2>2 DEF RisesTo
  <2>6. e[k] = IF b - a < 0 THEN b - a ELSE 0 BY <1>5, <2>3
  <2>7. CASE b > a
    <3>1. PICK m \in Nat : m = b - a /\ m > 0
      <4>1. b - a \in Nat /\ b - a > 0 BY <2>7
      <4>2. QED BY <4>1
    <3>2. ~(m < 0) /\ ~(-b > -a) BY <2>7, <3>1
    <3>3. d[k] = m BY <2>4, <2>7, <3>1
    <3>4. e[k] = 0 BY <2>6, <3>1, <3>2
    <3>5. f[k] = 0 BY <2>5, <3>2
    <3>6. c[k] > 0 /\ c[k] = m BY <2>3, <3>1
    <3>7. d[k] = (IF c[k] > 0 THEN c[k] ELSE 0) /\ d[k] \in Nat BY <3>3, <3>6
    <3>8. \A z \in Int : z + z = z => -z = z OBVIOUS
    <3>9. e[k] \in Int /\ -e[k] = 0
      <4>1. e[k] \in Int /\ e[k] + e[k] = e[k] BY <3>4
      <4>2. -e[k] = e[k] BY <3>8, <4>1
      <4>3. QED BY <3>4, <4>1, <4>2
    <3>10. QED BY <3>4, <3>5, <3>7, <3>9
  <2>8. CASE ~(b > a)
    <3>1. PICK m \in Nat : m = a - b /\ b - a = -m /\ (-b) - (-a) = m
      <4>1. a - b \in Nat /\ b - a = -(a - b) /\ (-b) - (-a) = a - b BY <2>8
      <4>2. QED BY <4>1
    <3>2. ~(b - a > 0) /\ (b - a < 0 <=> m # 0) /\ (-b > -a <=> m # 0) BY <3>1
    <3>3. d[k] = 0 BY <2>4, <2>8
    <3>4. e[k] = -m BY <2>6, <3>1, <3>2
    <3>5. f[k] = m BY <2>5, <3>1, <3>2
    <3>6. QED BY <2>3, <3>2, <3>3, <3>4, <3>5
  <2>9. QED BY <2>7, <2>8
<1>8. p \in Nat /\ p \in 0..p /\ 0 \in Int /\ DOMAIN c = 1..p OBVIOUS
<1>a. \A k \in 1..p : d[k] \in Nat /\ f[k] \in Nat /\ e[k] \in Int /\ f[k] = -e[k] BY <1>7
<1>9. Numbers(d, p) /\ Numbers(f, p) BY <1>a DEF Numbers
<1>10. Gained(c) = Added(d, p) BY <1>7, <1>8, GainedIs
<1>11. Charts!Rise(x, p) = Added(d, p)
  <2>1. \A k \in 1..p : d[k] = RisesTo(x, n - p + k - 1) BY <1>4
  <2>2. n \in Nat /\ Len(x) = n BY <1>1
  <2>3. QED BY <1>8, <2>1, <2>2, RiseIs
<1>12. Lost(c) = Taken(e, p)
  <2>1. \A k \in 1..p : e[k] = IF c[k] < 0 THEN c[k] ELSE 0 BY <1>5
  <2>2. QED BY <1>8, <2>1, LostIs
<1>13. Charts!Rise(y, p) = Added(f, p)
  <2>1. \A k \in 1..p : f[k] = RisesTo(y, n - p + k - 1) BY <1>6
  <2>2. QED BY <1>3, <1>8, <2>1, RiseIs
<1>14. PICK g : Sums(g, d, p) /\ Added(d, p) = g[p] BY <1>8, <1>9, AddRuns
<1>15. PICK h : Sums(h, f, p) /\ Added(f, p) = h[p] BY <1>8, <1>9, AddRuns
<1>16. Taken(e, p) = h[p]
  <2>1. PICK l : Sums(l, f, p) /\ Taken(e, p) = l[p] BY <1>8, <1>9, <1>a, TakeRuns
  <2>2. Agree(f, f, p) /\ p <= p BY DEF Agree
  <2>3. \A k \in 0..p : l[k] = h[k] BY <1>8, <1>15, <2>1, <2>2, SumsSame
  <2>4. QED BY <1>8, <2>1, <2>3
<1>17. g[p] \in Nat
  <2>1. ASSUME NEW k \in 1..p PROVE 0 <= d[k]
    <3>1. d[k] \in Nat BY <1>a
    <3>2. QED BY <3>1
  <2>2. \A k \in 0..p : 0 * k <= g[k] BY <1>8, <1>9, <1>14, <2>1, SumsBound
  <2>3. 0 * p <= g[p] /\ g[p] \in Int BY <1>8, <1>14, <2>2 DEF Sums
  <2>4. QED BY <2>3
<1>18. h[p] \in Nat
  <2>1. ASSUME NEW k \in 1..p PROVE 0 <= f[k]
    <3>1. f[k] \in Nat BY <1>a
    <3>2. QED BY <3>1
  <2>2. \A k \in 0..p : 0 * k <= h[k] BY <1>8, <1>9, <1>15, <2>1, SumsBound
  <2>3. 0 * p <= h[p] /\ h[p] \in Int BY <1>8, <1>15, <2>2 DEF Sums
  <2>4. QED BY <2>3
<1>19. QED BY <1>2, <1>10, <1>11, <1>12, <1>13, <1>14, <1>15, <1>16, <1>17, <1>18

\* A strength is from 0 to 100, and the share of the gains in all changes.
LEMMA StrengthIs ==
  ASSUME NEW u \in Nat, NEW l \in Nat, NEW v, v = Strength(u, l)
  PROVE  /\ Health!Below(Health!Whole(0), v) /\ Health!Below(v, Health!Whole(100))
         /\ IF u + l = 0 THEN v = Health!Whole(50)
            ELSE Health!Times(v, Health!Whole(u + l)) = Health!Whole(100 * u)
<1>1. /\ Charts!Whole(50) = Health!Whole(50) /\ Charts!Whole(100) = Health!Whole(100)
      /\ Charts!Frac(100 * u, u + l) = Health!Frac(100 * u, u + l)
  BY ChartNumbers
<1>c. PICK z \in Int, m \in Int, h \in Int : z = 0 /\ m = 50 /\ h = 100 /\ u \in Int OBVIOUS
<1>d. /\ Health!Below(Health!Whole(z), Health!Whole(m)) <=> z <= m
      /\ Health!Below(Health!Whole(m), Health!Whole(h)) <=> m <= h
      /\ Health!Below(Health!Whole(z), Health!Whole(h)) <=> z <= h
      /\ Health!Below(Health!Whole(h), Health!Whole(h)) <=> h <= h
      /\ Health!Times(Health!Whole(h), Health!Whole(u)) = Health!Whole(h * u)
  BY <1>c, WholesCompare
<1>2. CASE u = 0 /\ l = 0
  <2>1. v = Health!Whole(50) BY <1>1, <1>2 DEF Strength
  <2>2. Health!Below(Health!Whole(0), Health!Whole(50)) /\ Health!Below(Health!Whole(50), Health!Whole(100))
    BY <1>c, <1>d
  <2>3. u + l = 0 BY <1>2
  <2>4. QED BY <2>1, <2>2, <2>3
<1>3. CASE u > 0 /\ l = 0
  <2>1. v = Health!Whole(100) BY <1>1, <1>3 DEF Strength
  <2>2. Health!Below(Health!Whole(0), Health!Whole(100)) /\ Health!Below(Health!Whole(100), Health!Whole(100))
        /\ Health!Times(Health!Whole(100), Health!Whole(u)) = Health!Whole(100 * u)
    BY <1>c, <1>d
  <2>3. u + l = u /\ u # 0 BY <1>3
  <2>4. QED BY <2>1, <2>2, <2>3
<1>4. CASE ~(u = 0 /\ l = 0) /\ ~(u > 0 /\ l = 0)
  <2>1. PICK t \in Nat \ {0} : t = u + l /\ u <= t BY <1>4
  <2>2. PICK a \in Int : a = 100 * u OBVIOUS
  <2>3. v = Health!Frac(a, t) BY <1>1, <1>4, <2>1, <2>2 DEF Strength
  <2>4. Health!Below(Health!Frac(0, 1), Health!Frac(a, t)) <=> 0 * t <= a * 1 BY BelowFrac
  <2>5. Health!Below(Health!Frac(a, t), Health!Frac(100, 1)) <=> a * 1 <= 100 * t BY BelowFrac
  <2>6. 0 * t <= a * 1 /\ a * 1 <= 100 * t BY <2>1, <2>2
  <2>7. Health!Whole(0) = Health!Frac(0, 1) /\ Health!Whole(100) = Health!Frac(100, 1)
        /\ Health!Whole(t) = Health!Frac(t, 1) /\ Health!Whole(a) = Health!Frac(a, 1)
    BY WholeIs
  <2>8. Health!Times(Health!Frac(a, t), Health!Frac(t, 1)) = Health!Frac(a, 1)
    <3>1. PICK b \in Int, one \in Int \ {0} : b = a * t /\ one = 1 OBVIOUS
    <3>2. ScaledBy(a, t, b) /\ ScaledBy(t, one, t) /\ t \in Int \ {0} /\ t \in Int BY <3>1 DEF ScaledBy
    <3>3. Health!Times(Health!Frac(a, t), Health!Frac(t, one)) = Health!Frac(b, t) BY <3>2, TimesFrac
    <3>4. b * one = a * t BY <3>1
    <3>5. Health!Frac(b, t) = Health!Frac(a, one) BY <3>1, <3>2, <3>4, FracSame
    <3>6. QED BY <3>1, <3>3, <3>5
  <2>9. u + l # 0 BY <2>1
  <2>10. QED BY <2>1, <2>2, <2>3, <2>4, <2>5, <2>6, <2>7, <2>8, <2>9
<1>5. QED BY <1>2, <1>3, <1>4

\* The relative strength is what it is defined to be.
LEMMA StrengthHolds ==
  ASSUME NEW x \in Seq(Nat), x = close, Periods \subseteq Int
  PROVE  Charts!StrengthFits
<1>1. ASSUME NEW p \in Periods, Charts!Rsi(p).status = "ok"
      PROVE  /\ Len(x) > p
             /\ LET up == Charts!Rise(x, p)
                    down == Charts!Rise(Charts!Mirror(x), p)
                    v == Charts!Rsi(p).value IN
                /\ Charts!Below(Charts!Whole(0), v) /\ Charts!Below(v, Charts!Whole(100))
                /\ IF up + down = 0 THEN v = Charts!Whole(50)
                   ELSE Charts!Times(v, Charts!Whole(up + down)) = Charts!Whole(100 * up)
  <2>1. PICK c : c = [i \in 1..p |-> Last(x, p + 1)[i + 1] - Last(x, p + 1)[i]] OBVIOUS
  <2>2. Charts!Rsi(p) = Charts!Indicator(p, p + 1, Strength(Gained(c), Lost(c)))
    <3> DEFINE changes == [i \in 1..p |-> Last(close, p + 1)[i + 1] - Last(close, p + 1)[i]]
    <3>1. Charts!Rsi(p) = Charts!Indicator(p, p + 1, Strength(Gained(changes), Lost(changes)))
      BY DEF Charts!Rsi, Strength, Gained, Lost, Last, Charts!FoldLeft, Charts!MapThenFoldSet
    <3>2. c = changes BY <2>1
    <3> HIDE DEF changes
    <3>3. QED BY <3>1, <3>2
  <2>3. ~(p <= 0) /\ ~(Len(x) < p + 1)
    BY <1>1, <2>2 DEF Charts!Indicator, Charts!Unsupported, Charts!Insufficient
  <2>4. p \in Nat \ {0} /\ p + 1 <= Len(x) /\ Len(x) > p BY <2>3
  <2>5. PICK u \in Nat, l \in Nat : /\ u = Gained(c) /\ u = Charts!Rise(x, p)
                                    /\ l = Lost(c) /\ l = Charts!Rise(Charts!Mirror(x), p)
    <3>1. /\ Gained(c) \in Nat /\ Gained(c) = Charts!Rise(x, p)
          /\ Lost(c) \in Nat /\ Lost(c) = Charts!Rise(Charts!Mirror(x), p)
      BY <2>1, <2>4, ChangesSummed
    <3>2. QED BY <3>1
  <2>6. PICK v : v = Charts!Rsi(p).value OBVIOUS
  <2>7. v = Strength(u, l)
    <3>1. Charts!Rsi(p) = Charts!Ok(Strength(Gained(c), Lost(c))) BY <2>2, <2>3 DEF Charts!Indicator
    <3>2. Charts!Ok(Strength(u, l)).value = Strength(u, l) BY DEF Charts!Ok
    <3>3. QED BY <2>5, <2>6, <3>1, <3>2
  <2>8. /\ Health!Below(Health!Whole(0), v) /\ Health!Below(v, Health!Whole(100))
        /\ IF u + l = 0 THEN v = Health!Whole(50)
           ELSE Health!Times(v, Health!Whole(u + l)) = Health!Whole(100 * u)
    BY <2>7, StrengthIs
  <2>9. \A m : Charts!Whole(m) = Health!Whole(m) BY ChartNumbers
  <2>10. \A m, n : (Charts!Below(m, n) <=> Health!Below(m, n)) /\ Charts!Times(m, n) = Health!Times(m, n)
    BY ChartNumbers
  <2>11. QED BY <2>4, <2>5, <2>6, <2>8, <2>9, <2>10
<1>2. QED BY <1>1 DEF Charts!StrengthFits

\* Whatever the prices and the periods: moving averages lie between prices they
\* are of and follow a rise the more closely the shorter they are, convergence
\* has the sign of a steady move, and relative strength is the share of the
\* gains; the health report is what it says (calculate_indicators and the
\* reports made of a history).
THEOREM AnalysesCorrect == MCSpec => []AnalysesFit
<1>1. close \in Seq(Prices) => IndicatorsFit
  <2>1. Prices \subseteq Nat /\ Periods \subseteq Int BY MCParameters DEF Charts!Parameters
  <2>2. ASSUME close \in Seq(Prices) PROVE IndicatorsFit
    <3>1. close \in Seq(Nat)
      <4>1. PICK m : m = Len(close) OBVIOUS
      <4>2. m \in Nat /\ close \in [1..m -> Prices] BY <2>2, <4>1
      <4>3. close \in [1..m -> Nat] BY <2>1, <4>2
      <4>4. QED BY <4>2, <4>3, SeqDef
    <3>2. PICK x \in Seq(Nat) : x = close BY <3>1
    <3>3. QED BY <2>1, <3>2, AveragesHold, StrengthHolds, ConvergenceHolds DEF IndicatorsFit
  <2>3. QED BY <2>2
<1>2. MarketInv /\ ReportsFit => AnalysesFit
  BY <1>1 DEF MarketInv, AnalysesFit
<1>3. QED BY <1>2, MarketInvariant, ReportsCorrect, PTL
=============================================================================
