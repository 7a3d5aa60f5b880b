-------------------------- MODULE SignalExecution --------------------------
(***************************************************************************)
(* Trading signals and the history of what became of them                  *)
(* (libs/signal_execution). A signal is pending until one request          *)
(* executes, cancels or expires it: the request loads the row, saves it    *)
(* with the outcome, and adds an execution record, in transactions of      *)
(* their own. Batches do so for a list of signals under an idempotency     *)
(* key, the maintenance routes expire what is due and delete rows.         *)
(* Signals carry their owner; symbols, sides and metrics are left out.     *)
(***************************************************************************)
EXTENDS Naturals, Sequences, FiniteSets

CONSTANTS
  Users, SignalIds,     \* ids are uuid4 values, never handed out twice
  Owner,                \* the user each signal is created by
  Keys, NoKey,          \* idempotency keys of batches; a batch without one
  GivenKeys,            \* bound: the keys requests give, among Keys and NoKey
  NoBatch,              \* no batch of that key has finished
  NoUser, NoSignal,     \* of an idle request thread
  Threads               \* request threads of the server process

ASSUME OwnerAssumption == Owner \in [SignalIds -> Users]
ASSUME KeyAssumption   == NoKey \notin Keys /\ GivenKeys \subseteq Keys \cup {NoKey}

VARIABLES
  signals,   \* the status of each row of the signal table; "unborn" before
             \* there is one, "deleted" after
  records,   \* the execution table, in order of insertion
  batches,   \* the batch table: <<user, action, key>> -> what was reported
  forgotten, \* signals whose records were deleted, or whose request died
             \* with the record still to be added
  thread     \* what each request thread is doing

vars == <<signals, records, batches, forgotten, thread>>

Outcomes == {"executed", "cancelled", "expired"}
Actions  == {"execute", "cancel"}
Record   == SignalIds \X Outcomes
BatchIds == Users \X Actions \X Keys

\* What a finished batch answered: the signals it counts as executed (or
\* cancelled). The fingerprint of its request only tells a replay from a 409.
Batch == [success: SUBSET SignalIds]

ASSUME NoValues == /\ NoBatch \notin Batch
                   /\ NoUser \notin Users /\ NoSignal \notin SignalIds

\* A request: one signal, a batch, or the expiry of what is due; the signal it
\* is at and the outcome it gives, what it has left and what it will report.
Request == [at: {"idle", "save", "record", "next", "enter"},
            job: {"single", "batch", "expiry"},
            user: Users \cup {NoUser}, signal: SignalIds \cup {NoSignal},
            outcome: Outcomes, todo: SUBSET SignalIds,
            success: SUBSET SignalIds, key: Keys \cup {NoKey}]

Idle == [at |-> "idle", job |-> "single", user |-> NoUser, signal |-> NoSignal,
         outcome |-> "executed", todo |-> {}, success |-> {}, key |-> NoKey]

At(t, p)   == thread[t].at = p
Goto(t, r) == thread' = [thread EXCEPT ![t] = r]
Leave(t)   == Goto(t, Idle)

OutcomeOf(action) == IF action = "execute" THEN "executed" ELSE "cancelled"
ActionOf(outcome) == IF outcome = "executed" THEN "execute" ELSE "cancel"

NoRow == {"unborn", "deleted"}

OwnedBy(u) == {s \in SignalIds : Owner[s] = u /\ signals[s] \notin NoRow}
Recorded   == {records[i] : i \in DOMAIN records}

\* Where a request goes once it is done with a signal. A batch counts it.
Proceed(t) ==
  IF thread[t].job = "single" THEN Leave(t)
  ELSE Goto(t, [thread[t] EXCEPT
         !.at = "next", !.signal = NoSignal,
         !.success = IF thread[t].key = NoKey THEN {} ELSE @ \cup {thread[t].signal}])

-----------------------------------------------------------------------------
(* One signal (service.py, domain.py)                                      *)

\* create_signal, and generate_signals for each symbol.
CreateSignal(s) ==
  /\ signals[s] = "unborn"
  /\ signals' = [signals EXCEPT ![s] = "pending"]
  /\ UNCHANGED <<records, batches, forgotten, thread>>

\* Mutant: the status of the row is not looked at.
TakeAny(t, u, s, o) ==
  /\ At(t, "idle")
  /\ s \in OwnedBy(u)
  /\ Goto(t, [Idle EXCEPT !.at = "save", !.signal = s, !.outcome = o])
  /\ UNCHANGED <<signals, records, batches, forgotten>>

\* execute_signal (also called by process_signal), cancel_signal and
\* expire_signal up to the change of the copy. A signal that is not pending
\* is returned as it is.
TakeSignal(t, u, s, o) ==
  /\ At(t, "idle")
  /\ s \in OwnedBy(u)
  /\ signals[s] = "pending"
  /\ Goto(t, [Idle EXCEPT !.at = "save", !.signal = s, !.outcome = o])
  /\ UNCHANGED <<signals, records, batches, forgotten>>

\* save_signal: the upsert of the copy, which inserts a row deleted meanwhile.
SaveSignal(t) ==
  /\ At(t, "save")
  /\ signals' = [signals EXCEPT ![thread[t].signal] = thread[t].outcome]
  /\ Goto(t, [thread[t] EXCEPT !.at = "record"])
  /\ UNCHANGED <<records, batches, forgotten>>

\* Mutant: the record says what was asked for first, an execution.
RecordExecution(t) ==
  /\ At(t, "record")
  /\ records' = Append(records, <<thread[t].signal, "executed">>)
  /\ Proceed(t)
  /\ UNCHANGED <<signals, batches, forgotten>>

\* save_execution.
SaveExecution(t) ==
  /\ At(t, "record")
  /\ records' = Append(records, <<thread[t].signal, thread[t].outcome>>)
  /\ Proceed(t)
  /\ UNCHANGED <<signals, batches, forgotten>>

-----------------------------------------------------------------------------
(* Batches (_run_batch)                                                    *)

\* The lookup of the key. A batch that has finished is replayed, or refused
\* with 409 when its signals differ; both end the request.
StartBatch(t, u, ids, a, k) ==
  /\ At(t, "idle")
  /\ k # NoKey => batches[<<u, a, k>>] = NoBatch
  /\ Goto(t, [Idle EXCEPT !.at = "next", !.job = "batch", !.user = u,
                !.todo = ids, !.key = k, !.outcome = OutcomeOf(a)])
  /\ UNCHANGED <<signals, records, batches, forgotten>>

\* The first load of the next signal: one that is gone, of another user,
\* denied (its strategy or account is gone) or not pending is passed over.
BatchLook(t, s) ==
  /\ At(t, "next") /\ thread[t].job = "batch"
  /\ s \in thread[t].todo
  /\ \/ Goto(t, [thread[t] EXCEPT !.todo = @ \ {s}])
     \/ /\ s \in OwnedBy(thread[t].user)
        /\ signals[s] = "pending"
        /\ Goto(t, [thread[t] EXCEPT !.at = "enter", !.signal = s, !.todo = @ \ {s}])
  /\ UNCHANGED <<signals, records, batches, forgotten>>

\* Mutant: a batch gives up after its first load and still reports success.
EnterSkipping(t) ==
  /\ At(t, "enter")
  /\ Proceed(t)
  /\ UNCHANGED <<signals, records, batches, forgotten>>

\* execute_signal or cancel_signal loads the row again. One deleted meanwhile
\* raises out of the batch; one no longer pending is counted all the same.
BatchEnter(t) ==
  /\ At(t, "enter")
  /\ CASE signals[thread[t].signal] \in NoRow   -> Leave(t)
       [] signals[thread[t].signal] = "pending" -> Goto(t, [thread[t] EXCEPT !.at = "save"])
       [] OTHER                                 -> Proceed(t)
  /\ UNCHANGED <<signals, records, batches, forgotten>>

\* save_batch_record, an upsert, for a batch with a key.
FinishBatch(t) ==
  /\ At(t, "next") /\ thread[t].job = "batch"
  /\ thread[t].todo = {}
  /\ batches' =
       IF thread[t].key = NoKey THEN batches
       ELSE [batches EXCEPT
               ![<<thread[t].user, ActionOf(thread[t].outcome), thread[t].key>>] =
                  [success |-> thread[t].success]]
  /\ Leave(t)
  /\ UNCHANGED <<signals, records, forgotten>>

-----------------------------------------------------------------------------
(* Maintenance                                                             *)

\* update_expired_signals lists the user's signals and keeps the copies of
\* those pending and due. There is no clock: any of them may be due.
StartExpiry(t, u, due) ==
  /\ At(t, "idle")
  /\ due \subseteq {s \in OwnedBy(u) : signals[s] = "pending"}
  /\ Goto(t, [Idle EXCEPT !.at = "next", !.job = "expiry", !.todo = due, !.outcome = "expired"])
  /\ UNCHANGED <<signals, records, batches, forgotten>>

\* Each is saved as expired without another look.
ExpireNext(t, s) ==
  /\ At(t, "next") /\ thread[t].job = "expiry"
  /\ s \in thread[t].todo
  /\ Goto(t, [thread[t] EXCEPT !.at = "save", !.signal = s, !.todo = @ \ {s}])
  /\ UNCHANGED <<signals, records, batches, forgotten>>

FinishExpiry(t) ==
  /\ At(t, "next") /\ thread[t].job = "expiry"
  /\ thread[t].todo = {}
  /\ Leave(t)
  /\ UNCHANGED <<signals, records, batches, forgotten>>

DeleteRows(gone) ==
  /\ gone # {}
  /\ signals' = [s \in SignalIds |-> IF s \in gone THEN "deleted" ELSE signals[s]]
  /\ UNCHANGED <<records, batches, forgotten, thread>>

\* Mutant: cleanup requeues what it should delete.
RequeueExpired(u) ==
  /\ signals' = [s \in SignalIds |->
                   IF s \in OwnedBy(u) /\ signals[s] = "expired" THEN "pending" ELSE signals[s]]
  /\ UNCHANGED <<records, batches, forgotten, thread>>

\* cleanup_signals, cleanup_expired_signals and cleanup_all_signals.
CleanupSignals(u)        == DeleteRows(OwnedBy(u))
CleanupExpiredSignals(u) == DeleteRows({s \in OwnedBy(u) : signals[s] = "expired"})
CleanupAllSignals        == DeleteRows({s \in SignalIds : signals[s] \notin NoRow})

\* cleanup_execution_history: the records before some date.
CleanupExecutionHistory(n) ==
  /\ records' = SubSeq(records, n + 1, Len(records))
  /\ forgotten' = forgotten \cup {records[i][1] : i \in 1..n}
  /\ UNCHANGED <<signals, batches, thread>>

\* The process dies and is restarted: its requests are lost.
Crash ==
  /\ thread' = [t \in Threads |-> Idle]
  /\ forgotten' = forgotten \cup {thread[t].signal : t \in {u \in Threads : At(u, "record")}}
  /\ UNCHANGED <<signals, records, batches>>

-----------------------------------------------------------------------------
Init ==
  /\ signals = [s \in SignalIds |-> "unborn"]
  /\ records = <<>>
  /\ batches = [b \in BatchIds |-> NoBatch]
  /\ forgotten = {}
  /\ thread = [t \in Threads |-> Idle]

Single(t) ==
  \/ \E u \in Users, s \in SignalIds, o \in Outcomes : TakeSignal(t, u, s, o)
  \/ SaveSignal(t) \/ SaveExecution(t)

BatchRoutes(t) ==
  \/ \E u \in Users, ids \in (SUBSET SignalIds) \ {{}}, a \in Actions, k \in GivenKeys :
       StartBatch(t, u, ids, a, k)
  \/ \E s \in SignalIds : BatchLook(t, s)
  \/ BatchEnter(t) \/ FinishBatch(t)

ExpiryRoutes(t) ==
  \/ \E u \in Users, due \in (SUBSET SignalIds) \ {{}} : StartExpiry(t, u, due)
  \/ \E s \in SignalIds : ExpireNext(t, s)
  \/ FinishExpiry(t)

Cleanup ==
  \/ \E u \in Users : CleanupSignals(u) \/ CleanupExpiredSignals(u)
  \/ CleanupAllSignals
  \/ \E n \in 1..Len(records) : CleanupExecutionHistory(n)

Next ==
  \/ \E s \in SignalIds : CreateSignal(s)
  \/ Cleanup \/ Crash
  \/ \E t \in Threads : Single(t) \/ BatchRoutes(t) \/ ExpiryRoutes(t)

Spec == Init /\ [][Next]_vars

-----------------------------------------------------------------------------
(* Properties                                                              *)

TypeOK ==
  /\ signals \in [SignalIds -> NoRow \cup {"pending"} \cup Outcomes]
  /\ records \in Seq(Record)
  /\ batches \in [BatchIds -> Batch \cup {NoBatch}]
  /\ forgotten \subseteq SignalIds
  /\ thread \in [Threads -> Request]

\* The outcome of a signal is in the history, was deleted from it or lost in a
\* crash, or is about to be added by a request (save_signal, then
\* save_execution): whichever outcome wins a race.
OutcomeRecorded ==
  \A s \in SignalIds : signals[s] \in Outcomes =>
    \/ <<s, signals[s]>> \in Recorded \/ s \in forgotten
    \/ \E t \in Threads : /\ At(t, "record")
                          /\ thread[t].signal = s /\ thread[t].outcome = signals[s]

\* A signal that has had a record is never pending again, so nothing executes
\* it anew: not after clean-ups, saves that bring back a row, or a crash.
RecordedIsFinal ==
  \A s \in SignalIds :
    s \in forgotten \cup {r[1] : r \in Recorded} => signals[s] \in Outcomes \cup {"deleted"}

=============================================================================
