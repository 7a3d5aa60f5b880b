----------------------- MODULE SignalExecutionProofs -----------------------
(***************************************************************************)
(* For any users, signals, keys and threads: the state is well typed, the  *)
(* outcome of a signal is or will be in the history, and a signal that had *)
(* a record is never pending again. Requests that share no signal find     *)
(* their copies up to date, so that each signal gets one outcome.          *)
(***************************************************************************)
EXTENDS MCSignalExecution, TLAPS

Final == Outcomes \cup {"deleted"}

\* A request that saves or records a signal has one, and a request that is
\* about to add a record has moved the signal out of pending.
HeldFit ==
  /\ \A t \in Threads : thread[t].at \in {"enter", "save", "record"} =>
       thread[t].signal \in SignalIds
  /\ \A t \in Threads : At(t, "record") => signals[thread[t].signal] \in Final

IInv == TypeOK /\ HeldFit /\ OutcomeRecorded /\ RecordedIsFinal

\* The requests themselves, whatever the tables hold.
ThreadsOK(th) ==
  /\ th \in [Threads -> Request]
  /\ \A t \in Threads : th[t].at \in {"enter", "save", "record"} => th[t].signal \in SignalIds

-----------------------------------------------------------------------------
\* Init satisfies the invariant.
LEMMA InitIInv == Init => IInv
<1> SUFFICES ASSUME Init PROVE IInv
  OBVIOUS
<1>1. Idle \in Request
  BY DEF Idle, Request, Outcomes
<1>2. TypeOK
  BY <1>1 DEF Init, TypeOK, NoRow, Outcomes, Record
<1>3. Recorded = {}
  BY DEF Init, Recorded
<1>4. HeldFit /\ OutcomeRecorded /\ RecordedIsFinal
  BY <1>3 DEF Init, HeldFit, OutcomeRecorded, RecordedIsFinal, At, Idle, Outcomes
<1> QED
  BY <1>2, <1>4 DEF IInv

-----------------------------------------------------------------------------
\* What a request does to its own slot keeps the slots well formed.

LEMMA GotoFacts ==
  ASSUME TypeOK, HeldFit, NEW t \in Threads, NEW r \in Request, Goto(t, r),
         r.at \in {"enter", "save", "record"} => r.signal \in SignalIds
  PROVE  /\ ThreadsOK(thread')
         /\ thread'[t] = r
         /\ \A u \in Threads \ {t} : thread'[u] = thread[u]
BY DEF TypeOK, HeldFit, ThreadsOK, Goto

LEMMA IdleFacts == Idle \in Request /\ Idle.at = "idle"
BY DEF Idle, Request, Outcomes

\* Where Proceed sends a request.
LEMMA ProceedFacts ==
  ASSUME TypeOK, HeldFit, NEW t \in Threads, thread[t].at \in {"enter", "record"}, Proceed(t)
  PROVE  /\ ThreadsOK(thread')
         /\ thread'[t].at \in {"idle", "next"}
         /\ \A u \in Threads \ {t} : thread'[u] = thread[u]
<1>1. thread[t] \in Request /\ thread[t].signal \in SignalIds
  BY DEF TypeOK, HeldFit
<1>2. CASE thread[t].job = "single"
  BY <1>2, IdleFacts, GotoFacts DEF Proceed, Leave
<1>3. CASE thread[t].job # "single"
  <2> DEFINE r == [thread[t] EXCEPT
                     !.at = "next", !.signal = NoSignal,
                     !.success = IF thread[t].key = NoKey THEN {}
                                 ELSE @ \cup {thread[t].signal}]
  <2>1. r \in Request /\ r.at = "next"
    BY <1>1 DEF Request
  <2>2. Goto(t, r)
    BY <1>3 DEF Proceed
  <2> HIDE DEF r
  <2> QED
    BY <2>1, <2>2, GotoFacts
<1> QED
  BY <1>2, <1>3

-----------------------------------------------------------------------------
\* A request that neither saves a row nor adds a record keeps the invariant.
LEMMA QuietStep ==
  ASSUME IInv, ThreadsOK(thread'), UNCHANGED <<signals, records, batches, forgotten>>,
         \A t \in Threads : At(t, "record") <=> At(t, "record")',
         \A t \in Threads : At(t, "record") => thread'[t] = thread[t]
  PROVE  IInv'
<1>1. TypeOK'
  BY DEF IInv, TypeOK, ThreadsOK
<1>2. Recorded' = Recorded
  BY DEF Recorded
<1>3. HeldFit'
  BY DEF IInv, HeldFit, ThreadsOK, At
<1>4. OutcomeRecorded'
  BY <1>2 DEF IInv, OutcomeRecorded, At
<1>5. RecordedIsFinal'
  BY <1>2 DEF IInv, RecordedIsFinal
<1> QED
  BY <1>1, <1>3, <1>4, <1>5 DEF IInv

\* The same for one request that goes from r.at to another such place.
LEMMA QuietGoto ==
  ASSUME IInv, NEW t \in Threads, NEW r \in Request, Goto(t, r),
         ~At(t, "record"), r.at # "record",
         r.at \in {"enter", "save", "record"} => r.signal \in SignalIds,
         UNCHANGED <<signals, records, batches, forgotten>>
  PROVE  IInv'
<1>1. /\ ThreadsOK(thread')
      /\ thread'[t] = r
      /\ \A u \in Threads \ {t} : thread'[u] = thread[u]
  BY GotoFacts DEF IInv
<1>2. \A u \in Threads : At(u, "record") <=> At(u, "record")'
  BY <1>1 DEF At
<1>3. \A u \in Threads : At(u, "record") => thread'[u] = thread[u]
  BY <1>1
<1> QED
  BY <1>1, <1>2, <1>3, QuietStep

\* Rows that are added as pending where nothing was, or deleted.
LEMMA RowStep ==
  ASSUME IInv, signals' \in [SignalIds -> NoRow \cup {"pending"} \cup Outcomes],
         \A s \in SignalIds : \/ signals'[s] = signals[s]
                              \/ signals'[s] = "deleted"
                              \/ signals[s] = "unborn" /\ signals'[s] = "pending",
         UNCHANGED <<records, batches, forgotten, thread>>
  PROVE  IInv'
<1>1. TypeOK'
  BY DEF IInv, TypeOK
<1>2. Recorded' = Recorded
  BY DEF Recorded
<1>3. HeldFit'
  BY DEF IInv, HeldFit, At, Final, Outcomes
<1>4. OutcomeRecorded'
  BY <1>2 DEF IInv, OutcomeRecorded, At, Outcomes
<1>5. RecordedIsFinal'
  <2> SUFFICES ASSUME NEW s \in SignalIds,
                      s \in forgotten \cup {r[1] : r \in Recorded}
               PROVE  signals'[s] \in Final
    BY <1>2 DEF RecordedIsFinal, Final
  <2>1. signals[s] \in Final
    BY DEF IInv, RecordedIsFinal, Final
  <2> QED
    BY <2>1 DEF Final, Outcomes
<1> QED
  BY <1>1, <1>3, <1>4, <1>5 DEF IInv

-----------------------------------------------------------------------------
LEMMA SaveSignalStep ==
  ASSUME IInv, NEW t \in Threads, SaveSignal(t)
  PROVE  IInv'
<1> DEFINE r == [thread[t] EXCEPT !.at = "record"]
<1>1. /\ thread[t] \in Request /\ thread[t].signal \in SignalIds
      /\ thread[t].outcome \in Outcomes
  BY DEF IInv, TypeOK, HeldFit, SaveSignal, At, Request
<1>2. r \in Request /\ r.at = "record" /\ r.signal = thread[t].signal
      /\ r.outcome = thread[t].outcome
  BY <1>1 DEF Request
<1>3. Goto(t, r)
  BY DEF SaveSignal
<1> HIDE DEF r
<1>4. /\ ThreadsOK(thread')
      /\ thread'[t] = r
      /\ \A u \in Threads \ {t} : thread'[u] = thread[u]
  BY <1>1, <1>2, <1>3, GotoFacts DEF IInv
<1>5. /\ signals' = [signals EXCEPT ![thread[t].signal] = thread[t].outcome]
      /\ UNCHANGED <<records, batches, forgotten>>
  BY DEF SaveSignal
<1>6. TypeOK'
  BY <1>1, <1>4, <1>5 DEF IInv, TypeOK, ThreadsOK
<1>7. Recorded' = Recorded
  BY <1>5 DEF Recorded
<1>8. signals \in [SignalIds -> NoRow \cup {"pending"} \cup Outcomes]
  BY DEF IInv, TypeOK
<1>9. HeldFit'
  <2>1. ASSUME NEW u \in Threads, At(u, "record")'
        PROVE  signals'[thread'[u].signal] \in Final
    <3>1. CASE u = t
      BY <3>1, <1>1, <1>2, <1>4, <1>5, <1>8 DEF Final
    <3>2. CASE u # t
      <4>1. thread'[u] = thread[u] /\ At(u, "record")
        BY <3>2, <1>4, <2>1 DEF At
      <4>2. signals[thread[u].signal] \in Final /\ thread[u].signal \in SignalIds
        BY <4>1 DEF IInv, HeldFit, At
      <4> QED
        BY <4>1, <4>2, <1>1, <1>5, <1>8 DEF Final
    <3> QED
      BY <3>1, <3>2
  <2> QED
    BY <2>1, <1>4 DEF HeldFit, ThreadsOK, At
<1>10. OutcomeRecorded'
  <2> SUFFICES ASSUME NEW s \in SignalIds, signals'[s] \in Outcomes
               PROVE  \/ <<s, signals'[s]>> \in Recorded' \/ s \in forgotten'
                      \/ \E u \in Threads : /\ At(u, "record")'
                                            /\ thread'[u].signal = s
                                            /\ thread'[u].outcome = signals'[s]
    BY DEF OutcomeRecorded, At
  <2>1. CASE s = thread[t].signal
    BY <2>1, <1>2, <1>4, <1>5, <1>8 DEF At
  <2>2. CASE s # thread[t].signal
    <3>1. signals'[s] = signals[s]
      BY <2>2, <1>5, <1>8
    <3>2. CASE <<s, signals[s]>> \in Recorded \/ s \in forgotten
      BY <3>1, <3>2, <1>5, <1>7
    <3>3. CASE \E u \in Threads : /\ At(u, "record")
                                  /\ thread[u].signal = s /\ thread[u].outcome = signals[s]
      <4>1. PICK u \in Threads : /\ At(u, "record")
                                 /\ thread[u].signal = s /\ thread[u].outcome = signals[s]
        BY <3>3
      <4>2. u # t
        BY <4>1, <2>2
      <4>3. thread'[u] = thread[u]
        BY <4>2, <1>4
      <4> QED
        BY <4>1, <4>3, <3>1 DEF At
    <3> QED
      BY <3>1, <3>2, <3>3 DEF IInv, OutcomeRecorded
  <2> QED
    BY <2>1, <2>2
<1>11. RecordedIsFinal'
  BY <1>1, <1>5, <1>7, <1>8 DEF IInv, RecordedIsFinal, Outcomes
<1> QED
  BY <1>6, <1>9, <1>10, <1>11 DEF IInv

LEMMA SaveExecutionStep ==
  ASSUME IInv, NEW t \in Threads, SaveExecution(t)
  PROVE  IInv'
<1> DEFINE new == <<thread[t].signal, thread[t].outcome>>
<1>1. /\ thread[t] \in Request /\ thread[t].signal \in SignalIds
      /\ thread[t].outcome \in Outcomes /\ thread[t].at = "record"
      /\ signals[thread[t].signal] \in Final
  BY DEF IInv, TypeOK, HeldFit, SaveExecution, At, Request
<1>2. /\ ThreadsOK(thread')
      /\ thread'[t].at \in {"idle", "next"}
      /\ \A u \in Threads \ {t} : thread'[u] = thread[u]
  BY <1>1, ProceedFacts DEF IInv, SaveExecution
<1>3. /\ records' = Append(records, new)
      /\ UNCHANGED <<signals, batches, forgotten>>
  BY DEF SaveExecution
<1>4. new \in Record
  BY <1>1 DEF Record
<1>5. records \in Seq(Record)
  BY DEF IInv, TypeOK
<1>6. records' \in Seq(Record) /\ Recorded' = Recorded \cup {new}
  <2>1. PICK x : x = new
    OBVIOUS
  <2>2. x \in Record /\ records' = Append(records, x)
    BY <2>1, <1>3, <1>4
  <2>3. /\ records' \in Seq(Record)
        /\ DOMAIN records' = 1..(Len(records) + 1)
        /\ \A i \in 1..Len(records) : records'[i] = records[i]
        /\ records'[Len(records) + 1] = x
    BY <2>2, <1>5
  <2>4. Len(records) \in Nat /\ DOMAIN records = 1..Len(records)
    BY <1>5
  <2> QED
    BY <2>1, <2>3, <2>4 DEF Recorded
<1>7. TypeOK'
  BY <1>2, <1>3, <1>6 DEF IInv, TypeOK, ThreadsOK
<1>8. HeldFit'
  BY <1>2, <1>3 DEF IInv, HeldFit, ThreadsOK, At
<1>9. OutcomeRecorded'
  <2> SUFFICES ASSUME NEW s \in SignalIds, signals[s] \in Outcomes
               PROVE  \/ <<s, signals[s]>> \in Recorded' \/ s \in forgotten
                      \/ \E u \in Threads : /\ At(u, "record")'
                                            /\ thread'[u].signal = s
                                            /\ thread'[u].outcome = signals[s]
    BY <1>3 DEF OutcomeRecorded, At
  <2>1. CASE <<s, signals[s]>> \in Recorded \/ s \in forgotten
    BY <2>1, <1>6
  <2>2. CASE \E u \in Threads : /\ At(u, "record")
                                /\ thread[u].signal = s /\ thread[u].outcome = signals[s]
    <3>1. PICK u \in Threads : /\ At(u, "record")
                               /\ thread[u].signal = s /\ thread[u].outcome = signals[s]
      BY <2>2
    <3>2. CASE u = t
      BY <3>1, <3>2, <1>6
    <3>3. CASE u # t
      <4>1. thread'[u] = thread[u]
        BY <3>3, <1>2
      <4> QED
        BY <4>1, <3>1 DEF At
    <3> QED
      BY <3>2, <3>3
  <2> QED
    BY <2>1, <2>2 DEF IInv, OutcomeRecorded
<1>10. RecordedIsFinal'
  <2> SUFFICES ASSUME NEW s \in SignalIds,
                      s \in forgotten \cup {r[1] : r \in Recorded \cup {new}}
               PROVE  signals[s] \in Final
    BY <1>3, <1>6 DEF RecordedIsFinal, Final
  <2>1. new[1] = thread[t].signal
    OBVIOUS
  <2> QED
    BY <2>1, <1>1 DEF IInv, RecordedIsFinal, Final
<1> QED
  BY <1>7, <1>8, <1>9, <1>10 DEF IInv

LEMMA HistoryStep ==
  ASSUME IInv, NEW n \in 1..Len(records), CleanupExecutionHistory(n)
  PROVE  IInv'
<1>1. /\ records' = SubSeq(records, n + 1, Len(records))
      /\ forgotten' = forgotten \cup {records[i][1] : i \in 1..n}
      /\ UNCHANGED <<signals, batches, thread>>
  BY DEF CleanupExecutionHistory
<1>2. records \in Seq(Record) /\ Len(records) \in Nat /\ DOMAIN records = 1..Len(records)
  BY DEF IInv, TypeOK
<1>3. \A i \in 1..Len(records) : records[i] \in Record /\ records[i][1] \in SignalIds
  BY <1>2 DEF Record
<1>4. /\ records' \in Seq(Record)
      /\ DOMAIN records' = 1..(Len(records) - n)
      /\ \A i \in 1..(Len(records) - n) : records'[i] = records[i + n]
  BY <1>1, <1>2
<1>5. Recorded' \subseteq Recorded
  BY <1>2, <1>4 DEF Recorded
<1>6. \A r \in Recorded : r \in Recorded' \/ r[1] \in forgotten'
  <2> SUFFICES ASSUME NEW i \in 1..Len(records)
               PROVE  records[i] \in Recorded' \/ records[i][1] \in forgotten'
    BY <1>2 DEF Recorded
  <2>1. CASE i <= n
    BY <2>1, <1>1
  <2>2. CASE i > n
    <3>1. i - n \in 1..(Len(records) - n) /\ (i - n) + n = i
      BY <2>2, <1>2
    <3>2. records'[i - n] = records[i]
      BY <3>1, <1>4
    <3> QED
      BY <3>1, <3>2, <1>4 DEF Recorded
  <2> QED
    BY <2>1, <2>2
<1>7. \A s \in forgotten' : s \in forgotten \/ \E r \in Recorded : r[1] = s
  BY <1>1, <1>2 DEF Recorded
<1>8. TypeOK'
  BY <1>1, <1>2, <1>3, <1>4 DEF IInv, TypeOK
<1>9. HeldFit'
  BY <1>1 DEF IInv, HeldFit, At
<1>10. OutcomeRecorded'
  <2> SUFFICES ASSUME NEW s \in SignalIds, signals[s] \in Outcomes
               PROVE  \/ <<s, signals[s]>> \in Recorded' \/ s \in forgotten'
                      \/ \E u \in Threads : /\ At(u, "record")
                                            /\ thread[u].signal = s
                                            /\ thread[u].outcome = signals[s]
    BY <1>1 DEF OutcomeRecorded, At
  <2>1. forgotten \subseteq forgotten'
    BY <1>1
  <2>2. <<s, signals[s]>> \in Recorded => \/ <<s, signals[s]>> \in Recorded'
                                          \/ s \in forgotten'
    BY <1>6
  <2> QED
    BY <2>1, <2>2 DEF IInv, OutcomeRecorded
<1>11. RecordedIsFinal'
  BY <1>1, <1>5, <1>7 DEF IInv, RecordedIsFinal
<1> QED
  BY <1>8, <1>9, <1>10, <1>11 DEF IInv

LEMMA CrashStep ==
  ASSUME IInv, Crash
  PROVE  IInv'
<1>1. /\ thread' = [t \in Threads |-> Idle]
      /\ forgotten' = forgotten \cup {thread[t].signal : t \in {u \in Threads : At(u, "record")}}
      /\ UNCHANGED <<signals, records, batches>>
  BY DEF Crash
<1>2. Recorded' = Recorded
  BY <1>1 DEF Recorded
<1>3. TypeOK'
  BY <1>1, IdleFacts DEF IInv, TypeOK, HeldFit, At
<1>4. HeldFit'
  BY <1>1, IdleFacts DEF HeldFit, At
<1>5. OutcomeRecorded'
  BY <1>1, <1>2 DEF IInv, OutcomeRecorded
<1>6. RecordedIsFinal'
  BY <1>1, <1>2 DEF IInv, HeldFit, RecordedIsFinal, Final
<1> QED
  BY <1>3, <1>4, <1>5, <1>6 DEF IInv

-----------------------------------------------------------------------------
\* The invariant is inductive: one step per action of Next.
LEMMA NextIInv ==
  ASSUME IInv, [Next]_vars
  PROVE  IInv'
<1>1. CASE UNCHANGED vars
  <2>1. \A t \in Threads : thread'[t] = thread[t]
    BY <1>1 DEF vars
  <2> QED
    BY <1>1, <2>1, QuietStep DEF vars, IInv, TypeOK, HeldFit, ThreadsOK, At
<1>2. ASSUME NEW s \in SignalIds, CreateSignal(s) PROVE IInv'
  BY <1>2, RowStep DEF CreateSignal, IInv, TypeOK
<1>3. ASSUME NEW gone \in SUBSET SignalIds, DeleteRows(gone) PROVE IInv'
  BY <1>3, RowStep DEF DeleteRows, IInv, TypeOK, NoRow
<1>4. CASE Cleanup
  <2>1. ASSUME NEW u \in Users, CleanupSignals(u) \/ CleanupExpiredSignals(u) PROVE IInv'
    BY <2>1, <1>3 DEF CleanupSignals, CleanupExpiredSignals, OwnedBy
  <2>2. CASE CleanupAllSignals
    BY <2>2, <1>3 DEF CleanupAllSignals
  <2> QED
    BY <1>4, <2>1, <2>2, HistoryStep DEF Cleanup
<1>5. ASSUME NEW t \in Threads, Single(t) PROVE IInv'
  <2>1. ASSUME NEW u \in Users, NEW s \in SignalIds, NEW o \in Outcomes, TakeSignal(t, u, s, o)
        PROVE  IInv'
    <3> DEFINE r == [Idle EXCEPT !.at = "save", !.signal = s, !.outcome = o]
    <3>1. r \in Request /\ r.at = "save" /\ r.signal = s
      BY IdleFacts DEF Request, Idle
    <3>2. Goto(t, r) /\ ~At(t, "record") /\ UNCHANGED <<signals, records, batches, forgotten>>
      BY <2>1 DEF TakeSignal, At
    <3> HIDE DEF r
    <3> QED
      BY <3>1, <3>2, QuietGoto
  <2> QED
    BY <1>5, <2>1, SaveSignalStep, SaveExecutionStep DEF Single
<1>6. ASSUME NEW t \in Threads, BatchRoutes(t) PROVE IInv'
  <2> USE DEF IInv
  <2>1. ASSUME NEW u \in Users, NEW ids \in SUBSET SignalIds, NEW a \in Actions,
               NEW k \in GivenKeys, StartBatch(t, u, ids, a, k)
        PROVE  IInv'
    <3> DEFINE r == [Idle EXCEPT !.at = "next", !.job = "batch", !.user = u,
                                 !.todo = ids, !.key = k, !.outcome = OutcomeOf(a)]
    <3>1. r \in Request /\ r.at = "next"
      BY IdleFacts, KeyAssumption DEF Request, Idle, OutcomeOf, Outcomes
    <3>2. Goto(t, r) /\ ~At(t, "record") /\ UNCHANGED <<signals, records, batches, forgotten>>
      BY <2>1 DEF StartBatch, At
    <3> HIDE DEF r
    <3> QED
      BY <3>1, <3>2, QuietGoto
  <2>2. ASSUME NEW s \in SignalIds, BatchLook(t, s) PROVE IInv'
    <3>0. thread[t] \in Request /\ thread[t].at = "next" /\ ~At(t, "record")
          /\ UNCHANGED <<signals, records, batches, forgotten>>
      BY <2>2 DEF BatchLook, At, TypeOK
    <3> DEFINE p == [thread[t] EXCEPT !.todo = @ \ {s}]
               q == [thread[t] EXCEPT !.at = "enter", !.signal = s, !.todo = @ \ {s}]
    <3>1. p \in Request /\ p.at = "next"
      BY <3>0 DEF Request
    <3>2. q \in Request /\ q.at = "enter" /\ q.signal = s
      BY <3>0 DEF Request
    <3>3. Goto(t, p) \/ Goto(t, q)
      BY <2>2 DEF BatchLook
    <3> HIDE DEF p, q
    <3> QED
      BY <3>0, <3>1, <3>2, <3>3, QuietGoto
  <2>3. CASE BatchEnter(t)
    <3>0. thread[t] \in Request /\ thread[t].at = "enter" /\ ~At(t, "record")
          /\ thread[t].signal \in SignalIds
          /\ UNCHANGED <<signals, records, batches, forgotten>>
      BY <2>3 DEF BatchEnter, At, TypeOK, HeldFit
    <3> DEFINE r == [thread[t] EXCEPT !.at = "save"]
    <3>1. r \in Request /\ r.at = "save" /\ r.signal = thread[t].signal
      BY <3>0 DEF Request
    <3>2. Leave(t) \/ Goto(t, r) \/ Proceed(t)
      BY <2>3 DEF BatchEnter
    <3> HIDE DEF r
    <3>3. CASE Proceed(t)
      <4>1. /\ ThreadsOK(thread')
            /\ thread'[t].at \in {"idle", "next"}
            /\ \A u \in Threads \ {t} : thread'[u] = thread[u]
        BY <3>0, <3>3, ProceedFacts
      <4>2. \A u \in Threads : At(u, "record") <=> At(u, "record")'
        BY <3>0, <4>1 DEF At
      <4>3. \A u \in Threads : At(u, "record") => thread'[u] = thread[u]
        BY <3>0, <4>1
      <4> QED
        BY <3>0, <4>1, <4>2, <4>3, QuietStep
    <3> QED
      BY <3>0, <3>1, <3>2, <3>3, IdleFacts, QuietGoto DEF Leave
  <2>4. CASE FinishBatch(t)
    <3>1. thread[t] \in Request /\ thread[t].at = "next" /\ Goto(t, Idle)
          /\ UNCHANGED <<signals, records, forgotten>>
      BY <2>4 DEF FinishBatch, At, Leave, TypeOK
    <3>2. batches' \in [BatchIds -> Batch \cup {NoBatch}]
      <4> DEFINE b == [success |-> thread[t].success]
      <4>1. b \in Batch
        BY <3>1 DEF Batch, Request
      <4>2. \/ batches' = batches
            \/ batches' = [batches EXCEPT
                 ![<<thread[t].user, ActionOf(thread[t].outcome), thread[t].key>>] = b]
        BY <2>4 DEF FinishBatch
      <4> HIDE DEF b
      <4> QED
        BY <4>1, <4>2 DEF TypeOK
    <3>3. /\ ThreadsOK(thread')
          /\ thread'[t] = Idle
          /\ \A u \in Threads \ {t} : thread'[u] = thread[u]
      BY <3>1, IdleFacts, GotoFacts
    <3>4. \A u \in Threads : At(u, "record") => thread'[u] = thread[u]
      BY <3>1, <3>3 DEF At
    <3>5. \A u \in Threads : At(u, "record")' => At(u, "record")
      BY <3>1, <3>3, IdleFacts DEF At
    <3>6. Recorded' = Recorded
      BY <3>1 DEF Recorded
    <3>7. TypeOK'
      BY <3>1, <3>2, <3>3 DEF TypeOK, ThreadsOK
    <3>8. HeldFit'
      BY <3>1, <3>3, <3>4, <3>5 DEF HeldFit, ThreadsOK, At
    <3>9. OutcomeRecorded' /\ RecordedIsFinal'
      BY <3>1, <3>4, <3>6 DEF OutcomeRecorded, RecordedIsFinal, At
    <3> QED
      BY <3>7, <3>8, <3>9
  <2> QED
    BY <1>6, <2>1, <2>2, <2>3, <2>4 DEF BatchRoutes
<1>7. ASSUME NEW t \in Threads, ExpiryRoutes(t) PROVE IInv'
  <2>1. ASSUME NEW u \in Users, NEW due \in SUBSET SignalIds, StartExpiry(t, u, due)
        PROVE  IInv'
    <3> DEFINE r == [Idle EXCEPT !.at = "next", !.job = "expiry", !.todo = due,
                                 !.outcome = "expired"]
    <3>1. r \in Request /\ r.at = "next"
      BY IdleFacts DEF Request, Idle, Outcomes
    <3>2. Goto(t, r) /\ ~At(t, "record") /\ UNCHANGED <<signals, records, batches, forgotten>>
      BY <2>1 DEF StartExpiry, At
    <3> HIDE DEF r
    <3> QED
      BY <3>1, <3>2, QuietGoto
  <2>2. ASSUME NEW s \in SignalIds, ExpireNext(t, s) PROVE IInv'
    <3> DEFINE r == [thread[t] EXCEPT !.at = "save", !.signal = s, !.todo = @ \ {s}]
    <3>0. thread[t] \in Request
      BY DEF IInv, TypeOK
    <3>1. r \in Request /\ r.at = "save" /\ r.signal = s
      BY <3>0 DEF Request
    <3>2. Goto(t, r) /\ ~At(t, "record") /\ UNCHANGED <<signals, records, batches, forgotten>>
      BY <2>2 DEF ExpireNext, At
    <3> HIDE DEF r
    <3> QED
      BY <3>1, <3>2, QuietGoto
  <2>3. CASE FinishExpiry(t)
    BY <2>3, IdleFacts, QuietGoto DEF FinishExpiry, Leave, At
  <2> QED
    BY <1>7, <2>1, <2>2, <2>3 DEF ExpiryRoutes
<1> QED
  BY <1>1, <1>2, <1>4, <1>5, <1>6, <1>7, CrashStep DEF Next

\* Every reachable state satisfies the invariant.
THEOREM InductiveInvariant == Spec => []IInv
BY InitIInv, NextIInv, PTL DEF Spec

\* The tables and requests are well typed.
THEOREM TypeCorrect == Spec => []TypeOK
BY InductiveInvariant, PTL DEF IInv

\* The outcome of a signal is in the history or about to be, unless its record
\* was deleted or its request died (execute_signal, cancel_signal,
\* expire_signal, update_expired_signals).
THEOREM HistoryCorrect == Spec => []OutcomeRecorded
BY InductiveInvariant, PTL DEF IInv

\* No race, clean-up or crash makes a recorded signal pending again.
THEOREM FinalCorrect == Spec => []RecordedIsFinal
BY InductiveInvariant, PTL DEF IInv

-----------------------------------------------------------------------------
(* Requests that share no signal                                           *)

\* The signals a request may still give an outcome to.
Hand(t) ==
  (IF thread[t].at \in {"save", "enter"} THEN {thread[t].signal} ELSE {})
    \cup (IF thread[t].at # "idle" /\ thread[t].job = "expiry" THEN thread[t].todo ELSE {})

Told(s, o)  == s \in forgotten \/ <<s, o>> \in Recorded
Untold(s)   == s \notin forgotten /\ \A r \in Recorded : r[1] # s

\* What a request has in hand is pending, what it is about to record is not
\* recorded yet, and what it will report is.
Fits(t) ==
  LET q == thread[t] IN
  /\ q.job = "batch" => q.outcome # "expired"
  /\ \A s \in Hand(t) : signals[s] = "pending"
  /\ q.job = "expiry" /\ q.at \in {"enter", "save"} => q.signal \notin q.todo
  /\ q.at = "record" => Untold(q.signal)
  /\ \A s \in q.success : Told(s, q.outcome)

Apart ==
  /\ \A t, u \in Threads : t # u => Hand(t) \cap Hand(u) = {}
  /\ \A t, u \in Threads : t # u /\ At(t, "record") /\ At(u, "record") =>
       thread[t].signal # thread[u].signal

Once ==
  \A i \in DOMAIN records :
    /\ records[i][1] \notin forgotten
    /\ \A j \in DOMAIN records : records[i][1] = records[j][1] => i = j

Reports ==
  \A b \in BatchIds : batches[b] # NoBatch => \A s \in batches[b].success : Told(s, OutcomeOf(b[2]))

AloneInv == ~overlap => Apart /\ (\A t \in Threads : Fits(t)) /\ Once /\ Reports

\* An outcome is not replaced.
Rightful ==
  \A s \in SignalIds : signals'[s] # signals[s] =>
    signals[s] = "pending" \/ signals'[s] \in NoRow \/ signals[s] = "unborn"

Watched == overlap' = (overlap \/ Contend)

LEMMA Watching ==
  ASSUME AloneInv, Watched, ~overlap'
  PROVE  /\ ~overlap /\ Apart /\ Once /\ Reports
         /\ \A t \in Threads : Fits(t)
         /\ \A t, u \in Threads : t # u => Hand(t)' \cap Hand(u)' = {}
         /\ \A t \in Threads : \A s \in Hand(t)' : signals'[s] \notin NoRow
<1>1. ~overlap /\ ~Contend
  BY DEF Watched
<1>2. \A t \in Threads : Hand(t)' = InHand(t)
  BY DEF Hand, InHand
<1>3. QED BY <1>1, <1>2 DEF AloneInv, Contend

\* A request moves on without saving or recording anything.
LEMMA MoveAlone ==
  ASSUME IInv, AloneInv, Watched, NEW t \in Threads, NEW q, Goto(t, q), q.at # "record",
         UNCHANGED <<signals, records, batches, forgotten>>,
         ~overlap /\ thread'[t] = q /\ Fits(t) => Fits(t)'
  PROVE  AloneInv' /\ Rightful
<1>1. thread'[t] = q /\ \A u \in Threads \ {t} : thread'[u] = thread[u]
  BY DEF Goto, IInv, TypeOK
<1>2. Rightful
  BY DEF Rightful
<1>3. ASSUME ~overlap'
      PROVE  Apart' /\ (\A u \in Threads : Fits(u)') /\ Once' /\ Reports'
  <2>1. /\ ~overlap /\ Apart /\ Once /\ Reports
        /\ \A u \in Threads : Fits(u)
        /\ \A u, v \in Threads : u # v => Hand(u)' \cap Hand(v)' = {}
    BY <1>3, Watching
  <2>2. Recorded' = Recorded
    BY DEF Recorded
  <2>3. Once' /\ Reports'
    BY <2>1, <2>2 DEF Once, Reports, Told
  <2>4. ASSUME NEW u \in Threads
        PROVE  Fits(u)'
    <3>1. CASE u = t
      BY <1>1, <2>1, <3>1
    <3>2. CASE u # t
      BY <1>1, <2>1, <2>2, <3>2 DEF Fits, Hand, Told, Untold
    <3>3. QED BY <3>1, <3>2
  <2>5. Apart'
    BY <1>1, <2>1 DEF Apart, At
  <2>6. QED BY <2>3, <2>4, <2>5
<1>4. QED BY <1>2, <1>3 DEF AloneInv

LEMMA LeaveAlone ==
  ASSUME IInv, AloneInv, Watched, NEW t \in Threads, Leave(t),
         UNCHANGED <<signals, records, batches, forgotten>>
  PROVE  AloneInv' /\ Rightful
<1>1. Idle.at = "idle" /\ Idle.job = "single" /\ Idle.success = {}
  BY DEF Idle
<1>2. thread'[t] = Idle => Fits(t)'
  BY <1>1 DEF Fits, Hand
<1>3. QED BY <1>1, <1>2, MoveAlone DEF Leave

LEMMA TakeAlone ==
  ASSUME IInv, AloneInv, Watched, NEW t \in Threads, NEW u \in Users, NEW s \in SignalIds,
         NEW o \in Outcomes, TakeSignal(t, u, s, o)
  PROVE  AloneInv' /\ Rightful
<1> DEFINE q == [Idle EXCEPT !.at = "save", !.signal = s, !.outcome = o]
<1>1. q.at = "save" /\ q.signal = s /\ q.job = "single" /\ q.success = {}
  BY DEF Idle
<1>2. Goto(t, q) /\ signals[s] = "pending" /\ UNCHANGED <<signals, records, batches, forgotten>>
  BY DEF TakeSignal
<1> HIDE DEF q
<1>3. thread'[t] = q => Fits(t)'
  BY <1>1, <1>2 DEF Fits, Hand
<1>4. QED BY <1>1, <1>2, <1>3, MoveAlone

LEMMA BatchAlone ==
  ASSUME IInv, AloneInv, Watched, NEW t \in Threads, BatchRoutes(t), UNCHANGED batches
  PROVE  AloneInv' /\ Rightful
<1>1. /\ thread[t] \in Request
      /\ UNCHANGED <<signals, records, batches, forgotten>>
  BY DEF BatchRoutes, StartBatch, BatchLook, BatchEnter, FinishBatch, IInv, TypeOK
<1>2. ASSUME NEW u \in Users, NEW ids \in SUBSET SignalIds, NEW a \in Actions,
             NEW k \in GivenKeys, StartBatch(t, u, ids, a, k)
      PROVE  AloneInv' /\ Rightful
  <2> DEFINE q == [Idle EXCEPT !.at = "next", !.job = "batch", !.user = u,
                               !.todo = ids, !.key = k, !.outcome = OutcomeOf(a)]
  <2>1. q.at = "next" /\ q.job = "batch" /\ q.success = {} /\ q.outcome # "expired"
    BY DEF Idle, OutcomeOf
  <2>2. Goto(t, q)
    BY <1>2 DEF StartBatch
  <2> HIDE DEF q
  <2>3. thread'[t] = q => Fits(t)'
    BY <2>1 DEF Fits, Hand
  <2>4. QED BY <1>1, <2>1, <2>2, <2>3, MoveAlone
<1>3. ASSUME NEW s \in SignalIds, BatchLook(t, s)
      PROVE  AloneInv' /\ Rightful
  <2> DEFINE p == [thread[t] EXCEPT !.todo = @ \ {s}]
             r == [thread[t] EXCEPT !.at = "enter", !.signal = s, !.todo = @ \ {s}]
  <2>1. PICK q : /\ Goto(t, q) /\ q.job = "batch" /\ q.success = thread[t].success
                 /\ q.outcome = thread[t].outcome /\ thread[t].job = "batch"
                 /\ q.at = "next" \/ (q.at = "enter" /\ q.signal = s /\ signals[s] = "pending")
    <3>1. /\ p.job = thread[t].job /\ p.success = thread[t].success
          /\ p.outcome = thread[t].outcome /\ p.at = thread[t].at
          /\ r.job = thread[t].job /\ r.success = thread[t].success
          /\ r.outcome = thread[t].outcome /\ r.at = "enter" /\ r.signal = s
      BY <1>1 DEF Request
    <3>2. /\ thread[t].at = "next" /\ thread[t].job = "batch"
          /\ Goto(t, p) \/ (Goto(t, r) /\ signals[s] = "pending")
      BY <1>3 DEF BatchLook, At
    <3> HIDE DEF p, r
    <3>3. QED BY <3>1, <3>2
  <2>2. thread'[t] = q /\ Fits(t) => Fits(t)'
    <3>1. Recorded' = Recorded
      BY <1>1 DEF Recorded
    <3>2. QED BY <1>1, <2>1, <3>1 DEF Fits, Hand, Told
  <2>3. QED BY <1>1, <2>1, <2>2, MoveAlone
<1>4. CASE BatchEnter(t)
  <2> DEFINE r == [thread[t] EXCEPT !.at = "save"]
  <2>1. /\ r.at = "save" /\ r.job = thread[t].job /\ r.success = thread[t].success
        /\ r.outcome = thread[t].outcome /\ r.signal = thread[t].signal /\ r.todo = thread[t].todo
    BY <1>1 DEF Request
  <2>2. thread[t].at = "enter"
    BY <1>4 DEF BatchEnter, At
  <2>3. CASE ~overlap
    <3>1. signals[thread[t].signal] = "pending" /\ Fits(t)
      BY <2>2, <2>3 DEF AloneInv, Fits, Hand
    <3>2. Goto(t, r)
      BY <1>4, <3>1 DEF BatchEnter, NoRow
    <3> HIDE DEF r
    <3>3. Recorded' = Recorded
      BY <1>1 DEF Recorded
    <3>4. thread'[t] = r => Fits(t)'
      BY <1>1, <2>1, <2>2, <3>1, <3>3 DEF Fits, Hand, Told
    <3>5. QED BY <1>1, <2>1, <3>2, <3>4, MoveAlone
  <2>4. CASE overlap
    BY <1>1, <2>4 DEF Watched, AloneInv, Rightful
  <2>5. QED BY <2>3, <2>4
<1>5. CASE FinishBatch(t)
  BY <1>1, <1>5, LeaveAlone DEF FinishBatch
<1>6. QED BY <1>2, <1>3, <1>4, <1>5 DEF BatchRoutes

\* save_batch_record: the batch reports what it has recorded.
LEMMA FinishAlone ==
  ASSUME IInv, AloneInv, Watched, NEW t \in Threads, FinishBatch(t)
  PROVE  AloneInv' /\ Rightful
<1>1. /\ thread[t].at = "next" /\ thread[t].job = "batch" /\ thread[t] \in Request
      /\ UNCHANGED <<signals, records, forgotten>>
      /\ thread' = [thread EXCEPT ![t] = Idle]
  BY DEF FinishBatch, At, Leave, Goto, IInv, TypeOK
<1>2. Rightful
  BY <1>1 DEF Rightful
<1>3. thread'[t] = Idle /\ \A u \in Threads \ {t} : thread'[u] = thread[u]
  BY <1>1 DEF IInv, TypeOK
<1>4. Idle.at = "idle" /\ Idle.job = "single" /\ Idle.success = {}
  BY DEF Idle
<1>5. Recorded' = Recorded
  BY <1>1 DEF Recorded
<1>6. ASSUME ~overlap'
      PROVE  Apart' /\ (\A u \in Threads : Fits(u)') /\ Once' /\ Reports'
  <2>1. /\ ~overlap /\ Apart /\ Once /\ Reports
        /\ \A u \in Threads : Fits(u)
        /\ \A u, v \in Threads : u # v => Hand(u)' \cap Hand(v)' = {}
    BY <1>6, Watching
  <2>2. ASSUME NEW u \in Threads
        PROVE  Fits(u)'
    <3>1. CASE u = t
      BY <1>3, <1>4, <3>1 DEF Fits, Hand
    <3>2. CASE u # t
      BY <1>1, <1>3, <1>5, <2>1, <3>2 DEF Fits, Hand, Told, Untold
    <3>3. QED BY <3>1, <3>2
  <2>3. Apart' /\ Once'
    BY <1>1, <1>3, <1>4, <2>1 DEF Apart, At, Once
  <2>4. Reports'
    <3>1. PICK a \in Actions : a = ActionOf(thread[t].outcome) /\ OutcomeOf(a) = thread[t].outcome
      BY <1>1, <2>1 DEF Fits, Request, Outcomes, Actions, ActionOf, OutcomeOf
    <3>2. PICK new : new = [success |-> thread[t].success]
      OBVIOUS
    <3>3. \/ batches' = batches
          \/ batches' = [batches EXCEPT ![<<thread[t].user, a, thread[t].key>>] = new]
      BY <3>1, <3>2 DEF FinishBatch
    <3>4. ASSUME NEW b \in BatchIds, batches'[b] # NoBatch, NEW s \in batches'[b].success
          PROVE  Told(s, OutcomeOf(b[2]))
      <4>1. batches'[b] = batches[b] \/ (batches'[b] = new /\ b = <<thread[t].user, a, thread[t].key>>)
        BY <3>3 DEF IInv, TypeOK
      <4>2. CASE batches'[b] = batches[b]
        BY <2>1, <3>4, <4>2 DEF Reports
      <4>3. CASE batches'[b] = new /\ b = <<thread[t].user, a, thread[t].key>>
        <5>1. b[2] = a /\ s \in thread[t].success
          BY <3>2, <3>4, <4>3
        <5>2. QED BY <2>1, <3>1, <5>1 DEF Fits
      <4>4. QED BY <4>1, <4>2, <4>3
    <3>5. QED BY <1>1, <1>5, <3>4 DEF Reports, Told
  <2>5. QED BY <2>2, <2>3, <2>4
<1>7. QED BY <1>2, <1>6 DEF AloneInv

LEMMA ExpiryAlone ==
  ASSUME IInv, AloneInv, Watched, NEW t \in Threads, ExpiryRoutes(t)
  PROVE  AloneInv' /\ Rightful
<1>1. /\ thread[t] \in Request
      /\ UNCHANGED <<signals, records, batches, forgotten>>
  BY DEF ExpiryRoutes, StartExpiry, ExpireNext, FinishExpiry, IInv, TypeOK
<1>2. ASSUME NEW u \in Users, NEW due \in SUBSET SignalIds, StartExpiry(t, u, due)
      PROVE  AloneInv' /\ Rightful
  <2> DEFINE q == [Idle EXCEPT !.at = "next", !.job = "expiry", !.todo = due, !.outcome = "expired"]
  <2>1. q.at = "next" /\ q.job = "expiry" /\ q.success = {} /\ q.todo = due
    BY DEF Idle
  <2>2. Goto(t, q) /\ \A s \in due : signals[s] = "pending"
    BY <1>2 DEF StartExpiry
  <2> HIDE DEF q
  <2>3. thread'[t] = q => Fits(t)'
    BY <1>1, <2>1, <2>2 DEF Fits, Hand
  <2>4. QED BY <1>1, <2>1, <2>2, <2>3, MoveAlone
<1>3. ASSUME NEW s \in SignalIds, ExpireNext(t, s)
      PROVE  AloneInv' /\ Rightful
  <2> DEFINE q == [thread[t] EXCEPT !.at = "save", !.signal = s, !.todo = @ \ {s}]
  <2>1. /\ q.at = "save" /\ q.job = thread[t].job /\ q.success = thread[t].success
        /\ q.outcome = thread[t].outcome /\ q.signal = s /\ q.todo = thread[t].todo \ {s}
    BY <1>1 DEF Request
  <2>2. Goto(t, q) /\ thread[t].at = "next" /\ thread[t].job = "expiry" /\ s \in thread[t].todo
    BY <1>3 DEF ExpireNext, At
  <2> HIDE DEF q
  <2>3. Recorded' = Recorded
    BY <1>1 DEF Recorded
  <2>4. thread'[t] = q /\ Fits(t) => Fits(t)'
    BY <1>1, <2>1, <2>2, <2>3 DEF Fits, Hand, Told
  <2>5. QED BY <1>1, <2>1, <2>2, <2>4, MoveAlone
<1>4. CASE FinishExpiry(t)
  BY <1>1, <1>4, LeaveAlone DEF FinishExpiry
<1>5. QED BY <1>2, <1>3, <1>4 DEF ExpiryRoutes

\* The signal saved was pending and in no other hand.
LEMMA SaveAlone ==
  ASSUME IInv, AloneInv, Watched, NEW t \in Threads, SaveSignal(t)
  PROVE  AloneInv' /\ (~overlap' => Rightful)
<1>1. /\ thread[t].at = "save" /\ thread[t].signal \in SignalIds /\ thread[t] \in Request
      /\ UNCHANGED <<records, batches, forgotten>>
  BY DEF SaveSignal, At, IInv, TypeOK, HeldFit
<1>2. PICK s \in SignalIds : s = thread[t].signal
  BY <1>1
<1>3. PICK q : /\ thread' = [thread EXCEPT ![t] = q]
               /\ q.at = "record" /\ q.job = thread[t].job /\ q.success = thread[t].success
               /\ q.outcome = thread[t].outcome /\ q.signal = s /\ q.todo = thread[t].todo
  <2> DEFINE q == [thread[t] EXCEPT !.at = "record"]
  <2>1. /\ q.at = "record" /\ q.job = thread[t].job /\ q.success = thread[t].success
        /\ q.outcome = thread[t].outcome /\ q.signal = s /\ q.todo = thread[t].todo
    BY <1>1, <1>2 DEF Request
  <2>2. thread' = [thread EXCEPT ![t] = q]
    BY DEF SaveSignal, Goto
  <2> HIDE DEF q
  <2>3. QED BY <2>1, <2>2
<1>4. thread'[t] = q /\ \A u \in Threads \ {t} : thread'[u] = thread[u]
  BY <1>3 DEF IInv, TypeOK
<1>5. Recorded' = Recorded
  BY <1>1 DEF Recorded
<1>6. \A x \in SignalIds \ {s} : signals'[x] = signals[x]
  BY <1>2 DEF SaveSignal, IInv, TypeOK
<1>7. \A u \in Threads : Hand(u) \subseteq SignalIds
  BY DEF Hand, IInv, TypeOK, HeldFit, Request
<1>8. ASSUME ~overlap'
      PROVE  /\ Apart' /\ (\A u \in Threads : Fits(u)') /\ Once' /\ Reports'
             /\ Rightful
  <2>1. /\ ~overlap /\ Apart /\ Once /\ Reports
        /\ \A u \in Threads : Fits(u)
        /\ \A u, v \in Threads : u # v => Hand(u)' \cap Hand(v)' = {}
    BY <1>8, Watching
  <2>2. s \in Hand(t) /\ signals[s] = "pending"
    BY <1>1, <1>2, <2>1 DEF Hand, Fits
  <2>3. Untold(s)
    BY <2>2 DEF IInv, RecordedIsFinal, Untold, Outcomes
  <2>4. \A u \in Threads : At(u, "record") => thread[u].signal # s
    BY <2>2 DEF IInv, HeldFit, Final, Outcomes
  <2>5. ASSUME NEW u \in Threads
        PROVE  Fits(u)'
    <3>1. CASE u = t
      <4>1. Hand(t)' = Hand(t) \ {s}
        BY <1>1, <1>2, <1>3, <1>4, <2>1 DEF Hand, Fits
      <4>2. \A x \in Hand(t)' : signals'[x] = "pending"
        BY <1>6, <1>7, <2>1, <4>1 DEF Fits
      <4>3. QED BY <1>1, <1>3, <1>4, <1>5, <2>1, <2>3, <3>1, <4>2 DEF Fits, Told, Untold
    <3>2. CASE u # t
      <4>1. Hand(u)' = Hand(u) /\ s \notin Hand(u)
        BY <1>4, <2>1, <2>2, <3>2 DEF Hand, Apart
      <4>2. \A x \in Hand(u)' : signals'[x] = "pending"
        BY <1>6, <1>7, <2>1, <4>1 DEF Fits
      <4>3. QED BY <1>1, <1>4, <1>5, <2>1, <3>2, <4>2 DEF Fits, Told, Untold
    <3>3. QED BY <3>1, <3>2
  <2>6. Apart'
    BY <1>3, <1>4, <2>1, <2>4 DEF Apart, At
  <2>7. Once' /\ Reports'
    BY <1>1, <1>5, <2>1 DEF Once, Reports, Told
  <2>8. Rightful
    BY <1>6, <2>2 DEF Rightful
  <2>9. QED BY <2>5, <2>6, <2>7, <2>8
<1>9. QED BY <1>8 DEF AloneInv

\* Where Proceed leaves a request that has recorded its signal.
LEMMA Proceeds ==
  ASSUME IInv, NEW t \in Threads, thread[t].at = "record", Proceed(t)
  PROVE  \E q : /\ thread' = [thread EXCEPT ![t] = q]
                /\ q.at # "record" /\ q.at \notin {"save", "enter"}
                /\ q.at # "idle" => q.job = thread[t].job /\ q.todo = thread[t].todo
                /\ q.job = "batch" => thread[t].job = "batch"
                /\ q.success # {} => q.outcome = thread[t].outcome
                /\ q.job = "batch" => q.outcome = thread[t].outcome
                /\ q.success \subseteq thread[t].success \cup {thread[t].signal}
<1>1. thread[t] \in Request
  BY DEF IInv, TypeOK
<1> DEFINE r == [thread[t] EXCEPT !.at = "next", !.signal = NoSignal,
                   !.success = IF thread[t].key = NoKey THEN {} ELSE @ \cup {thread[t].signal}]
<1>2. /\ r.at = "next" /\ r.job = thread[t].job /\ r.todo = thread[t].todo
      /\ r.outcome = thread[t].outcome
      /\ r.success \subseteq thread[t].success \cup {thread[t].signal}
  BY <1>1 DEF Request
<1>3. Idle.at = "idle" /\ Idle.job = "single" /\ Idle.success = {}
  BY DEF Idle
<1>4. thread' = [thread EXCEPT ![t] = Idle] \/ thread' = [thread EXCEPT ![t] = r]
  BY DEF Proceed, Leave, Goto
<1> HIDE DEF r
<1>5. QED BY <1>2, <1>3, <1>4

LEMMA RecordAlone ==
  ASSUME IInv, AloneInv, Watched, NEW t \in Threads, SaveExecution(t)
  PROVE  AloneInv' /\ Rightful
<1>1. /\ thread[t].at = "record" /\ UNCHANGED <<signals, batches, forgotten>>
      /\ thread[t].signal \in SignalIds /\ thread[t].outcome \in Outcomes
  BY DEF SaveExecution, At, IInv, TypeOK, HeldFit, Request
<1>2. PICK s \in SignalIds, o \in Outcomes : s = thread[t].signal /\ o = thread[t].outcome
  BY <1>1
<1>3. PICK q : /\ thread' = [thread EXCEPT ![t] = q]
               /\ q.at # "record" /\ q.at \notin {"save", "enter"}
               /\ q.at # "idle" => q.job = thread[t].job /\ q.todo = thread[t].todo
               /\ q.job = "batch" => thread[t].job = "batch"
               /\ q.success # {} => q.outcome = o
               /\ q.job = "batch" => q.outcome = o
               /\ q.success \subseteq thread[t].success \cup {s}
  BY <1>1, <1>2, Proceeds DEF SaveExecution
<1>4. thread'[t] = q /\ \A u \in Threads \ {t} : thread'[u] = thread[u]
  BY <1>3 DEF IInv, TypeOK
<1>5. PICK x \in Record : x = <<s, o>> /\ x[1] = s
  <2>1. <<s, o>> \in Record /\ <<s, o>>[1] = s
    BY DEF Record
  <2>2. QED BY <2>1
<1>6. /\ records' = Append(records, x) /\ records \in Seq(Record)
      /\ Len(records) \in Nat /\ DOMAIN records = 1..Len(records)
  BY <1>2, <1>5 DEF SaveExecution, IInv, TypeOK
<1>7. /\ DOMAIN records' = 1..(Len(records) + 1)
      /\ \A i \in DOMAIN records : records'[i] = records[i]
      /\ records'[Len(records) + 1] = x
  BY <1>6
<1>8. Recorded' = Recorded \cup {x}
  BY <1>6, <1>7 DEF Recorded
<1>9. Rightful
  BY <1>1 DEF Rightful
<1>10. ASSUME ~overlap'
       PROVE  Apart' /\ (\A u \in Threads : Fits(u)') /\ Once' /\ Reports'
  <2>1. /\ ~overlap /\ Apart /\ Once /\ Reports
        /\ \A u \in Threads : Fits(u)
        /\ \A u, v \in Threads : u # v => Hand(u)' \cap Hand(v)' = {}
    BY <1>10, Watching
  <2>2. Untold(s)
    BY <1>1, <1>2, <2>1 DEF Fits
  <2>3. \A y, p : Told(y, p) => Told(y, p)'
    BY <1>1, <1>8 DEF Told
  <2>4. Told(s, o)'
    BY <1>5, <1>8 DEF Told
  <2>5. ASSUME NEW u \in Threads
        PROVE  Fits(u)'
    <3>1. CASE u = t
      <4>1. \A y \in Hand(t)' : signals[y] = "pending"
        BY <1>1, <1>3, <1>4, <2>1 DEF Fits, Hand
      <4>2. \A y \in q.success : Told(y, q.outcome)'
        BY <1>2, <1>3, <2>1, <2>3, <2>4 DEF Fits
      <4>3. q.job = "batch" => q.outcome # "expired"
        BY <1>2, <1>3, <2>1 DEF Fits
      <4>4. QED BY <1>1, <1>3, <1>4, <3>1, <4>1, <4>2, <4>3 DEF Fits, Told
    <3>2. CASE u # t
      <4>1. thread'[u] = thread[u] /\ Hand(u)' = Hand(u)
        BY <1>4, <3>2 DEF Hand
      <4>2. thread[u].at = "record" => thread[u].signal # s
        BY <1>1, <1>2, <2>1, <3>2 DEF Apart, At
      <4>3. thread[u].at = "record" => Untold(thread[u].signal)'
        BY <1>1, <1>5, <1>8, <2>1, <4>1, <4>2 DEF Fits, Untold
      <4>4. \A y \in thread[u].success : Told(y, thread[u].outcome)'
        BY <1>1, <1>8, <2>1, <4>1 DEF Fits, Told
      <4>5. QED BY <1>1, <2>1, <4>1, <4>3, <4>4 DEF Fits, Told, Untold
    <3>3. QED BY <3>1, <3>2
  <2>6. Apart'
    BY <1>3, <1>4, <2>1 DEF Apart, At
  <2>7. Once'
    <3>1. \A i \in DOMAIN records : records[i][1] # s
      BY <2>2 DEF Untold, Recorded
    <3>2. s \notin forgotten
      BY <2>2 DEF Untold
    <3>3. QED BY <1>1, <1>5, <1>6, <1>7, <2>1, <3>1, <3>2 DEF Once
  <2>8. Reports'
    BY <1>1, <2>1, <2>3 DEF Reports, Told
  <2>9. QED BY <2>5, <2>6, <2>7, <2>8
<1>11. QED BY <1>9, <1>10 DEF AloneInv

\* Rows come and go, but none that a request has in hand.
LEMMA RowsAlone ==
  ASSUME IInv, AloneInv, Watched, UNCHANGED <<records, batches, forgotten, thread>>,
         \A s \in SignalIds : \/ signals'[s] = signals[s] \/ signals'[s] = "deleted"
                              \/ signals[s] = "unborn"
  PROVE  AloneInv' /\ Rightful
<1>1. Rightful
  BY DEF Rightful, NoRow
<1>2. Recorded' = Recorded
  BY DEF Recorded
<1>3. \A u \in Threads : Hand(u) \subseteq SignalIds /\ Hand(u)' = Hand(u)
  BY DEF Hand, IInv, TypeOK, HeldFit, Request
<1>4. ASSUME ~overlap'
      PROVE  Apart' /\ (\A u \in Threads : Fits(u)') /\ Once' /\ Reports'
  <2>1. /\ ~overlap /\ Apart /\ Once /\ Reports
        /\ \A u \in Threads : Fits(u)
        /\ \A t \in Threads : \A s \in Hand(t)' : signals'[s] \notin NoRow
    BY <1>4, Watching
  <2>2. ASSUME NEW u \in Threads
        PROVE  Fits(u)'
    <3>1. ASSUME NEW s \in Hand(u)
          PROVE  signals'[s] = "pending"
      <4>1. signals[s] = "pending" /\ s \in SignalIds /\ signals'[s] \notin NoRow
        BY <1>3, <2>1 DEF Fits
      <4>2. QED BY <4>1 DEF NoRow
    <3>2. QED BY <1>2, <1>3, <2>1, <3>1 DEF Fits, Told, Untold
  <2>3. Apart'
    BY <1>3, <2>1 DEF Apart, At
  <2>4. Once' /\ Reports'
    BY <1>2, <2>1 DEF Once, Reports, Told
  <2>5. QED BY <2>2, <2>3, <2>4
<1>5. QED BY <1>1, <1>4 DEF AloneInv

\* cleanup_execution_history: what is deleted is forgotten and nothing else.
LEMMA HistoryAlone ==
  ASSUME IInv, AloneInv, Watched, NEW n \in 1..Len(records), CleanupExecutionHistory(n)
  PROVE  AloneInv' /\ Rightful
<1>1. /\ records' = SubSeq(records, n + 1, Len(records))
      /\ forgotten' = forgotten \cup {records[i][1] : i \in 1..n}
      /\ UNCHANGED <<signals, batches, thread>>
  BY DEF CleanupExecutionHistory
<1>2. records \in Seq(Record) /\ Len(records) \in Nat /\ DOMAIN records = 1..Len(records)
  BY DEF IInv, TypeOK
<1>3. /\ DOMAIN records' = 1..(Len(records) - n)
      /\ \A i \in 1..(Len(records) - n) : records'[i] = records[i + n] /\ i + n \in DOMAIN records
  BY <1>1, <1>2
<1>4. Rightful
  BY <1>1 DEF Rightful
<1>5. Recorded' \subseteq Recorded
  BY <1>2, <1>3 DEF Recorded
<1>6. \A r \in Recorded : r \in Recorded' \/ r[1] \in forgotten'
  <2> SUFFICES ASSUME NEW i \in 1..Len(records)
               PROVE  records[i] \in Recorded' \/ records[i][1] \in forgotten'
    BY <1>2 DEF Recorded
  <2>1. CASE i <= n
    BY <2>1, <1>1
  <2>2. CASE i > n
    <3>1. i - n \in 1..(Len(records) - n) /\ (i - n) + n = i
      BY <2>2, <1>2
    <3>2. QED BY <3>1, <1>3 DEF Recorded
  <2>3. QED BY <2>1, <2>2
<1>7. \A s, o : Told(s, o) => s \in forgotten' \/ <<s, o>> \in Recorded'
  BY <1>1, <1>6 DEF Told
<1>8. \A s : Untold(s) => s \notin forgotten' /\ \A r \in Recorded' : r[1] # s
  BY <1>1, <1>2, <1>5 DEF Untold, Recorded
<1>9. \A u \in Threads : Hand(u)' = Hand(u)
  BY <1>1 DEF Hand
<1>10. ASSUME ~overlap'
       PROVE  Apart' /\ (\A u \in Threads : Fits(u)') /\ Once' /\ Reports'
  <2>1. /\ ~overlap /\ Apart /\ Once /\ Reports
        /\ \A u \in Threads : Fits(u)
    BY <1>10, Watching
  <2>2. \A u \in Threads : Fits(u)'
    BY <1>1, <1>7, <1>8, <1>9, <2>1 DEF Fits, Told, Untold
  <2>3. Apart'
    BY <1>1, <1>9, <2>1 DEF Apart, At
  <2>4. Once'
    <3>1. ASSUME NEW i \in DOMAIN records'
          PROVE  records'[i][1] \notin forgotten'
      <4>1. records'[i] = records[i + n] /\ i + n \in DOMAIN records /\ i + n \notin 1..n
        BY <1>2, <1>3
      <4>2. \A j \in 1..n : records[j][1] # records[i + n][1]
        BY <1>2, <2>1, <4>1 DEF Once
      <4>3. QED BY <1>1, <2>1, <4>1, <4>2 DEF Once
    <3>2. ASSUME NEW i \in DOMAIN records', NEW j \in DOMAIN records',
                 records'[i][1] = records'[j][1]
          PROVE  i = j
      <4>1. /\ i + n \in DOMAIN records /\ j + n \in DOMAIN records
            /\ records[i + n][1] = records[j + n][1]
        BY <1>3, <3>2
      <4>2. i + n = j + n
        BY <2>1, <4>1 DEF Once
      <4>3. QED BY <1>2, <1>3, <4>2
    <3>3. QED BY <3>1, <3>2 DEF Once
  <2>5. Reports'
    BY <1>1, <1>7, <2>1 DEF Reports, Told
  <2>6. QED BY <2>2, <2>3, <2>4, <2>5
<1>11. QED BY <1>4, <1>10 DEF AloneInv

\* What dies with its record to be added is forgotten, and had none yet.
LEMMA CrashAlone ==
  ASSUME IInv, AloneInv, Watched, Crash
  PROVE  AloneInv' /\ Rightful
<1>1. /\ thread' = [t \in Threads |-> Idle]
      /\ forgotten' = forgotten \cup {thread[t].signal : t \in {u \in Threads : At(u, "record")}}
      /\ UNCHANGED <<signals, records, batches>>
  BY DEF Crash
<1>2. \A t \in Threads : thread'[t] = Idle
  BY <1>1
<1>3. Idle.at = "idle" /\ Idle.job = "single" /\ Idle.success = {}
  BY DEF Idle
<1>4. Recorded' = Recorded
  BY <1>1 DEF Recorded
<1>5. Rightful
  BY <1>1 DEF Rightful
<1>6. ASSUME ~overlap'
      PROVE  Apart' /\ (\A u \in Threads : Fits(u)') /\ Once' /\ Reports'
  <2>1. ~overlap /\ Once /\ Reports /\ \A u \in Threads : Fits(u)
    BY <1>6, Watching
  <2>2. Apart' /\ \A u \in Threads : Fits(u)'
    BY <1>2, <1>3 DEF Apart, Fits, Hand, At
  <2>3. Reports'
    BY <1>1, <1>4, <2>1 DEF Reports, Told
  <2>4. Once'
    <3>1. ASSUME NEW i \in DOMAIN records
          PROVE  records[i][1] \notin forgotten'
      <4>1. records[i] \in Recorded
        BY DEF Recorded
      <4>2. \A t \in Threads : At(t, "record") => thread[t].signal # records[i][1]
        BY <2>1, <4>1 DEF Fits, Untold, At
      <4>3. QED BY <1>1, <2>1, <4>2 DEF Once
    <3>2. QED BY <1>1, <2>1, <3>1 DEF Once
  <2>5. QED BY <2>2, <2>3, <2>4
<1>7. QED BY <1>5, <1>6 DEF AloneInv

\* The whole invariant of a behaviour with overlap, and what a step does.
MCInv  == IInv /\ AloneInv
MCStep == MCInv' /\ (~overlap' => Rightful)

LEMMA MCInitEstablishes == MCInit => MCInv
<1> SUFFICES ASSUME MCInit PROVE MCInv
  OBVIOUS
<1>1. Init
  BY DEF MCInit
<1>2. \A t \in Threads : thread[t] = Idle
  BY <1>1 DEF Init
<1>3. Idle.at = "idle" /\ Idle.job = "single" /\ Idle.success = {}
  BY DEF Idle
<1>4. Apart /\ \A t \in Threads : Fits(t)
  BY <1>2, <1>3 DEF Apart, Fits, Hand, At
<1>5. Once /\ Reports
  BY <1>1 DEF Init, Once, Reports
<1>6. QED BY <1>1, <1>4, <1>5, InitIInv DEF MCInv, AloneInv

LEMMA MCStepPreserves ==
  ASSUME MCInv, [MCNext]_mcvars
  PROVE  MCStep
<1>1. IInv /\ AloneInv
  BY DEF MCInv
<1>2. IInv'
  BY <1>1, NextIInv DEF MCNext, mcvars
<1>3. CASE UNCHANGED mcvars
  <2>1. UNCHANGED <<signals, records, batches, forgotten, thread, overlap>>
    BY <1>3 DEF mcvars, vars
  <2>2. AloneInv' = AloneInv /\ Rightful
    BY <2>1 DEF AloneInv, Apart, Fits, Once, Reports, Hand, Told, Untold, Recorded, At, Rightful
  <2>3. QED BY <1>1, <1>2, <2>2 DEF MCStep, MCInv
<1>4. CASE MCNext
  <2>1. Next /\ Watched
    BY <1>4 DEF MCNext, Watched
  <2>2. ASSUME NEW s \in SignalIds, CreateSignal(s) PROVE AloneInv' /\ Rightful
    BY <1>1, <2>1, <2>2, RowsAlone DEF CreateSignal, IInv, TypeOK
  <2>3. ASSUME NEW gone, DeleteRows(gone) PROVE AloneInv' /\ Rightful
    BY <1>1, <2>1, <2>3, RowsAlone DEF DeleteRows
  <2>4. ASSUME Cleanup PROVE AloneInv' /\ Rightful
    <3>1. \/ \E gone : DeleteRows(gone)
          \/ \E n \in 1..Len(records) : CleanupExecutionHistory(n)
      BY <2>4 DEF Cleanup, CleanupSignals, CleanupExpiredSignals, CleanupAllSignals
    <3>2. ASSUME NEW n \in 1..Len(records), CleanupExecutionHistory(n)
          PROVE  AloneInv' /\ Rightful
      BY <1>1, <2>1, <3>2, HistoryAlone
    <3>3. QED BY <2>3, <3>1, <3>2
  <2>5. ASSUME NEW t \in Threads, Single(t) PROVE AloneInv' /\ (~overlap' => Rightful)
    BY <1>1, <2>1, <2>5, TakeAlone, SaveAlone, RecordAlone DEF Single
  <2>6. ASSUME NEW t \in Threads, BatchRoutes(t) PROVE AloneInv' /\ Rightful
    <3>1. UNCHANGED batches \/ FinishBatch(t)
      BY <2>6 DEF BatchRoutes, StartBatch, BatchLook, BatchEnter
    <3>2. QED BY <1>1, <2>1, <2>6, <3>1, BatchAlone, FinishAlone
  <2>7. ASSUME NEW t \in Threads, ExpiryRoutes(t) PROVE AloneInv' /\ Rightful
    BY <1>1, <2>1, <2>7, ExpiryAlone
  <2>8. ASSUME Crash PROVE AloneInv' /\ Rightful
    BY <1>1, <2>1, <2>8, CrashAlone
  <2>9. AloneInv' /\ (~overlap' => Rightful)
    BY <2>1, <2>2, <2>4, <2>5, <2>6, <2>7, <2>8 DEF Next
  <2>10. QED BY <1>2, <2>9 DEF MCStep, MCInv
<1>5. QED BY <1>3, <1>4

\* Rows, records, reports and requests fit together in every reachable state,
\* with and without overlapping requests.
THEOREM MCInvariant == MCSpec => []MCInv /\ [][MCStep]_mcvars
<1>1. MCInit => MCInv
  BY MCInitEstablishes
<1>2. MCInv /\ [MCNext]_mcvars => MCInv'
  BY MCStepPreserves DEF MCStep
<1>3. MCInv /\ [MCNext]_mcvars => MCStep
  BY MCStepPreserves
<1>4. QED BY <1>1, <1>2, <1>3, PTL DEF MCSpec

\* A signal handled by one request at a time gets one outcome, which is not
\* replaced, and one record, and what a batch reports is in the history
\* (execute_signal, cancel_signal, update_expired_signals, _run_batch).
THEOREM OutcomesCorrect == MCSpec => SerialOutcomes
<1>1. MCInv => SerialOnce
  BY DEF MCInv, AloneInv, Once, SerialOnce
<1>2. MCInv => SerialReports
  BY DEF MCInv, AloneInv, Reports, Told, SerialReports
<1>3. MCStep => \A s \in SignalIds : ~overlap' /\ signals'[s] # signals[s] =>
       \/ signals[s] = "pending"
       \/ signals'[s] \in NoRow
       \/ signals[s] = "unborn"
  BY DEF MCStep, Rightful
<1>4. QED BY <1>1, <1>2, <1>3, MCInvariant, PTL DEF SerialOutcomes, SerialFinal
=============================================================================
