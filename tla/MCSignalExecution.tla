------------------------- MODULE MCSignalExecution -------------------------
(***************************************************************************)
(* SignalExecution on small instances. overlap becomes true when two       *)
(* requests have had one pending signal in hand at the same time, or one   *)
(* was deleted while a request had it in hand.                             *)
(***************************************************************************)
EXTENDS SignalExecution, TLC

VARIABLE overlap

mcvars == <<vars, overlap>>

MCOwner == [s \in SignalIds |-> CHOOSE u \in Users : TRUE]

Symmetry == Permutations(SignalIds) \cup Permutations(Threads)

MCInit == Init /\ overlap = FALSE

InHand(t) ==
  (IF thread'[t].at \in {"save", "enter"} THEN {thread'[t].signal} ELSE {})
    \cup (IF thread'[t].at # "idle" /\ thread'[t].job = "expiry" THEN thread'[t].todo ELSE {})

Contend ==
  \/ \E t \in Threads : \E u \in Threads \ {t} : InHand(t) \cap InHand(u) # {}
  \/ \E t \in Threads : \E s \in InHand(t) : signals'[s] \in NoRow

MCNext == Next /\ overlap' = (overlap \/ Contend)
MCSpec == MCInit /\ [][MCNext]_mcvars

\* A signal handled by one request at a time gets one outcome and one record,
\* and none after its record was deleted or lost (execute_signal,
\* cancel_signal, expire_signal, _run_batch).
SerialOnce ==
  ~overlap =>
    \A i \in DOMAIN records :
      /\ records[i][1] \notin forgotten
      /\ \A j \in DOMAIN records : records[i][1] = records[j][1] => i = j

\* Its outcome is never replaced, and a deleted signal stays deleted.
SerialFinal ==
  [][\A s \in SignalIds : ~overlap' /\ signals'[s] # signals[s] =>
       \/ signals[s] = "pending"
       \/ signals'[s] \in NoRow
       \/ signals[s] = "unborn"]_mcvars

\* What the answer of a batch calls executed or cancelled has that outcome in
\* the history (_run_batch, save_batch_record).
SerialReports ==
  ~overlap =>
    \A b \in BatchIds : batches[b] # NoBatch =>
      \A s \in batches[b].success : s \in forgotten \/ <<s, OutcomeOf(b[2])>> \in Recorded

\* Signals that are not shared get one outcome, one record and true reports.
SerialOutcomes == [](SerialOnce /\ SerialReports) /\ SerialFinal
=============================================================================
