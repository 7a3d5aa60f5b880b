------------------------- MODULE MCJobOrchestration -------------------------
(***************************************************************************)
(* Jobs and schedules on small instances. They share no state but the      *)
(* process, so a behaviour is about one of them (part). Besides the        *)
(* behaviours of JobOrchestration a run explores those in which no request *)
(* begins before the one before it has ended (overlap).                    *)
(***************************************************************************)
EXTENDS JobOrchestration, TLC

CONSTANTS Parts, Planners, Timings, Templates, ScheduleIds, System, Starting, NoSchedule

VARIABLES
  part, overlap,
  schedules, loop

\* One running job per user and task type, the limit of the interactive and
\* the maintenance task types.
MCLimit == [ty \in TaskTypes |-> 1]

\* Two of the four templates, and a timing that is not a template.
MCTemplates == <<"refresh", "monitor">>

Schedules == INSTANCE JobScheduler WITH Users <- Planners

ASSUME SchedulesAssumption == Schedules!Parameters

mcvars == <<vars, part, overlap, schedules, loop>>

\* Job ids and threads are interchangeable in every safety property.
MCSymmetry == Permutations(JobIds) \cup Permutations(Threads)

MCInit ==
  /\ Init
  /\ Schedules!Init
  /\ part \in Parts
  /\ overlap \in IF part = "jobs" THEN BOOLEAN ELSE {TRUE}

JobsNext ==
  \/ Crash
  \/ Boot
  \/ \E t \in Threads : Continue(t)
  \/ /\ overlap \/ \A t \in Threads : req[t] = Idle
     /\ \E t \in Threads : Accept(t)

MCNext ==
  /\ UNCHANGED <<part, overlap>>
  /\ \/ part = "jobs" /\ JobsNext /\ UNCHANGED <<schedules, loop>>
     \/ part = "schedules" /\ Schedules!Next /\ UNCHANGED <<jobs, req, pending, dispatched>>

MCSpec == MCInit /\ [][MCNext]_mcvars
MCFairSpec == MCSpec /\ Fairness

\* A step keeps to the state machine of domain.py.
Follows == \A j \in Stored : jobs'[j].status \in {jobs[j].status} \cup AllowedTransitions[jobs[j].status]

\* A step that starts a job stays within the limit of its task type.
WithinLimit ==
  \A t \in Threads : req[t].pc = "start" /\ req'[t].pc = "run" =>
    LET job == req[t].row
    IN  Cardinality(Running(job.user, job.type)') <= Limit[job.type]

\* Requests that do not overlap follow the state machine and keep to the
\* concurrency limit, through crashes, recovery, and jobs moved to running by
\* their users (transition_job, dispatch_job).
SerialLifecycle == [][~overlap => Follows /\ WithinLimit]_vars

\* Each template has one active system schedule while the process serves.
TemplatesActiveOnce == part = "schedules" => Schedules!TemplatesActiveOnce
=============================================================================
