----------------------------- MODULE JobScheduler -----------------------------
(***************************************************************************)
(* The schedules of job_orchestration (InMemoryScheduler and the schedule  *)
(* operations of JobOrchestrationService). The list lives in the memory of *)
(* the server process. The system templates are registered when the        *)
(* service is constructed, before the routes exist, and again by an        *)
(* administrator's request; the loop over the templates looks a template   *)
(* up and appends it in two steps, which other threads interleave with.    *)
(***************************************************************************)
EXTENDS Naturals, Sequences, FiniteSets

CONSTANTS
  Users,        \* users that create schedules
  Timings,      \* what a schedule says: task type, interval or cron, expression
  Templates,    \* the system templates: a sequence of different timings
  ScheduleIds,  \* uuid4 values handed to new schedules
  Threads,      \* request threads
  System,       \* the owner of the system schedules
  Starting,     \* the thread that constructs the service
  NoSchedule,   \* the absence of a schedule
  MaxCrash      \* bound: crashes of the server process

VARIABLES
  schedules,  \* the list of the scheduler: ScheduleIds -> schedule or NoSchedule
  server,     \* "down", "booting" (the constructor runs) or "up"
  loop,       \* where each thread is in the loop over the templates
  crashes     \* number of crashes so far

vars == <<schedules, server, loop, crashes>>

Schedule == [owner: Users \cup {System}, timing: Timings, status: {"active", "stopped"}]

\* Not in the loop: at 0. found is the answer of the lookup of template at.
Outside == [at |-> 0, found |-> TRUE]
Looking(n) == [at |-> n, found |-> TRUE]

\* What the constants must be.
Parameters ==
  /\ Templates \in Seq(Timings)
  /\ \A m, n \in 1..Len(Templates) : Templates[m] = Templates[n] => m = n
  /\ System \notin Users /\ Starting \notin Threads
  /\ MaxCrash \in Nat
  /\ NoSchedule \notin Schedule

Listed == {s \in ScheduleIds : schedules[s] # NoSchedule}

OwnedBy(o) == {s \in Listed : schedules[s].owner = o}

FindSystemSchedule(timing) == {s \in OwnedBy(System) : schedules[s].timing = timing}

Register(o, timing) ==
  \E s \in ScheduleIds \ Listed :
    schedules' = [schedules EXCEPT ![s] = [owner |-> o, timing |-> timing, status |-> "active"]]

-----------------------------------------------------------------------------
(* register_system_schedule_templates                                      *)

InLoop(t) == loop[t].at \in 1..Len(Templates)

\* _find_system_schedule of the next template; a template that is there is
\* counted as deduplicated, whatever its status.
TemplateLookup(t) ==
  /\ InLoop(t) /\ loop[t].found
  /\ loop' = [loop EXCEPT ![t] =
       IF FindSystemSchedule(Templates[@.at]) # {} THEN Looking(@.at + 1)
                                                   ELSE [@ EXCEPT !.found = FALSE]]
  /\ UNCHANGED <<schedules, server, crashes>>

\* The append of a template the lookup did not find.
TemplateRegister(t) ==
  /\ InLoop(t) /\ ~loop[t].found
  /\ Register(System, Templates[loop[t].at])
  /\ loop' = [loop EXCEPT ![t] = Looking(@.at + 1)]
  /\ UNCHANGED <<server, crashes>>

LoopEnd(t) ==
  /\ loop[t].at > Len(Templates)
  /\ loop' = [loop EXCEPT ![t] = Outside]
  /\ server' = IF t = Starting THEN "up" ELSE server
  /\ UNCHANGED <<schedules, crashes>>

-----------------------------------------------------------------------------
(* The process and the requests                                            *)

\* Mutant: the service is constructed with auto_recover off.
BootUnrecovered ==
  /\ server = "down"
  /\ server' = "up"
  /\ UNCHANGED <<schedules, loop, crashes>>

\* recover_runtime: scheduler.recover() counts, then the templates.
BootStart ==
  /\ server = "down"
  /\ server' = "booting"
  /\ loop' = [loop EXCEPT ![Starting] = Looking(1)]
  /\ UNCHANGED <<schedules, crashes>>

\* The process dies and the list with it.
Crash ==
  /\ server = "up"
  /\ crashes < MaxCrash
  /\ server' = "down"
  /\ crashes' = crashes + 1
  /\ schedules' = [s \in ScheduleIds |-> NoSchedule]
  /\ loop' = [t \in Threads \cup {Starting} |-> Outside]

\* POST /jobs/system-schedules/templates/recover, of an administrator.
RecoverTemplates(t) ==
  /\ server = "up"
  /\ loop[t] = Outside
  /\ loop' = [loop EXCEPT ![t] = Looking(1)]
  /\ UNCHANGED <<schedules, server, crashes>>

\* schedule_interval, schedule_cron: nothing keeps a user from the timing of
\* a template or from the same timing twice.
ScheduleTask(u, timing) ==
  /\ server = "up"
  /\ Register(u, timing)
  /\ UNCHANGED <<server, loop, crashes>>

\* stop_schedule: of the caller's own namespace, and again without effect. A
\* schedule is never removed, so its lookup and its stop are one step.
StopSchedule(u, s) ==
  /\ server = "up"
  /\ s \in OwnedBy(u)
  /\ schedules' = [schedules EXCEPT ![s].status = "stopped"]
  /\ UNCHANGED <<server, loop, crashes>>

-----------------------------------------------------------------------------
Init ==
  /\ schedules = [s \in ScheduleIds |-> NoSchedule]
  /\ server = "down"
  /\ loop = [t \in Threads \cup {Starting} |-> Outside]
  /\ crashes = 0

Next ==
  \/ BootStart \/ Crash
  \/ \E t \in Threads \cup {Starting} : TemplateLookup(t) \/ TemplateRegister(t) \/ LoopEnd(t)
  \/ \E t \in Threads : RecoverTemplates(t)
  \/ \E u \in Users, timing \in Timings : ScheduleTask(u, timing)
  \/ \E u \in Users, s \in ScheduleIds : StopSchedule(u, s)

Spec == Init /\ [][Next]_vars

-----------------------------------------------------------------------------
(* Properties                                                              *)

\* Types of the variables.
TypeOK ==
  /\ schedules \in [ScheduleIds -> Schedule \cup {NoSchedule}]
  /\ server \in {"down", "booting", "up"}
  /\ loop \in [Threads \cup {Starting} -> [at: 0..Len(Templates) + 1, found: BOOLEAN]]
  /\ crashes \in 0..MaxCrash

\* Template n has one system schedule, an active one.
ActiveOnce(n) ==
  \E s \in OwnedBy(System) :
    FindSystemSchedule(Templates[n]) = {s} /\ schedules[s].status = "active"

\* While the server serves, each template has exactly one system schedule and
\* it is active, although registration is a lookup and an append, recovery is
\* run by several administrators at once, and users own schedules of the same
\* timing and stop theirs ("不会产生重复模板记录" of the recovery scenario).
TemplatesActiveOnce == server = "up" => \A n \in 1..Len(Templates) : ActiveOnce(n)
=============================================================================
