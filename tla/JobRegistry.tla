----------------------------- MODULE JobRegistry -----------------------------
(***************************************************************************)
(* What clients of job_orchestration rely on when they submit: a registry  *)
(* of identities. A job id is bound once, to an owner, a task type and an  *)
(* idempotency key; the binding is never changed or removed, and an owner  *)
(* and a key are bound to one job. JobOrchestration implements it.         *)
(***************************************************************************)
CONSTANTS Users, Keys, TaskTypes, JobIds, NoJob

VARIABLE registry

Identity == [user: Users, type: TaskTypes, key: Keys]

Registered == {j \in JobIds : registry[j] # NoJob}

Init == registry = [j \in JobIds |-> NoJob]

Register(j, ident) ==
  /\ registry[j] = NoJob
  /\ \A i \in Registered : ~(registry[i].user = ident.user /\ registry[i].key = ident.key)
  /\ registry' = [registry EXCEPT ![j] = ident]

Next == \E j \in JobIds, ident \in Identity : Register(j, ident)

Spec == Init /\ [][Next]_registry
=============================================================================
