SPECIFICATION MCSpec
CONSTANTS
  Users = {u1}
  Keys = {k1, k2}
  TaskTypes = {ty}
  Limit <- MCLimit
  JobIds = {j1, j2}
  Threads = {t1, t2}
  NoJob = NoJob
  NoId = NoId
  MaxDispatch = 2
  MaxCrash = 1
  Parts = {"jobs", "schedules"}
  Planners = {p1, p2}
  Templates <- MCTemplates
  Timings = {"refresh", "monitor", "other"}
  ScheduleIds = {s1, s2, s3, s4}
  System = System
  Starting = Starting
  NoSchedule = NoSchedule
SYMMETRY MCSymmetry
INVARIANTS
  RowsCoherent
  NoOrphanRunning
  TemplatesActiveOnce
PROPERTIES
  RecoveryExact
  SerialLifecycle
  ImplementsRegistry
CHECK_DEADLOCK FALSE
