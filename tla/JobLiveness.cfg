SPECIFICATION MCFairSpec
CONSTANTS
  Users = {u1}
  Keys = {k1}
  TaskTypes = {ty}
  Limit <- MCLimit
  JobIds = {j1}
  Threads = {t1, t2}
  NoJob = NoJob
  NoId = NoId
  MaxDispatch = 2
  MaxCrash = 1
  Parts = {"jobs"}
  Planners = {p1, p2}
  Templates <- MCTemplates
  Timings = {"refresh", "monitor", "other"}
  ScheduleIds = {s1}
  System = System
  Starting = Starting
  NoSchedule = NoSchedule
PROPERTIES
  DispatchSettles
CHECK_DEADLOCK FALSE
