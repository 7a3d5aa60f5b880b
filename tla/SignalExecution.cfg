SPECIFICATION MCSpec
CONSTANTS
  Users = {u1}
  SignalIds = {s1, s2}
  Owner <- MCOwner
  Keys = {k1}
  NoKey = NoKey
  GivenKeys = {k1}
  NoBatch = NoBatch
  NoUser = NoUser
  NoSignal = NoSignal
  Threads = {t1, t2}
SYMMETRY Symmetry
INVARIANTS
  OutcomeRecorded
  RecordedIsFinal
PROPERTIES
  SerialOutcomes
