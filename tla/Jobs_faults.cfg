SPECIFICATION Spec
CONSTANTS
  u1 = u1  u2 = u2  b1 = b1  b2 = b2
  j1 = j1  j2 = j2  j3 = j3  w1 = w1  w2 = w2
  NoBook = NoBook  NoJob = NoJob
  Users = {u1}
  Books = {b1}
  Jobs = {j1}
  Workers = {w1, w2}
  Owner <- OwnerOne
  MaxConcurrentJobs = 1
  Sessions = 2
  MaxRetries = 1
  StageWrites <- TwoStages
  BuildGraph = TRUE
  Requests = {"cancel"}
  Faults = {"enqueue", "rollback", "late_commit", "status_write", "setup", "transient",
            "permanent", "canonicalize", "retry_publish", "kill", "crash", "visibility"}
  MaxDisruptions = 2
SYMMETRY AnyWorker
INVARIANTS TypeOK NoLostJob NoMissedCanonicalize DuplicationBound
PROPERTIES SettledCancel ProgressRestartsAtTheTop
CHECK_DEADLOCK FALSE
