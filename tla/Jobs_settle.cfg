SPECIFICATION FairSpec
CONSTANTS
  u1 = u1  u2 = u2  b1 = b1  b2 = b2
  j1 = j1  j2 = j2  j3 = j3  w1 = w1  w2 = w2
  NoBook = NoBook  NoJob = NoJob
  Users = {u1}
  Books = {b1}
  Jobs = {j1, j2}
  Workers = {w1, w2}
  Owner <- OwnerOne
  MaxConcurrentJobs = 1
  Sessions = 1
  MaxRetries = 1
  StageWrites <- OneReport
  BuildGraph = TRUE
  Requests = {"retry"}
  Faults = {"transient", "permanent", "canonicalize", "crash", "visibility"}
  MaxDisruptions = 1
PROPERTY JobsSettle
CHECK_DEADLOCK FALSE
