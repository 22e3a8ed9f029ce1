SPECIFICATION Spec
CONSTANTS
  u1 = u1  u2 = u2  b1 = b1  b2 = b2
  j1 = j1  j2 = j2  j3 = j3  w1 = w1  w2 = w2
  NoBook = NoBook  NoJob = NoJob
  Users = {u1}
  Books = {b1}
  Jobs = {j1}
  Workers = {w1}
  Owner <- OwnerOne
  MaxConcurrentJobs = 1
  Sessions = 1
  MaxRetries = 0
  StageWrites <- OneReport
  BuildGraph = FALSE
  Requests = {"cancel"}
  Faults = {}
  MaxDisruptions = 0
PROPERTY CanceledStays
CHECK_DEADLOCK FALSE
