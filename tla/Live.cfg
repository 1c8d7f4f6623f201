SPECIFICATION LiveSpec
CONSTANTS
  w1 = w1
  w2 = w2
  m1 = m1
  m2 = m2
  d1 = d1
  d2 = d2
  None = None
  Workers = {w1, w2}
  Jobs = {j1, j2, j3}
  JobQueueLen = 2
  NoJob = NoJob
  NoWorker = NoWorker
INVARIANTS OfferedWorkersWait JobConservation ReleaseStopsAll
PROPERTIES
  AcceptedJobRuns ReleaseTerminates ImplementsWorkerPool
  ConnectionsEnd CallsEnd
CHECK_DEADLOCK FALSE
