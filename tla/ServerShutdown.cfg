\* Two requests and the worker when a signal arrives or the listener fails.
SPECIFICATION FairServing
CONSTANTS
  r1 = r1  r2 = r2
  Requests = {r1, r2}
  Absent = Absent
  Malformed = Malformed
  NotFinite = NotFinite
  Environments <- TimedEnvironments
  Files <- OneFile
  Asked <- SomeRequests
INVARIANTS WorkerIsSafe RequestsAreAnswered DrainErrorHasReason
PROPERTY ProcessEnds
\* A process that has ended takes no step.
CHECK_DEADLOCK FALSE
