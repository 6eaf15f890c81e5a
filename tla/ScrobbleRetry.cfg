SPECIFICATION Spec
CONSTANTS
  e1 = e1
  e2 = e2
  s1 = s1
  drainJob = drainJob
  otherJob = otherJob
  Jobs = {drainJob, otherJob}
  Interval <- EveryMinute
  FirstRun <- AtOnceOrLater
  MaxRestarts = 1
  Entries = {e1, e2}
  Services = {s1}
  ServiceOf <- OneService
  Batch = 1
  MaxAttempts = 2
  Retry = drainJob
  MaxSlips = 1
INVARIANTS TypeOK NeverTwice DeliveryKept
PROPERTY EveryEntryLeaves
