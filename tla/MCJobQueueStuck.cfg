CONSTANTS
  w1 = w1
  w2 = w2
  provision = provision
  suspend = suspend
  Workers = {w1}
  Jobs = {provision, suspend}
  ProvisionJobs = {provision}
  NoJob = NoJob
  MaxAttempts = 2
  ReportFrom = 1
  MaxFaults = 1
  MaxRequeues = 1
SPECIFICATION Spec
PROPERTIES
  JobsEnd
CHECK_DEADLOCK FALSE
