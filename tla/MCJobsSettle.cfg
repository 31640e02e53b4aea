\* Liveness of one task across a crash and an ignored error, and the life it leads.
CONSTANTS
  Tasks = {t1}
  NoTask = NoTask
  AskedAttempts = {2}
  MaxWorkers = 1
  MaxCrashes = 1
  MaxFaults = 1
SPECIFICATION FairSpec
PROPERTIES Settles KeepsPromise
