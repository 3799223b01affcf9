CONSTANTS
  r1 = r1  r2 = r2
  good = good  unknown = unknown  declared = declared
  bare = bare  tagged = tagged  slow = slow  unsafe = unsafe
  Run <- OneRun
  Task <- OneTask
  Batch <- OwnRequests
  Correlation <- Correlations
  Known <- KnownTasks
  Servable <- ServableTasks
  Packaged <- PackagedTasks
  Pinned <- PinnedTasks
  InLimits <- InLimitsTasks
  Exportable <- ExportableTasks
  Transient <- NoTask
  Quoting <- NoTask
  Name <- Correlations
  NameOf <- NamedByCorrelation
  Document <- SomeDocument
  MaxCrashes = 0
SPECIFICATION Spec
INVARIANT HarnessFailureMeansHarnessRan
