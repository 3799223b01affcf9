CONSTANTS
  r1 = r1  r2 = r2
  good = good  unknown = unknown  declared = declared
  bare = bare  tagged = tagged  slow = slow  unsafe = unsafe
  Run <- OneRun
  Task <- EveryTask
  Batch <- AnyRequest
  Correlation <- Correlations
  Known <- KnownTasks
  Servable <- ServableTasks
  Packaged <- PackagedTasks
  Pinned <- PinnedTasks
  InLimits <- InLimitsTasks
  Exportable <- ExportableTasks
  Transient <- SomeTasks
  Quoting <- SomeTasks
  Name <- Correlations
  NameOf <- NamedByCorrelation
  Document <- AnyDocument
  MaxCrashes = 1
SPECIFICATION FairSpec
INVARIANT OnlyAdmissibleReachesDaemon
PROPERTY EveryRunSettles
PROPERTY ImplementsContract
