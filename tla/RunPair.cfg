CONSTANTS
  r1 = r1  r2 = r2
  good = good  unknown = unknown  declared = declared
  bare = bare  tagged = tagged  slow = slow  unsafe = unsafe
  Run <- TwoRuns
  Task <- OneTask
  Batch <- OwnOrSameRequests
  Correlation <- Correlations
  Known <- KnownTasks
  Servable <- ServableTasks
  Packaged <- PackagedTasks
  Pinned <- PinnedTasks
  InLimits <- InLimitsTasks
  Exportable <- ExportableTasks
  Transient <- NoTask
  Quoting <- NoTask
  Name <- Correlations
  NameOf <- NamedByCorrelation
  Document <- SomeDocument
  MaxCrashes = 1
SYMMETRY RunSymmetry
CONSTRAINT RestartBetweenRetries
SPECIFICATION Spec
INVARIANT TypeOK
INVARIANT CleanupStopsContainer
INVARIANT WorkspaceReclaimed
INVARIANT MetricsMatchAnswers
INVARIANT VerdictFromOwnContainer
INVARIANT TimelyResultIsAnswered
PROPERTY AttachedContainerKept
