CONSTANTS
  Kind <- Kinds
  Track <- Tracks
  SetId <- Sets
  Pair <- Pairs
  Key <- Keys
  ReleaseId <- Releases
  ExpectedKinds <- KindTarget
  ExpectedSets <- SetTarget
  SetOf <- SetUse
  TrackFamilies = 1
  KeyOrder <- Alphabet
  MaxBatch = 2
  Plan <- Plans
  Families <- FamilyFiles
  MaxEdits = 1
SPECIFICATION Spec
INVARIANT TypeOK
INVARIANT QueueIsTheDeficit
INVARIANT ClosingReachesTarget
INVARIANT WavesCanBeWorkedOff
INVARIANT CheckMeansCurrent
INVARIANT PageMatchesJson
