CONSTANTS
  File = {f1, f2}
  f1 = f1
  f2 = f2
  Long = {l1}
  l1 = l1
  Endings <- SomeEndings
  Text <- Texts
  Limit = 3
  MaxTests = 2
  MaxOutput = 2
  MaxEvents = 2
  Capture = 1
SPECIFICATION Spec
CONSTRAINT FewEvents
CHECK_DEADLOCK FALSE
INVARIANT TranscriptIsBounded
