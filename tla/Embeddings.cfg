\* Two calls embed overlapping texts; requests fail, are retried and are answered in any order.
SPECIFICATION FairSpec
CONSTANTS
  x = x
  y = y
  Texts = {x, y}
  Callers = {c1, c2}
  Null = Null
  Inputs <- ThreeInputs
  Configurations <- FiveConfigurations
INVARIANTS
  OwnVectors
PROPERTIES
  FailuresCacheNothing
  LearnsWhatFits
  EveryCallEnds
CHECK_DEADLOCK FALSE
