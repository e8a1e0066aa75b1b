\* Three processes start, die and start again over every kind of database.
SPECIFICATION FairSpec
CONSTANTS
  p1 = p1
  p2 = p2
  p3 = p3
  Processes = {p1, p2, p3}
  AutoMigrate <- TwoMigrate
INVARIANTS
  RecordedIsComplete
  AppliedOnce
  ServesLatestSchema
PROPERTIES
  StartEnds
