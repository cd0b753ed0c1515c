SPECIFICATION Spec
CONSTANTS
  Items = {"a", "b"}
  Tag <- MCTag
  Resolutions = {"1080p", "720p"}
  Starts <- MCStarts
  BatchSize = 2
  Faults = {"missing", "write", "undone", "read"}
  MaxFaults = 2
  MaxEdits = 1
INVARIANTS CleanUpIsFinal RowSaysWhatIsThere OneAtATime
PROPERTIES ShownIsDone
