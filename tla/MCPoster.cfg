SPECIFICATION FairSpec
CONSTANTS
  Scan = scan
  Hooks = {h1, h2}
  Faults = {"copy", "save", "crash"}
  MaxFaults = 3
INVARIANTS BadgesNeverStack OriginalIsKept
PROPERTIES TruncatedIsRedrawn
