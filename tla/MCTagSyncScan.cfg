SPECIFICATION FairSpec
CONSTANTS
  Items = {i1, i2}
  Hooks = {}
  Scan = scan
  UserTags = {}
  MaxVer = 2
  MaxCfg = 2
  MaxSaves = 2
  BatchSize = 2
  Faults = {"write", "readback", "probe", "unmount", "cancel", "crash", "read"}
  MaxFaults = 2
INVARIANTS SkippedIsTagged RetagIsDone RowIsLastWrite
PROPERTIES Converges
