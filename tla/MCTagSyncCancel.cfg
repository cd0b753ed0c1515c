SPECIFICATION Spec
CONSTANTS
  Items = {i1, i2}
  Hooks = {}
  Scan = scan
  UserTags = {}
  MaxVer = 1
  MaxCfg = 2
  MaxSaves = 1
  BatchSize = 1
  Faults = {"cancel"}
  MaxFaults = 1
INVARIANTS NoRetagIsOwed
