SPECIFICATION Spec
CONSTANTS
  Items = {i1}
  Hooks = {h1}
  Scan = scan
  UserTags = {u1}
  MaxVer = 2
  MaxCfg = 1
  MaxSaves = 0
  BatchSize = 1
  Faults = {"undo", "stale", "probe", "unmount"}
  MaxFaults = 2
PROPERTIES KeepsUserTags AheadOnlyAfterLostRetry
