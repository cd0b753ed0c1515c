SPECIFICATION Spec
CONSTANTS
  i1 = i1
  i2 = i2
  o1 = o1
  o2 = o2
  hd = hd
  uhd = uhd
  sd = sd
  bad = bad
  Items <- MCItems
  Objs <- MCObjs
  Insts = {"main", "uhd"}
  Tags <- MCTags
  InstOf <- TwoInstances
  Refuses <- RefusesBad
  Libraries <- MCLibraries
  TagsOf <- MCTagsOf
  MaxVer = 2
  Scan = scan
  Hooks = {h1}
  Faults = {"edit", "move", "delete", "retag", "mode", "preload", "hook", "jellyfin", "request", "refuse", "cancel", "dryrun", "restart"}
  MaxFaults = 2
PROPERTIES OwnTagsOnly ClaimedTwiceIsLeftAlone CleanScanIsExact HaltedWritesNothing AlarmStays
