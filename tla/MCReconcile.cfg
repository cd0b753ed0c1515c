SPECIFICATION FairSpec
CONSTANTS
  sd = sd
  uhd = uhd
  en = en
  Tags <- MCTags
  TagsOf <- MCTagsOf
  Items = {i1, i2}
  MaxVer = 2
  Threshold = 1
  BatchSize = 1
  Faults = {"lose", "break", "read", "write", "unrecorded", "process", "listing", "clear", "cancel", "commit", "restart"}
  MaxFaults = 2
INVARIANTS HaltHolds
PROPERTIES OnlyAddsBack UnreachableIsSkipped AlarmStays LossIsRepaired
