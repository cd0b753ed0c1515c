SPECIFICATION FairSpec
CONSTANTS
  A = A B = B C = C Season = Season nowhere = nowhere
  o1 = o1 o2 = o2 o3 = o3
  Items <- MCItems
  Objs = {o1, o2, o3}
  Folders = {A, B, C, Season, nowhere}
  Elsewhere = nowhere
  InstOf <- MCInstOf
  ItemFolders <- MCItemFolders
  RowFolders <- MCRowFolders
  Listed0 <- MCListed
  Paths0 <- MCPaths
  PageSize = 2
  Part = 1
  Whole = 2
  Faults = {"remove", "add", "dry", "edit", "move", "delete", "blind", "request", "commit", "crash"}
  MaxFaults = 2
PROPERTIES OnlyGoneRows LiveFolderKept RowsOutliveTags GoneRowsGo
