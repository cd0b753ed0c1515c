SPECIFICATION Spec
CONSTANTS
  Labels <- MCLabels
  MaxGroups = 2
  Groups <- MCGroups
  Jobs <- MCJobs
  Width <- MCWidth
  CountWidth <- MCCountWidth
  PillH = 2
  RowGap = 1
  ColGap = 1
  Margin = 1
  RowBudget = 2
  Streams = 3
  Items <- MCItems
  Codes <- MCCodes
  Short <- MCShort
  LangMap <- MCLangMap
  OtherLabels <- MCOtherLabels
  Upper <- MCUpper
  CodecMap <- MCCodecMap
  Fields <- MCFields
  Written <- MCWritten
  Picked <- MCPicked
  Hex <- MCHex
  NewDefault <- MCNewDefault
  OldDefaults <- MCOldDefaults
  Capitals <- MCCapitals
  Linear <- MCLinear
  GlyphW <- MCGlyphW
  GlyphH <- MCGlyphH
  Halo = 100
  Says <- MCSays
  Looks <- MCLooks
  Forms <- MCForms
  Posters <- MCPosters
  MaxTiles = 1
  Widths = {494, 501}
  Shades = {0, 97, 105, 255}
  Heights = {3, 6, 9, 12}
  Canvases = {8, 14}
  RatingWidth = 4
  Sizes = {0, 480, 576, 683, 684, 811, 812, 854, 1026, 1080, 1215, 1216, 1280, 1440, 1604, 1823, 1824, 1920, 2051, 2052, 2160, 3584, 3647, 3648, 3840}
INVARIANTS DrawnOrCounted NothingOverlaps BadgesReadAsTold TagsTellTheFile SettingsSettle
CHECK_DEADLOCK FALSE
