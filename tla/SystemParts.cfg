CONSTANTS
  Folder = {"f", "g"}
  Archive = {"g"}
  Name = {"x", "x.prop"}
  Chopped <- PropertyNames
  Nowhere = ""
  Unknown = "?"
  MaxList = 2
  MaxQueue = 2
  MaxBurst = 4
  MaxPosted = 1
  Upper <- UpperOf
  Trees <- Disks
  Paths <- Written
  ArgumentLines <- OptionLines
  Options <- TwoOptions
  Values = {"no", "yes"}
  None = "none"
  Width = 2
  MaxSets = 2
  Beside <- DataNames
  Given = {"g", "h", "h/", "/k"}
  Relative = {"g", "h", "h/"}
  Ended = {"h/"}
  ProjectLines <- NameLines
  Ram = {16, 36, 40, 50, 64, 65, 100, 128, 200, 300, 512, 513, 1024, 2047, 4096, 5120, 8000}
  CacheOptions <- Sizes
  Huge = 1000000
  Plugin = {"p", "q", "r"}
  MaxThreads = 3
  Bitmap = {"a", "b"}
  MaxDepth = 2
  MaxNative = 3
SPECIFICATION PartsSpec
INVARIANTS
  PartsTypeOK
  PlacedAsSearched
  WorkersAgree
  SurroundingsAgree
PROPERTIES
  GoesOn
  OthersUntouched
CHECK_DEADLOCK FALSE
