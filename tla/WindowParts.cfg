CONSTANTS
  Window = {"m", "a", "b"}
  None = "none"
  MaxFrames = 3
  Orderly = TRUE
  WideFrames = 1
  Few = {"m", "a"}
  Char = {"x", "y"}
  MaxComp = 2
  MaxText = 4
  Keys = {"LSHIFT", "RSHIFT", "RCTRL"}
  Buttons = {"XBUTTON1"}
  Controllers = {"c1", "c2"}
  Inner <- InnerSizes
  WindowSizes <- OuterSizes
  Desktop <- FullSize
  MaxWidth = 3
  Colours = {0, 1}
SPECIFICATION PartsSpec
INVARIANTS
  PartsTypeOK
  WindowsWhole
  InputAgrees
  PictureFits
PROPERTIES
  InputArrives
  EndUnwinds
CHECK_DEADLOCK FALSE
