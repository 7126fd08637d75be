\* Two assets that move bytes, and up to three presses of Ctrl-C.
SPECIFICATION FairSpec

CONSTANTS
  Asset = {"a", "b"}
  Doc = "doc"
  Size <- MCSize
  Elsewhere = "other"
  MaxPresses = 3

INVARIANTS
  TicksWhileActive
  FinalPaintIsWhole

PROPERTIES
  SettledRowsStay
  ViewCloses

CHECK_DEADLOCK FALSE
