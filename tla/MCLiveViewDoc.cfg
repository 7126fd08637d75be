\* Who reads the keyboard while publish asks for confirmation.
SPECIFICATION Spec

CONSTANTS
  Asset = {"a", "b"}
  Doc = "doc"
  Size <- MCSize
  Elsewhere = "other"
  MaxPresses = 0

INVARIANT
  PromptHasTheTerminal

CHECK_DEADLOCK FALSE
