CONSTANTS
  First <- MCFirst
  NewPaths = {}
  Texts <- MCTexts
  Trim <- MCTrim
  Replaces <- MCReplaces
  Patches <- MCPatches
  MaxEdits = 2
  MaxAtOnce = 1
SPECIFICATION EditsSpec
PROPERTY UndoTakesLastEdit
CHECK_DEADLOCK FALSE
