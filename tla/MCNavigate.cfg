\* A foreach that assigns its own variable.
SPECIFICATION Spec
CONSTANTS
  top = top
  sub = sub
  leaf = leaf
  Nothing = Nothing
  File <- MCFile
  Node <- MCNode
  Root = top
  Name = {"x", "y"}
  Targets <- MCTargets
  Texts <- LoopTexts
  Cursors <- MCCursors
INVARIANT NearestDefinition
CHECK_DEADLOCK FALSE
