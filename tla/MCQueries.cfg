\* Every call at every place of small projects.
SPECIFICATION Spec
CONSTANTS
  top = top
  sub = sub
  leaf = leaf
  Nothing = Nothing
  File <- MCFile
  Node <- MCNode
  Root = top
  Name = {"x", "y"}
  Targets <- MCTargets
  Texts <- MCTexts
  Cursors <- MCCursors
INVARIANTS VariableRecognised NearestDefinition SubdirFollowed SymbolsOfFile
CHECK_DEADLOCK FALSE
