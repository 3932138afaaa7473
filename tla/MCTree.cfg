\* Calls that lead down, up and to the directory itself, and room for three. Building and merging
\* come to an end, or the process dies.
SPECIFICATION FairMergeSpec
CONSTANTS
  Dir <- MCDir
  Top = "/"
  Exists <- MCExists
  Stmt <- TreeStmt
  Arg <- MCArg
  Literal <- MCLiteral
  Resolve <- MCResolve
  Programs <- TreePrograms
  Skipped = "skipped"
  NullNode = "null"
  NoTree = NoTree
  MaxDepth = 3
INVARIANTS DiesIffDoomed TreeComplete MergedInOrder
PROPERTY MergeEnds
CHECK_DEADLOCK FALSE
