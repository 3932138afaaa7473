\* A file that includes another twice. Building and merging come to an end.
SPECIFICATION MergeSpec
CONSTANTS
  Dir <- MCDir
  Top = "/"
  Exists <- MCExists
  Stmt <- MCStmt
  Arg <- MCArg
  Literal <- MCLiteral
  Resolve <- MCResolve
  Programs <- TwicePrograms
  Skipped = "skipped"
  NullNode = "null"
  NoTree = NoTree
  MaxDepth = 4
INVARIANT MergedInOrder
CHECK_DEADLOCK FALSE
