\* A call overtaken by edits, saves and discards of two files.
SPECIFICATION Spec
CONSTANTS
  top = top
  sub = sub
  leaf = leaf
  NoText = NoText
  Absent = Absent
  Unreadable = Unreadable
  File <- Flat
  Root = top
  Content <- MCContent
  Includes <- FlatIncludes
  Faulty <- MCFaulty
  Volatile = {}
  OptionsStates = {"absent"}
  Wayward = TRUE
  MaxPipe = 2
  MaxCalls = 1
INVARIANTS AnswersFresh OverlayFaithful NoStaleDiagnostics SettledTree
