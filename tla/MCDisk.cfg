\* A subdir's file changes, vanishes or locks behind the server's back. The server may crash.
SPECIFICATION Spec
CONSTANTS
  top = top
  sub = sub
  leaf = leaf
  NoText = NoText
  Absent = Absent
  Unreadable = Unreadable
  File <- Flat
  Root = top
  Content <- MCContent
  Includes <- FlatIncludes
  Faulty <- MCFaulty
  Volatile = {sub}
  OptionsStates = {"absent", "parsed", "malformed", "blank"}
  Wayward = FALSE
  MaxPipe = 2
  MaxCalls = 0
INVARIANTS TypeOK SettledMarks
CHECK_DEADLOCK FALSE
