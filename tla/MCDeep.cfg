\* Three nested directories: diagnostics of the innermost are never cleared.
SPECIFICATION Spec
CONSTANTS
  top = top
  sub = sub
  leaf = leaf
  NoText = NoText
  Absent = Absent
  Unreadable = Unreadable
  File <- Deep
  Root = top
  Content <- MCContent
  Includes <- DeepIncludes
  Faulty <- MCFaulty
  Volatile = {}
  OptionsStates = {"absent"}
  Wayward = FALSE
  MaxPipe = 1
  MaxCalls = 0
INVARIANT NoStaleDiagnostics
