\* Two calls among edits: the abstract specification, and liveness.
SPECIFICATION FairSpec
CONSTANTS
  top = top
  sub = sub
  leaf = leaf
  NoText = NoText
  Absent = Absent
  Unreadable = Unreadable
  File <- Single
  Root = top
  Content <- MCContent
  Includes <- SingleIncludes
  Faulty <- MCFaulty
  Volatile = {}
  OptionsStates = {"absent"}
  Wayward = TRUE
  MaxPipe = 2
  MaxCalls = 2
PROPERTIES RepliesSpec HandledCallAnswered Converges
