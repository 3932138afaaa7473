\* Every advertised call, documentHighlight among them.
SPECIFICATION FairSpec
CONSTANTS
  top = top
  sub = sub
  leaf = leaf
  NoText = NoText
  Absent = Absent
  Unreadable = Unreadable
  File <- Single
  Root = top
  Content <- MCContent
  Includes <- SingleIncludes
  Faulty <- MCFaulty
  Volatile = {}
  OptionsStates = {"absent"}
  Wayward = TRUE
  MaxPipe = 1
  MaxCalls = 1
PROPERTY AdvertisedCallAnswered
