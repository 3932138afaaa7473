\* The documentation written when the program is built and read when it starts.
CONSTANTS
  tgt = tgt
  build_tgt = build_tgt
  exe = exe
  file = file
  full_path = full_path
  path = path
  text = text
  long = long
  None = None
  Class <- MCClass
  Super <- MCSuper
  Methods <- MCMethods
  Length <- MCLength
  Files <- MCFiles
  Word = 4096
SPECIFICATION Spec
INVARIANTS
  LeftExact
  RoundTrip
  Restored
PROPERTIES Populated
CHECK_DEADLOCK FALSE
