\* What the analysis says of the variables of short build files.
CONSTANTS
  Statements <- MCStatements
  MaxStatements = 3
  MaxDepth = 2
  Addresses <- MCAddresses
SPECIFICATION Spec
INVARIANTS
  Sound
  NoFalseAlarm
  EachTypeOnce
CHECK_DEADLOCK FALSE
