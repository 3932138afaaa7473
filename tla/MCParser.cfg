\* Parses of every text of at most MaxTokens tokens, alone and after a broken call. A product of 2048 wraps.
CONSTANTS
  Word = 2048
  MAX_LINK_COUNT = 2
  MAX_ITERATOR_COUNT = 2
  MAX_VERSION_COUNT = 6
  MAX_VERSION_COUNT_OVERFLOW = 4
  MAX_SUMMARY_DEPTH = 16
  MaxTokens = 4
  Visible <- MCVisible
  Table <- MCTable
  Goto <- MCGoto
  Texts <- MCTexts
SPECIFICATION Spec
INVARIANTS
  CountsExact
  AssertionsHold
  Lossless
  ErrorsIffInvalid
  WorkBounded
PROPERTIES
  BestFirst
