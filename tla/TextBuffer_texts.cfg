SPECIFICATION Spec
CONSTANTS
  Alphabets <- MCAlphabets
  Keys <- MCKeys
  Values <- MCValues
  Code <- MCCode
  MaxText = 6
INVARIANTS TrimIsTight LinesKeepThePage PiecesAreFound
  SubstReversible CutsRejoin SectionIsBalanced
  QuotesFactored NumbersReadBack
CHECK_DEADLOCK FALSE
