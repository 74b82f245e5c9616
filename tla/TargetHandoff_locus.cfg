SPECIFICATION Spec
CONSTANTS
  Readers = {"r1", "r2"}
  Order <- MCOrder
  ReaderOf <- MCTwoReaders
  Records = {1, 2}
  MatchOf <- MCMatch
  Steady = FALSE
  None = None
INVARIANT LocusWasSeen
