SPECIFICATION HiddenSpec
CONSTANTS
  t1 = t1
  t2 = t2
  NULL = NULL
  EMPTY = EMPTY
  Threads <- MCThreads
  Sizes <- MCSizes
  OutLens <- MCOutLens
INVARIANTS
  HiddenTypeOK
  NeverSkips
  RunsWhatIsMeant
  StreamIsCyclic
  FailsClosed
PROPERTY ReadReturns
