SPECIFICATION MemorySpec
CONSTANTS
  b1 = b1
  b2 = b2
  b3 = b3
  b4 = b4
  b5 = b5
  cthread = cthread
  rthread = rthread
  NULL = NULL
  Main = Main
  Workers = {w1, w2}
  BURN = 7
  DEPTH = 10
  Blocks <- MCBlocks
  CThreads <- MCCThreads
  RustThreads <- MCRustThreads
SYMMETRY BlockSymmetry
INVARIANTS
  TypeOK
  OneOwner
  OnlyDecodedRemains
  WholeOrNothing
  NothingLeftBehind
