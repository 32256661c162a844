CONSTANTS
  K32Threads = {}
  RtlWriters = {w1}
  RtlReaders = {r1, r2}
  WORD = 16
SPECIFICATION Spec
INVARIANT ReadersCounted
