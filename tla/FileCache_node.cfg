SPECIFICATION Spec
CONSTANTS
  w1 = w1
  w2 = w2
  fa = fa
  fb = fb
  fc = fc
  fd = fd
  fe = fe
  b1 = b1
  b2 = b2
  b3 = b3
  b4 = b4
  b5 = b5
  NULL = NULL
  Worker = {w1, w2}
  File = {fa, fb, fc, fd, fe}
  Block = {b1, b2, b3, b4, b5}
  Size <- FileSize
  Hash <- SharedHash
  MaxSize = 4
SYMMETRY Interchangeable
INVARIANTS
  EvictFindsEveryNode
