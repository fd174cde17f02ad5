SPECIFICATION PracticeSpec
CONSTANTS
  k1 = k1
  k2 = k2
  NULL = NULL
  Keys = {k1, k2}
  Values = {NULL, v}
  CAPACITY = 2
  Hash <- MCHash
  NodeAddrs = {a1, a2}
  KeyAddrs = {c1, c2}
INVARIANT NothingOutlivesDestroy
CHECK_DEADLOCK FALSE
