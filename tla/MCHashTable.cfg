SPECIFICATION Spec
CONSTANTS
  k1 = k1
  k2 = k2
  k3 = k3
  NULL = NULL
  Keys = {k1, k2, k3}
  Values = {NULL, v}
  CAPACITY = 2
  Hash <- MCHash
  NodeAddrs = {a1, a2, a3}
  KeyAddrs = {c1, c2, c3}
INVARIANTS TypeOK NoLeak
PROPERTIES MapSpec Returns
