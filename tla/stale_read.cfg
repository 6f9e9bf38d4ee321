SPECIFICATION Spec
CONSTANTS
  k1 = k1  k2 = k2  k3 = k3  c1 = c1  c2 = c2  v1 = v1  v2 = v2  empty = empty
  NoValue = NoValue
  EmptyKey = empty
  Clients = {c1}
  Mortal = {}
  Keys = {k1}
  Sought = {k1}
  Values = {v1, v2}
  Opcodes = {2}
  IndexNum = 1
  BucketNum = 2
  LineNum = 3
  Home <- OneHome
  RecvDepth = 2
  MaxRlock = 4
  UintMod = 65536
INVARIANT ReadYourWrite
