SPECIFICATION Spec
CONSTANTS
  k1 = k1  k2 = k2  k3 = k3  c1 = c1  c2 = c2  v1 = v1  v2 = v2  empty = empty
  NoValue = NoValue
  EmptyKey = empty
  Clients = {c1}
  Mortal = {c1}
  Keys = {k1, k2}
  Sought = {k1}
  Values = {v1, v2}
  Opcodes = {2, 3}
  IndexNum = 1
  BucketNum = 2
  LineNum = 3
  Home <- OneHome
  RecvDepth = 1
  MaxRlock = 4
  UintMod = 65536
INVARIANTS TypeOK KeyUnique FreeCountHonest SearchHits
PROPERTY ImplementsMap
CONSTRAINT OneKeyUpdated
