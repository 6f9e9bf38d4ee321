SPECIFICATION LocalSpec
CONSTANTS
  k1 = k1  k2 = k2  k3 = k3  v1 = v1  v2 = v2  empty = empty
  NoValue = NoValue
  EmptyKey = empty
  Clients = {}
  Mortal = {}
  Keys = {k1, k3}
  Sought = {}
  Values = {v1, v2}
  Opcodes = {}
  IndexNum = 2
  BucketNum = 3
  LineNum = 3
  Home <- LastHome
  RecvDepth = 2
  MaxRlock = 4
  UintMod = 65536
INVARIANTS ValidCovered InsertHonest
PROPERTIES StaysFound NothingLost
CONSTRAINT OneKeyTwoValues
