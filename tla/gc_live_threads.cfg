SPECIFICATION FairSpec
CONSTANTS
  MainThread = M
  Thread = {M, co}
  Table = {}
  Closure = {cl}
  UpVal = {uv}
  Udata = {}
  Str = {}
  Leaf = {}
  Holder = {}
  Meta = {}
  Mode = {{}}
  Key = {}
  StackSize = 1
  Frame = {0, 1}
  NodeCount = 0
  BasicType = {}
  RefId = {}
  Collects = {M}
  Page <- EachKind
  PageOf <- PagePerKind
  White0 = White0
  White1 = White1
  Nil = Nil
  DeadKey = DeadKey
INVARIANTS TypeOK OpenUpvals
PROPERTIES GarbageIsFreed
