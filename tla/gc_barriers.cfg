SPECIFICATION HostSpec
CONSTANTS
  MainThread = M
  Thread = {M, co}
  Table = {}
  Closure = {c1, c2}
  UpVal = {uv}
  Udata = {}
  Str = {s}
  Leaf = {b}
  Holder = {}
  Meta = {}
  Mode = {{}}
  Key = {}
  StackSize = 2
  Frame = {2}
  NodeCount = 0
  BasicType = {}
  RefId = {}
  Collects = {}
  Page <- EachKind
  PageOf <- PagePerKind
  White0 = White0
  White1 = White1
  Nil = Nil
  DeadKey = DeadKey
SYMMETRY WhiteSymmetry
INVARIANTS BlackNeverToWhite
