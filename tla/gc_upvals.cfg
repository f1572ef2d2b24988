SPECIFICATION Spec
CONSTANTS
  MainThread = M
  Thread = {M, co}
  Table = {}
  Closure = {cl}
  UpVal = {uv}
  Udata = {}
  Str = {}
  Leaf = {}
  Holder = {}
  Meta = {}
  Mode = {{}}
  Key = {}
  StackSize = 2
  Frame = {2}
  NodeCount = 0
  BasicType = {}
  RefId = {}
  Collects = {}
  Page <- EachKind
  PageOf <- PagePerKind
  White0 = White0
  White1 = White1
  Nil = Nil
  DeadKey = DeadKey
SYMMETRY WhiteSymmetry
INVARIANTS NoDangling BlackNeverToWhite ColourDiscipline
