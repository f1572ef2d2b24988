SPECIFICATION Spec
CONSTANTS
  MainThread = M
  Thread = {M}
  Table = {m, t}
  Closure = {}
  UpVal = {}
  Udata = {}
  Str = {s}
  Leaf = {b}
  Holder = {t}
  Meta = {m}
  Mode = {{}, {"k"}, {"v"}, {"k", "v"}}
  Key = {b}
  StackSize = 2
  Frame = {2}
  NodeCount = 1
  BasicType = {}
  RefId = {}
  Collects = {}
  Page <- EachKind
  PageOf <- PagePerKind
  White0 = White0
  White1 = White1
  Nil = Nil
  DeadKey = DeadKey
SYMMETRY WhiteSymmetry
INVARIANTS NoDangling BlackNeverToWhite
PROPERTIES WeakEntriesKept
