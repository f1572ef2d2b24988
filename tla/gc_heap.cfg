SPECIFICATION Spec
CONSTANTS
  MainThread = M
  Thread = {M}
  Table = {t, m}
  Closure = {}
  UpVal = {}
  Udata = {u}
  Str = {}
  Leaf = {}
  Holder = {t}
  Meta = {m}
  Mode = {{}}
  Key = {}
  StackSize = 2
  Frame = {2}
  NodeCount = 1
  BasicType = {number}
  RefId = {r}
  Collects = {M}
  Page <- EachKind
  PageOf <- PagePerKind
  White0 = White0
  White1 = White1
  Nil = Nil
  DeadKey = DeadKey
SYMMETRY WhiteSymmetry
INVARIANTS NoDangling BlackNeverToWhite GrayLists DeadOnlyInSweep
