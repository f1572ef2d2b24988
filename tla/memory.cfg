CONSTANTS
  short1 = short1  short2 = short2  long1 = long1
  None = None
  Page = {p1, p2, p3}
  Blocks = 2
  Content = {short1, short2, long1}
  Long = {long1}
  Hash <- Hashes
  Memory = {m}
  MaxObjects = 3
  MaxBuilding = 1
  LUA_MINSTRTABSIZE = 1
SPECIFICATION Spec
SYMMETRY PageSymmetry
INVARIANTS BlocksAccounted PageLists Interned ReleasedOnce
CHECK_DEADLOCK FALSE
