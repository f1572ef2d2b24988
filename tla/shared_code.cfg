SPECIFICATION Spec
CONSTANTS
  VM = {v1, v2, v3}
  Id = {i}
  Anon = Anon
  Proto = {p, q}
  Module = {m1, m2}
  None = None
SYMMETRY SharedCodeSymmetry
INVARIANTS CountsHolders HeldIsAlive OneModulePerId NothingLeft
