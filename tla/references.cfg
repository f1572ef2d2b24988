SPECIFICATION Spec
CONSTANTS
  Object = Object
  Val <- Values
  INT_MAX = 5
  InitialCapacity = 1
  RegistrySize = 3
INVARIANTS PoolFits PoolList RegistryList NothingLeaks
PROPERTIES PoolImplements RegistryImplements
