-------------------------- MODULE ReferencesProofs --------------------------
(* References implements RefMap, for any number of slots.                     *)
EXTENDS References, FiniteSetTheorems, TLAPS

-----------------------------------------------------------------------------
(* The pool.                                                                 *)

PoolType ==
  /\ ref_size \in 0..INT_MAX
  /\ ref_array \in [0..ref_size - 1 -> [tt : {"value", "none"}, value : Val \cup Nat]]
  /\ ref_free \in -1..ref_size - 1
  /\ poolrefs \subseteq 0..ref_size - 1
  /\ \A i \in 0..ref_size - 1 :
       ref_array[i].value \in IF i \in poolrefs THEN Val ELSE Nat

PoolInv ==
  /\ PoolType /\ PoolList
  /\ ref_capacity \in Nat /\ PoolFits

LEMMA InitPool == Init => PoolInv
  BY ReferencesAssumption
     DEF Init, PoolInv, PoolType, PoolList, PoolFits, FreeInPool

LEMMA NextPool == PoolInv /\ [Next]_vars => PoolInv'
  <1> SUFFICES ASSUME PoolInv, [Next]_vars PROVE PoolInv'
    OBVIOUS
  <1> USE ReferencesAssumption DEF PoolInv, PoolType, pool, reg
  <1>1. ASSUME NEW v \in Val, RefFreeSlot(v) PROVE PoolInv'
    <2> DEFINE f == ref_free
               next == ref_array[f].value
    <2>1. f \in FreeInPool /\ f \in 0..ref_size - 1 /\ f \notin poolrefs /\ next \in Nat
      BY <1>1 DEF RefFreeSlot, PoolList, FreeInPool
    <2>2. /\ ref_free' = IF next # 0 THEN next - 1 ELSE -1
          /\ ref_array' = [ref_array EXCEPT ![f] = InUse(v)]
          /\ poolrefs' = poolrefs \cup {f} /\ ref_size' = ref_size
          /\ ref_capacity' = ref_capacity
      BY <1>1 DEF RefFreeSlot
    <2>3. PoolNext(f) = next - 1
      BY DEF PoolNext
    <2>4. ref_free' # -1 => ref_free' \in FreeInPool /\ ref_free' # f
      BY <2>1, <2>2, <2>3 DEF PoolList
    <2>5. PoolType'
      BY <2>1, <2>2, <2>4 DEF InUse, FreeInPool
    <2>6. FreeInPool' = FreeInPool \ {f}
      BY <2>1, <2>2 DEF FreeInPool, InUse
    <2>7. \A i \in FreeInPool \ {f} : PoolNext(i)' = PoolNext(i)
      BY <2>1, <2>2 DEF FreeInPool, PoolNext
    <2>8. \A i \in FreeInPool : i \in 0..ref_size - 1 /\ PoolNext(i) \in Int
      BY DEF FreeInPool, PoolNext, PoolList
    <2>9. PoolList'
      <3>1. FreeInPool' = DOMAIN ref_array' \ poolrefs'
        BY <2>1, <2>2, <2>6 DEF PoolList
      <3>2. ref_free' # -1 => ref_free' \in FreeInPool'
        BY <2>4, <2>6
      <3>3. ASSUME NEW i \in FreeInPool'
            PROVE  /\ PoolNext(i)' # -1 => PoolNext(i)' \in FreeInPool' /\ PoolNext(i)' # ref_free'
                   /\ \A j \in FreeInPool' :
                        PoolNext(i)' = PoolNext(j)' => i = j \/ PoolNext(i)' = -1
        BY <2>1, <2>2, <2>3, <2>4, <2>6, <2>7, <2>8 DEF PoolList
      <3> QED
        BY <3>1, <3>2, <3>3 DEF PoolList
    <2> QED
      BY <2>2, <2>5, <2>9 DEF PoolFits
  <1>2. ASSUME NEW v \in Val, RefNewSlot(v) PROVE PoolInv'
    <2>1. /\ ref_free = -1 /\ ref_free' = -1 /\ ref_size # INT_MAX
          /\ ref_size' = ref_size + 1 /\ poolrefs' = poolrefs \cup {ref_size}
          /\ ref_array' = Extend(ref_array, ref_size, InUse(v))
          /\ ref_capacity' = IF ref_size >= ref_capacity THEN NewCapacity ELSE ref_capacity
      BY <1>2 DEF RefNewSlot
    <2>2. ref_array' = [j \in 0..ref_size |-> IF j = ref_size THEN InUse(v) ELSE ref_array[j]]
      BY <2>1 DEF Extend
    <2>3. PoolType'
      BY <2>1, <2>2 DEF InUse
    <2>4. FreeInPool' = FreeInPool /\ \A i \in FreeInPool : PoolNext(i)' = PoolNext(i)
      BY <2>2 DEF FreeInPool, PoolNext, InUse
    <2>5. PoolList'
      BY <2>1, <2>2, <2>4 DEF PoolList
    <2>6. ref_capacity' \in Nat /\ PoolFits'
      BY <2>1 DEF PoolFits, NewCapacity
    <2> QED
      BY <2>3, <2>5, <2>6
  <1>3. ASSUME NEW r \in poolrefs, UnrefPool(r) PROVE PoolInv'
    <2> DEFINE link == IF ref_free # -1 THEN ref_free + 1 ELSE 0
    <2>1. /\ ref_array' = [ref_array EXCEPT ![r] = Free(link)] /\ ref_free' = r
          /\ poolrefs' = poolrefs \ {r} /\ ref_size' = ref_size
          /\ ref_capacity' = ref_capacity
      BY <1>3 DEF UnrefPool
    <2>2. link \in Nat /\ r \in 0..ref_size - 1 /\ r \notin FreeInPool
      BY DEF PoolList
    <2>3. PoolType'
      BY <2>1, <2>2 DEF Free
    <2>4. FreeInPool' = FreeInPool \cup {r}
      BY <2>1, <2>2 DEF FreeInPool, Free
    <2>5. /\ PoolNext(r)' = link - 1
          /\ \A i \in FreeInPool : PoolNext(i)' = PoolNext(i)
      BY <2>1, <2>2 DEF FreeInPool, PoolNext, Free
    <2>6. link - 1 = ref_free
      BY DEF PoolType
    <2>7. \A i \in FreeInPool : i \in 0..ref_size - 1 /\ PoolNext(i) \in Int
      BY DEF FreeInPool, PoolNext, PoolList
    <2>8. PoolList'
      <3>1. FreeInPool' = DOMAIN ref_array' \ poolrefs'
        BY <2>1, <2>2, <2>4 DEF PoolList
      <3>2. ASSUME NEW i \in FreeInPool'
            PROVE  /\ PoolNext(i)' # -1 => PoolNext(i)' \in FreeInPool' /\ PoolNext(i)' # r
                   /\ \A j \in FreeInPool' :
                        PoolNext(i)' = PoolNext(j)' => i = j \/ PoolNext(i)' = -1
        BY <2>2, <2>4, <2>5, <2>6, <2>7 DEF PoolList
      <3> QED
        BY <2>1, <2>4, <3>1, <3>2 DEF PoolList
    <2> QED
      BY <2>1, <2>3, <2>8 DEF PoolFits
  <1>4. ASSUME UNCHANGED pool PROVE PoolInv'
    BY <1>4 DEF PoolList, PoolFits, FreeInPool, PoolNext
  <1>5. ASSUME NEW v \in Val, RefReuse(v) \/ RefAppend(v) PROVE PoolInv'
    BY <1>5, <1>4 DEF RefReuse, RefAppend
  <1>6. ASSUME NEW r \in regrefs, Unref(r) PROVE PoolInv'
    BY <1>6, <1>4 DEF Unref
  <1> HIDE DEF PoolInv
  <1> QED
    BY <1>1, <1>2, <1>3, <1>4, <1>5, <1>6 DEF Next, vars

\* The free slots of the pool are the unheld ones, in a list that never hands a
\* slot out twice.
THEOREM PoolListAlways == Spec => []PoolList
  <1>1. PoolInv => PoolList
    BY DEF PoolInv
  <1> QED
    BY InitPool, NextPool, <1>1, PTL DEF Spec

\* The pool never outgrows its memory, and its capacity never passes INT_MAX.
THEOREM PoolFitsAlways == Spec => []PoolFits
  <1>1. PoolInv => PoolFits
    BY DEF PoolInv
  <1> QED
    BY InitPool, NextPool, <1>1, PTL DEF Spec

\* The pool implements the map: a reference in use keeps its value, and a new one
\* differs from all of them, whichever slot it reuses.
THEOREM PoolRefines == Spec => PoolImplements
  <1> DEFINE map == [r \in poolrefs |-> ref_array[r].value]
  <1>1. Init => PoolMap!Init
    BY DEF Init, PoolMap!Init
  <1>2. PoolInv /\ [Next]_vars => [PoolMap!Next]_map
    <2> SUFFICES ASSUME PoolInv, [Next]_vars PROVE PoolMap!Next \/ map' = map
      OBVIOUS
    <2> USE DEF PoolInv, PoolType, pool, reg
    <2>1. ASSUME NEW v \in Val, RefFreeSlot(v) PROVE PoolMap!Next
      <3>1. /\ ref_free \in 0..ref_size - 1 /\ ref_free \notin poolrefs
            /\ ref_free \in 0..INT_MAX
        BY <2>1, ReferencesAssumption DEF RefFreeSlot, PoolList
      <3>2. PoolMap!Make(ref_free, v)
        BY <2>1, <3>1 DEF RefFreeSlot, InUse, PoolMap!Make
      <3> QED
        BY <3>1, <3>2 DEF PoolMap!Next
    <2>2. ASSUME NEW v \in Val, RefNewSlot(v) PROVE PoolMap!Next
      <3>1. ref_size \in 0..INT_MAX /\ ref_size \notin poolrefs
        BY ReferencesAssumption
      <3>2. PoolMap!Make(ref_size, v)
        BY <2>2, <3>1 DEF RefNewSlot, Extend, InUse, PoolMap!Make
      <3> QED
        BY <3>1, <3>2 DEF PoolMap!Next
    <2>3. ASSUME NEW r \in poolrefs, UnrefPool(r) PROVE PoolMap!Next
      <3>1. r \in 0..INT_MAX
        BY ReferencesAssumption
      <3>2. PoolMap!GiveBack(r)
        BY <2>3 DEF UnrefPool, Free, PoolMap!GiveBack
      <3> QED
        BY <3>1, <3>2 DEF PoolMap!Next
    <2>4. ASSUME UNCHANGED pool PROVE map' = map
      BY <2>4
    <2>5. ASSUME NEW v \in Val, RefReuse(v) \/ RefAppend(v) PROVE map' = map
      BY <2>5 DEF RefReuse, RefAppend
    <2>6. ASSUME NEW r \in regrefs, Unref(r) PROVE map' = map
      BY <2>6 DEF Unref
    <2> HIDE DEF map, PoolInv
    <2> QED
      BY <2>1, <2>2, <2>3, <2>4, <2>5, <2>6 DEF Next, vars
  <1> QED
    BY <1>1, <1>2, InitPool, NextPool, PTL DEF Spec, PoolImplements, PoolMap!Spec

-----------------------------------------------------------------------------
(* The registry.                                                             *)

RegistryType ==
  /\ \E n \in 0..RegistrySize : DOMAIN registry = 1..n
  /\ registry = [i \in DOMAIN registry |-> registry[i]]
  /\ registryfree \in Nat
  /\ regrefs \subseteq DOMAIN registry
  /\ \A i \in FreeInRegistry : registry[i] \in Nat

RegistryInv == RegistryType /\ RegistryList

LEMMA InitRegistry == Init => RegistryInv
  <1> SUFFICES ASSUME Init PROVE RegistryInv
    OBVIOUS
  <1>1. DOMAIN registry = 1..0 /\ 0 \in 0..RegistrySize
    BY ReferencesAssumption DEF Init
  <1> QED
    BY <1>1 DEF Init, RegistryInv, RegistryType, RegistryList, FreeInRegistry

\* The slot that lua_ref appends is the one after the last.
LEMMA AppendedSlot ==
  ASSUME RegistryType
  PROVE  /\ luaH_getn \in 0..RegistrySize /\ DOMAIN registry = 1..luaH_getn
         /\ luaH_getn + 1 \notin DOMAIN registry
  <1>1. PICK n \in 0..RegistrySize : DOMAIN registry = 1..n
    BY DEF RegistryType
  <1>2. Cardinality(1..n) = n
    BY <1>1, FS_Interval, ReferencesAssumption
  <1> QED
    BY <1>1, <1>2, ReferencesAssumption DEF luaH_getn

LEMMA NextRegistry == RegistryInv /\ [Next]_vars => RegistryInv'
  <1> SUFFICES ASSUME RegistryInv, [Next]_vars PROVE RegistryInv'
    OBVIOUS
  <1> USE ReferencesAssumption DEF RegistryInv, RegistryType, pool, reg
  <1>1. ASSUME NEW v \in Val, RefReuse(v) PROVE RegistryInv'
    <2> DEFINE f == registryfree
    <2>1. f \in FreeInRegistry /\ f # 0 /\ registry[f] \in Nat
      BY <1>1 DEF RefReuse, RegistryList
    <2>2. /\ registryfree' = registry[f] /\ registry' = [registry EXCEPT ![f] = v]
          /\ regrefs' = regrefs \cup {f}
      BY <1>1 DEF RefReuse
    <2>3. DOMAIN registry' = DOMAIN registry /\ FreeInRegistry' = FreeInRegistry \ {f}
      BY <2>1, <2>2 DEF FreeInRegistry
    <2>4. \A i \in FreeInRegistry \ {f} : registry'[i] = registry[i]
      BY <2>2 DEF FreeInRegistry
    <2>5. RegistryType'
      BY <2>1, <2>2, <2>3, <2>4 DEF FreeInRegistry
    <2>6. RegistryList'
      BY <2>1, <2>2, <2>3, <2>4 DEF RegistryList
    <2> QED
      BY <2>5, <2>6
  <1>2. ASSUME NEW v \in Val, RefAppend(v) PROVE RegistryInv'
    <2> DEFINE n == luaH_getn
    <2>1. n \in 0..RegistrySize /\ DOMAIN registry = 1..n /\ n + 1 \notin DOMAIN registry
      BY AppendedSlot
    <2>2. /\ registryfree = 0 /\ registryfree' = 0 /\ n < RegistrySize
          /\ registry' = [j \in DOMAIN registry \cup {n + 1} |->
                            IF j = n + 1 THEN v ELSE registry[j]]
          /\ regrefs' = regrefs \cup {n + 1}
      BY <1>2 DEF RefAppend, Extend
    <2> HIDE DEF n
    <2>3. DOMAIN registry' = 1..(n + 1) /\ n + 1 \in 0..RegistrySize
      BY <2>1, <2>2
    <2>4. /\ FreeInRegistry' = FreeInRegistry
          /\ \A i \in FreeInRegistry : registry'[i] = registry[i]
      BY <2>1, <2>2 DEF FreeInRegistry
    <2>5. RegistryType'
      <3>1. regrefs' \subseteq DOMAIN registry'
        BY <2>2
      <3>2. registry' = [i \in DOMAIN registry' |-> registry'[i]]
        BY <2>2
      <3> QED
        BY <2>2, <2>3, <2>4, <3>1, <3>2
    <2>6. RegistryList'
      <3>1. registryfree = 0 /\ registryfree' = 0
        BY <2>2
      <3> QED
        BY <2>4, <3>1 DEF RegistryList
    <2> QED
      BY <2>5, <2>6
  <1>3. ASSUME NEW r \in regrefs, Unref(r) PROVE RegistryInv'
    <2>1. /\ registry' = [registry EXCEPT ![r] = registryfree] /\ registryfree' = r
          /\ regrefs' = regrefs \ {r}
      BY <1>3 DEF Unref
    <2>2. r \in DOMAIN registry /\ r \in Nat \ {0} /\ r \notin FreeInRegistry
      BY DEF FreeInRegistry
    <2>3. /\ DOMAIN registry' = DOMAIN registry
          /\ FreeInRegistry' = FreeInRegistry \cup {r}
      BY <2>1, <2>2 DEF FreeInRegistry
    <2>4. /\ registry'[r] = registryfree
          /\ \A i \in FreeInRegistry : registry'[i] = registry[i]
      BY <2>1, <2>2 DEF FreeInRegistry
    <2>5. RegistryType'
      BY <2>1, <2>2, <2>3, <2>4
    <2>6. RegistryList'
      BY <2>1, <2>2, <2>3, <2>4 DEF RegistryList
    <2> QED
      BY <2>5, <2>6
  <1>4. ASSUME UNCHANGED reg PROVE RegistryInv'
    BY <1>4 DEF RegistryList, FreeInRegistry
  <1>5. ASSUME NEW v \in Val, RefFreeSlot(v) \/ RefNewSlot(v) PROVE RegistryInv'
    BY <1>5, <1>4 DEF RefFreeSlot, RefNewSlot
  <1>6. ASSUME NEW r \in poolrefs, UnrefPool(r) PROVE RegistryInv'
    BY <1>6, <1>4 DEF UnrefPool
  <1> HIDE DEF RegistryInv
  <1> QED
    BY <1>1, <1>2, <1>3, <1>4, <1>5, <1>6 DEF Next, vars

\* The registry implements the map too, though the numbers in its free slots
\* look like values.
THEOREM RegistryRefines == Spec => RegistryImplements
  <1> DEFINE map == [r \in regrefs |-> registry[r]]
  <1>1. Init => RegistryMap!Init
    BY DEF Init, RegistryMap!Init
  <1>2. RegistryInv /\ [Next]_vars => [RegistryMap!Next]_map
    <2> SUFFICES ASSUME RegistryInv, [Next]_vars PROVE RegistryMap!Next \/ map' = map
      OBVIOUS
    <2> USE DEF RegistryInv, RegistryType, pool, reg
    <2>0. DOMAIN registry \subseteq 1..RegistrySize
      BY ReferencesAssumption
    <2>1. ASSUME NEW v \in Val, RefReuse(v) PROVE RegistryMap!Next
      <3>1. /\ registryfree \in DOMAIN registry /\ registryfree \notin regrefs
            /\ registryfree \in 1..RegistrySize
        BY <2>0, <2>1 DEF RefReuse, RegistryList, FreeInRegistry
      <3>2. RegistryMap!Make(registryfree, v)
        BY <2>1, <3>1 DEF RefReuse, RegistryMap!Make
      <3> QED
        BY <3>1, <3>2 DEF RegistryMap!Next
    <2>2. ASSUME NEW v \in Val, RefAppend(v) PROVE RegistryMap!Next
      <3>1. luaH_getn + 1 \in 1..RegistrySize /\ luaH_getn + 1 \notin DOMAIN registry
        BY <2>2, AppendedSlot, ReferencesAssumption DEF RefAppend
      <3>2. RegistryMap!Make(luaH_getn + 1, v)
        BY <2>2, <3>1 DEF RefAppend, Extend, RegistryMap!Make
      <3> QED
        BY <3>1, <3>2 DEF RegistryMap!Next
    <2>3. ASSUME NEW r \in regrefs, Unref(r) PROVE RegistryMap!Next
      <3>1. r \in 1..RegistrySize
        BY <2>0
      <3>2. RegistryMap!GiveBack(r)
        BY <2>3 DEF Unref, RegistryMap!GiveBack
      <3> QED
        BY <3>1, <3>2 DEF RegistryMap!Next
    <2>4. ASSUME UNCHANGED reg PROVE map' = map
      BY <2>4
    <2>5. ASSUME NEW v \in Val, RefFreeSlot(v) \/ RefNewSlot(v) PROVE map' = map
      BY <2>5 DEF RefFreeSlot, RefNewSlot
    <2>6. ASSUME NEW r \in poolrefs, UnrefPool(r) PROVE map' = map
      BY <2>6 DEF UnrefPool
    <2> HIDE DEF map, RegistryInv
    <2> QED
      BY <2>1, <2>2, <2>3, <2>4, <2>5, <2>6 DEF Next, vars
  <1> QED
    BY <1>1, <1>2, InitRegistry, NextRegistry, PTL
       DEF Spec, RegistryImplements, RegistryMap!Spec

\* The free slots of the registry are those the host holds no reference to, in a
\* list that never hands a slot out twice.
THEOREM RegistryListAlways == Spec => []RegistryList
  <1>1. RegistryInv => RegistryList
    BY DEF RegistryInv
  <1> QED
    BY InitRegistry, NextRegistry, <1>1, PTL DEF Spec

-----------------------------------------------------------------------------
(* The lists hold every free slot.                                           *)

\* A list without its head.
LEMMA WalkPops ==
  ASSUME NEW S, NEW f \in S, NEW next, NEW next2, NEW end, f # end,
         WalkFinds(S, f, next, end), \A i \in S \ {f} : next2[i] = next[i]
  PROVE  WalkFinds(S \ {f}, next[f], next2, end)
  <1> SUFFICES ASSUME NEW T \in SUBSET (S \ {f}), next[f] # end => next[f] \in T,
                      \A i \in T : next2[i] # end => next2[i] \in T
               PROVE  T = S \ {f}
    BY DEF WalkFinds
  <1> DEFINE U == T \cup {f}
  <1>1. /\ U \in SUBSET S /\ f \in U
        /\ \A i \in U : next[i] # end => next[i] \in U
    OBVIOUS
  <1> HIDE DEF U
  <1>2. U = S
    BY <1>1 DEF WalkFinds
  <1> QED
    BY <1>2 DEF U

\* A list with a new head.
LEMMA WalkPushes ==
  ASSUME NEW S, NEW f, NEW next, NEW next2, NEW end, WalkFinds(S, f, next, end),
         f # end => f \in S, \A i \in S : next[i] # end => next[i] \in S,
         NEW r, r \notin S, r # end, next2[r] = f, \A i \in S : next2[i] = next[i]
  PROVE  WalkFinds(S \cup {r}, r, next2, end)
  <1> SUFFICES ASSUME NEW T \in SUBSET (S \cup {r}), r \in T,
                      \A i \in T : next2[i] # end => next2[i] \in T
               PROVE  T = S \cup {r}
    BY DEF WalkFinds
  <1>1. T \ {r} \in SUBSET S /\ (f # end => f \in T \ {r})
    OBVIOUS
  <1>2. \A i \in T \ {r} : next[i] # end => next[i] \in T \ {r}
    OBVIOUS
  <1>3. T \ {r} = S
    BY <1>1, <1>2 DEF WalkFinds
  <1> QED
    BY <1>3

\* A list that stays as it is.
LEMMA WalkStays ==
  ASSUME NEW S, NEW f, NEW next, NEW next2, NEW end, WalkFinds(S, f, next, end),
         \A i \in S : next2[i] = next[i]
  PROVE  WalkFinds(S, f, next2, end)
  BY DEF WalkFinds

PoolLinks == [i \in FreeInPool |-> PoolNext(i)]

LEMMA NextPoolFound ==
  PoolInv /\ [Next]_vars /\ WalkFinds(FreeInPool, ref_free, PoolLinks, -1)
    => WalkFinds(FreeInPool, ref_free, PoolLinks, -1)'
  <1> SUFFICES ASSUME PoolInv, [Next]_vars, WalkFinds(FreeInPool, ref_free, PoolLinks, -1)
               PROVE  WalkFinds(FreeInPool', ref_free', PoolLinks', -1)
    OBVIOUS
  <1> USE ReferencesAssumption DEF PoolInv, PoolType, pool, reg
  <1>0. \A i \in FreeInPool : /\ PoolLinks[i] = PoolNext(i) /\ i \in 0..ref_size - 1
                              /\ PoolNext(i) \in Int
                              /\ PoolNext(i) # -1 => PoolNext(i) \in FreeInPool
    BY DEF FreeInPool, PoolNext, PoolList, PoolLinks
  <1>1. ASSUME NEW v \in Val, RefFreeSlot(v)
        PROVE  WalkFinds(FreeInPool', ref_free', PoolLinks', -1)
    <2>1. /\ ref_free \in FreeInPool /\ ref_free # -1 /\ ref_array[ref_free].value \in Nat
          /\ ref_array' = [ref_array EXCEPT ![ref_free] = InUse(v)]
          /\ ref_free' = IF ref_array[ref_free].value # 0 THEN ref_array[ref_free].value - 1 ELSE -1
      BY <1>1 DEF RefFreeSlot, PoolList, FreeInPool
    <2>2. ref_free' = PoolLinks[ref_free]
      BY <2>1, <1>0 DEF PoolNext
    <2>3. /\ FreeInPool' = FreeInPool \ {ref_free}
          /\ \A i \in FreeInPool \ {ref_free} : PoolLinks'[i] = PoolLinks[i]
      BY <2>1, <1>0 DEF FreeInPool, PoolNext, InUse, PoolLinks
    <2>4. WalkFinds(FreeInPool \ {ref_free}, PoolLinks[ref_free], PoolLinks', -1)
      BY <2>1, <2>3, WalkPops
    <2> QED
      BY <2>2, <2>3, <2>4, Zenon
  <1>2. ASSUME NEW r \in poolrefs, UnrefPool(r)
        PROVE  WalkFinds(FreeInPool', ref_free', PoolLinks', -1)
    <2>1. /\ r \notin FreeInPool /\ r # -1 /\ r \in DOMAIN ref_array /\ ref_free' = r
          /\ ref_array' = [ref_array EXCEPT ![r] = Free(IF ref_free # -1 THEN ref_free + 1 ELSE 0)]
      BY <1>2 DEF UnrefPool, PoolList, FreeInPool
    <2>2. FreeInPool' = FreeInPool \cup {r}
      BY <2>1 DEF FreeInPool, Free
    <2>3. PoolLinks'[r] = ref_free /\ \A i \in FreeInPool : PoolLinks'[i] = PoolLinks[i]
      BY <2>1, <2>2, <1>0 DEF FreeInPool, PoolNext, Free, PoolLinks
    <2>4. ref_free # -1 => ref_free \in FreeInPool
      BY DEF PoolList
    <2> QED
      BY <2>1, <2>2, <2>3, <2>4, <1>0, WalkPushes
  <1>3. ASSUME FreeInPool' = FreeInPool, ref_free' = ref_free,
               \A i \in FreeInPool : PoolNext(i)' = PoolNext(i)
        PROVE  WalkFinds(FreeInPool', ref_free', PoolLinks', -1)
    <2>1. \A i \in FreeInPool : PoolLinks'[i] = PoolLinks[i]
      BY <1>3 DEF PoolLinks
    <2> QED
      BY <1>3, <2>1, WalkStays
  <1>4. ASSUME NEW v \in Val, RefNewSlot(v)
        PROVE  WalkFinds(FreeInPool', ref_free', PoolLinks', -1)
    <2>1. /\ ref_free' = ref_free
          /\ ref_array' = [j \in 0..ref_size |-> IF j = ref_size THEN InUse(v) ELSE ref_array[j]]
      BY <1>4 DEF RefNewSlot, Extend
    <2>2. FreeInPool' = FreeInPool /\ \A i \in FreeInPool : PoolNext(i)' = PoolNext(i)
      BY <2>1 DEF FreeInPool, PoolNext, InUse
    <2> QED
      BY <2>1, <2>2, <1>3
  <1>5. ASSUME UNCHANGED pool PROVE WalkFinds(FreeInPool', ref_free', PoolLinks', -1)
    BY <1>5, <1>3 DEF FreeInPool, PoolNext
  <1>6. ASSUME NEW v \in Val, RefReuse(v) \/ RefAppend(v) PROVE UNCHANGED pool
    BY <1>6 DEF RefReuse, RefAppend
  <1>7. ASSUME NEW r \in regrefs, Unref(r) PROVE UNCHANGED pool
    BY <1>7 DEF Unref
  <1> HIDE DEF PoolInv, pool
  <1> QED
    BY <1>1, <1>2, <1>4, <1>5, <1>6, <1>7 DEF Next, vars

LEMMA NextRegistryFound ==
  RegistryInv /\ [Next]_vars /\ WalkFinds(FreeInRegistry, registryfree, registry, 0)
    => WalkFinds(FreeInRegistry, registryfree, registry, 0)'
  <1> SUFFICES ASSUME RegistryInv, [Next]_vars,
                      WalkFinds(FreeInRegistry, registryfree, registry, 0)
               PROVE  WalkFinds(FreeInRegistry', registryfree', registry', 0)
    OBVIOUS
  <1> USE DEF RegistryInv, RegistryType, pool, reg
  <1>1. ASSUME NEW v \in Val, RefReuse(v)
        PROVE  WalkFinds(FreeInRegistry', registryfree', registry', 0)
    <2>1. /\ registryfree \in FreeInRegistry /\ registryfree # 0
          /\ registryfree' = registry[registryfree] /\ regrefs' = regrefs \cup {registryfree}
          /\ registry' = [registry EXCEPT ![registryfree] = v]
      BY <1>1 DEF RefReuse, RegistryList
    <2>2. /\ FreeInRegistry' = FreeInRegistry \ {registryfree}
          /\ \A i \in FreeInRegistry \ {registryfree} : registry'[i] = registry[i]
      BY <2>1 DEF FreeInRegistry
    <2> QED
      BY <2>1, <2>2, WalkPops
  <1>2. ASSUME NEW r \in regrefs, Unref(r)
        PROVE  WalkFinds(FreeInRegistry', registryfree', registry', 0)
    <2>1. /\ registry' = [registry EXCEPT ![r] = registryfree] /\ registryfree' = r
          /\ regrefs' = regrefs \ {r}
      BY <1>2 DEF Unref
    <2>2. r \in DOMAIN registry /\ r # 0 /\ r \notin FreeInRegistry
      BY ReferencesAssumption DEF FreeInRegistry
    <2>3. /\ FreeInRegistry' = FreeInRegistry \cup {r} /\ registry'[r] = registryfree
          /\ \A i \in FreeInRegistry : registry'[i] = registry[i]
      BY <2>1, <2>2 DEF FreeInRegistry
    <2>4. /\ registryfree # 0 => registryfree \in FreeInRegistry
          /\ \A i \in FreeInRegistry : registry[i] # 0 => registry[i] \in FreeInRegistry
      BY DEF RegistryList
    <2> QED
      BY <2>1, <2>2, <2>3, <2>4, WalkPushes
  <1>3. ASSUME NEW v \in Val, RefAppend(v)
        PROVE  WalkFinds(FreeInRegistry', registryfree', registry', 0)
    <2>1. luaH_getn + 1 \notin DOMAIN registry
      BY AppendedSlot
    <2>2. /\ registryfree' = registryfree /\ regrefs' = regrefs \cup {luaH_getn + 1}
          /\ registry' = [j \in DOMAIN registry \cup {luaH_getn + 1} |->
                            IF j = luaH_getn + 1 THEN v ELSE registry[j]]
      BY <1>3 DEF RefAppend, Extend
    <2>3. /\ FreeInRegistry' = FreeInRegistry
          /\ \A i \in FreeInRegistry : registry'[i] = registry[i]
      BY <2>1, <2>2 DEF FreeInRegistry
    <2> QED
      BY <2>2, <2>3, WalkStays
  <1>4. ASSUME UNCHANGED reg
        PROVE  WalkFinds(FreeInRegistry', registryfree', registry', 0)
    BY <1>4 DEF FreeInRegistry
  <1>5. ASSUME NEW v \in Val, RefFreeSlot(v) \/ RefNewSlot(v) PROVE UNCHANGED reg
    BY <1>5 DEF RefFreeSlot, RefNewSlot
  <1>6. ASSUME NEW r \in poolrefs, UnrefPool(r) PROVE UNCHANGED reg
    BY <1>6 DEF UnrefPool
  <1> HIDE DEF RegistryInv, reg
  <1> QED
    BY <1>1, <1>2, <1>3, <1>4, <1>5, <1>6 DEF Next, vars

\* Every slot that was given back is found again, in both tables: a table grows
\* only when all its slots are in use.
THEOREM NothingLeaksAlways == Spec => []NothingLeaks
  <1> DEFINE Found == /\ PoolInv /\ WalkFinds(FreeInPool, ref_free, PoolLinks, -1)
                      /\ RegistryInv /\ WalkFinds(FreeInRegistry, registryfree, registry, 0)
  <1>1. Init => Found
    <2> SUFFICES ASSUME Init PROVE Found
      OBVIOUS
    <2>1. FreeInPool = {} /\ FreeInRegistry = {}
      BY DEF Init, FreeInPool, FreeInRegistry
    <2> QED
      BY <2>1, InitPool, InitRegistry DEF WalkFinds
  <1>2. Found /\ [Next]_vars => Found'
    BY NextPool, NextRegistry, NextPoolFound, NextRegistryFound
  <1>3. Found => NothingLeaks
    BY DEF NothingLeaks, PoolLinks
  <1> QED
    BY <1>1, <1>2, <1>3, PTL DEF Spec
=============================================================================
