------------------------------ MODULE References ------------------------------
(* The two tables of references a host keeps to values of the virtual machine *)
(* (VM/src/lapi.cpp): the registry behind lua_ref and the pool behind          *)
(* lua_refpool.  Both thread a list of free slots through the slots            *)
(* themselves.  The values in the pool are roots of the collector, see module  *)
(* GarbageCollection.                                                          *)
EXTENDS Integers, FiniteSets

CONSTANTS
  Val,              \* values that are not nil
  INT_MAX,
  InitialCapacity,  \* 64, the capacity of the first array
  RegistrySize      \* bound on the size of the registry

ASSUME ReferencesAssumption ==
  /\ INT_MAX \in Nat \ {0}
  /\ InitialCapacity \in 1..INT_MAX
  /\ RegistrySize \in Nat

VARIABLES
  ref_array,     \* the slots of the pool below ref_size
  ref_size,
  ref_capacity,
  ref_free,      \* the first free slot, or -1
  poolrefs,      \* the references to the pool that the host holds
  registry,      \* the array part of the registry, from 1
  registryfree,  \* its first free slot, or 0
  regrefs        \* the references to the registry that the host holds

pool == <<ref_array, ref_size, ref_capacity, ref_free, poolrefs>>
reg == <<registry, registryfree, regrefs>>
vars == <<pool, reg>>

\* LUA_TNONE marks a free slot; value.p is 0 at the end of the list and the
\* next free slot plus one before it.
InUse(v) == [tt |-> "value", value |-> v]
Free(p) == [tt |-> "none", value |-> p]

Init ==
  /\ ref_array = [i \in {} |-> i]
  /\ ref_size = 0 /\ ref_capacity = 0 /\ ref_free = -1
  /\ poolrefs = {}
  /\ registry = [i \in {} |-> i]
  /\ registryfree = 0
  /\ regrefs = {}

-----------------------------------------------------------------------------
(* The pool.                                                                 *)

Extend(f, i, x) == [j \in DOMAIN f \cup {i} |-> IF j = i THEN x ELSE f[j]]

\* Doubled, up to INT_MAX.
NewCapacityWraps ==
  IF ref_capacity = 0 THEN InitialCapacity ELSE ref_capacity * 2
NewCapacity ==
  IF ref_capacity = 0 THEN InitialCapacity
  ELSE IF ref_capacity < INT_MAX \div 2 THEN ref_capacity * 2 ELSE INT_MAX

\* lua_refpool, when it reuses a free slot.
RefFreeSlotStuck(v) ==
  /\ ref_free # -1
  /\ ref_array' = [ref_array EXCEPT ![ref_free] = InUse(v)]
  /\ poolrefs' = poolrefs \cup {ref_free}
  /\ UNCHANGED <<ref_free, ref_size, ref_capacity, reg>>
RefFreeSlot(v) ==
  /\ ref_free # -1
  /\ LET next == ref_array[ref_free].value
     IN ref_free' = IF next # 0 THEN next - 1 ELSE -1
  /\ ref_array' = [ref_array EXCEPT ![ref_free] = InUse(v)]
  /\ poolrefs' = poolrefs \cup {ref_free}
  /\ UNCHANGED <<ref_size, ref_capacity, reg>>

\* lua_refpool, when it appends one.  A full pool returns LUA_REFNIL and changes
\* nothing; luaM_reallocarray throws before anything has changed.
RefNewSlot(v) ==
  /\ ref_free = -1
  /\ ref_size # INT_MAX
  /\ ref_capacity' = IF ref_size >= ref_capacity THEN NewCapacity ELSE ref_capacity
  /\ ref_array' = Extend(ref_array, ref_size, InUse(v))
  /\ poolrefs' = poolrefs \cup {ref_size}
  /\ ref_size' = ref_size + 1
  /\ UNCHANGED <<ref_free, reg>>

\* lua_unrefpool, of a reference the host holds (api_check).
UnrefPoolUnlinked(r) ==
  /\ r \in poolrefs
  /\ ref_array' = [ref_array EXCEPT ![r] = Free(0)]
  /\ ref_free' = r
  /\ poolrefs' = poolrefs \ {r}
  /\ UNCHANGED <<ref_size, ref_capacity, reg>>
UnrefPoolOffByOne(r) ==
  /\ r \in poolrefs
  /\ ref_array' = [ref_array EXCEPT ![r] = Free(IF ref_free # -1 THEN ref_free ELSE 0)]
  /\ ref_free' = r
  /\ poolrefs' = poolrefs \ {r}
  /\ UNCHANGED <<ref_size, ref_capacity, reg>>
UnrefPool(r) ==
  /\ r \in poolrefs
  /\ ref_array' = [ref_array EXCEPT ![r] = Free(IF ref_free # -1 THEN ref_free + 1 ELSE 0)]
  /\ ref_free' = r
  /\ poolrefs' = poolrefs \ {r}
  /\ UNCHANGED <<ref_size, ref_capacity, reg>>

-----------------------------------------------------------------------------
(* The registry: a free slot holds the number of the next one, as a value.   *)

\* lua_ref.
RefReuseStuck(v) ==
  /\ registryfree # 0
  /\ registry' = [registry EXCEPT ![registryfree] = v]
  /\ regrefs' = regrefs \cup {registryfree}
  /\ UNCHANGED <<registryfree, pool>>
RefReuse(v) ==
  /\ registryfree # 0
  /\ registryfree' = registry[registryfree]
  /\ registry' = [registry EXCEPT ![registryfree] = v]
  /\ regrefs' = regrefs \cup {registryfree}
  /\ UNCHANGED pool

\* luaH_getn counts the free slots too, they are not nil.
luaH_getn == Cardinality(DOMAIN registry)

RefAppend(v) ==
  /\ registryfree = 0
  /\ luaH_getn < RegistrySize
  /\ registry' = Extend(registry, luaH_getn + 1, v)
  /\ regrefs' = regrefs \cup {luaH_getn + 1}
  /\ UNCHANGED <<registryfree, pool>>

\* lua_unref.
Unref(r) ==
  /\ r \in regrefs
  /\ registry' = [registry EXCEPT ![r] = registryfree]
  /\ registryfree' = r
  /\ regrefs' = regrefs \ {r}
  /\ UNCHANGED pool

Next ==
  \/ \E v \in Val : RefFreeSlot(v) \/ RefNewSlot(v) \/ RefReuse(v) \/ RefAppend(v)
  \/ \E r \in poolrefs : UnrefPool(r)
  \/ \E r \in regrefs : Unref(r)

Spec == Init /\ [][Next]_vars

-----------------------------------------------------------------------------
(* Properties.                                                               *)

\* No slot is written beyond the memory of the pool, and the capacity does not
\* overflow however it is doubled (lua_refpool).
PoolFits == ref_size <= ref_capacity /\ ref_capacity <= INT_MAX

PoolNext(i) == ref_array[i].value - 1
FreeInPool == {i \in DOMAIN ref_array : ref_array[i].tt = "none"}

\* The free slots of the pool, those marked LUA_TNONE, are those the host holds
\* no reference to, and form one list without a fork or a cycle back into its
\* head: a slot is never handed out twice (lua_refpool, lua_unrefpool).
PoolList ==
  /\ FreeInPool = DOMAIN ref_array \ poolrefs
  /\ ref_free # -1 => ref_free \in FreeInPool
  /\ \A i \in FreeInPool :
       /\ PoolNext(i) # -1 => PoolNext(i) \in FreeInPool /\ PoolNext(i) # ref_free
       /\ \A j \in FreeInPool : PoolNext(i) = PoolNext(j) => i = j \/ PoolNext(i) = -1

\* The same of the registry, where nothing in a slot tells that it is free and a
\* slot in use may hold a number too (lua_ref, lua_unref).
FreeInRegistry == DOMAIN registry \ regrefs
RegistryList ==
  /\ registryfree # 0 => registryfree \in FreeInRegistry
  /\ \A i \in FreeInRegistry :
       /\ registry[i] # 0 => registry[i] \in FreeInRegistry /\ registry[i] # registryfree
       /\ \A j \in FreeInRegistry : registry[i] = registry[j] => i = j \/ registry[i] = 0

\* A walk from first over next, up to end, comes by all of S: no smaller part of S
\* has the first slot and with every slot the next one.
WalkFinds(S, first, next, end) ==
  \A T \in SUBSET S :
    (first # end => first \in T) /\ (\A i \in T : next[i] # end => next[i] \in T) => T = S

\* Every slot that was given back is found again: a table grows only when all
\* its slots are in use (the free lists).
NothingLeaks ==
  /\ WalkFinds(FreeInPool, ref_free, [i \in FreeInPool |-> PoolNext(i)], -1)
  /\ WalkFinds(FreeInRegistry, registryfree, registry, 0)

\* Both tables implement the map that the host relies on.
PoolMap == INSTANCE RefMap
  WITH RefNumber <- 0..INT_MAX, refs <- [r \in poolrefs |-> ref_array[r].value]
RegistryMap == INSTANCE RefMap
  WITH RefNumber <- 1..RegistrySize, refs <- [r \in regrefs |-> registry[r]]

PoolImplements == PoolMap!Spec
RegistryImplements == RegistryMap!Spec
=============================================================================
