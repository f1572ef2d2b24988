-------------------------- MODULE SharedCodeProofs --------------------------
(* Reference counts of shared native code, for any number of machines.        *)
EXTENDS SharedCode, FiniteSetTheorems, TLAPS

-----------------------------------------------------------------------------
(* The inductive invariant: what holds until the race.                       *)

Types ==
  /\ identifiedModules \in [Id -> Module \cup {None}]
  /\ modules \in [Module -> NativeModule]
  /\ execdata \in [VM -> [Proto -> Module \cup {None}]]
  /\ script \in [VM -> Id \cup {Anon}]
  /\ pc \in [VM -> {"idle", "lookup", "translate", "bind", "unref", "erase"}]
  /\ ref \in [VM -> Module \cup {None}]

\* What a thread has at each point of compileInternal and of a release.
InHand ==
  \A v \in VM :
    /\ pc[v] = "lookup" => script[v] \in Id
    /\ pc[v] \in {"bind", "unref", "erase"} => ref[v] \in Module
    /\ pc[v] \in {"lookup", "translate", "bind"} => \A p \in Proto : execdata[v][p] = None

Counted == \A m \in Module : modules[m].refcount = Cardinality(Holders(m))
Alive == \A m \in Module : Holders(m) # {} => modules[m].alive
CodeKept == code = {m \in Module : modules[m].alive}
Mapped == \A id \in Id, m \in Module :
            identifiedModules[id] = m <=> modules[m].alive /\ modules[m].id = id

\* A module without references is on its way out: the thread that released the
\* last one, or one that came after it, has still to take the lock.
Leaving == \A m \in Module :
             modules[m].alive /\ modules[m].refcount = 0
               => \E v \in VM : pc[v] = "erase" /\ ref[v] = m

Sound == /\ Types /\ InHand /\ Counted /\ Alive /\ CodeKept /\ Mapped
         /\ Leaving /\ ExaminedIsAlive

SharedInv == raced \in BOOLEAN /\ (~raced => Sound)

-----------------------------------------------------------------------------
(* References, counted.                                                      *)

LEMMA HoldersFinite ==
  ASSUME NEW m
  PROVE  IsFiniteSet(Holders(m))
  <1>1. IsFiniteSet(VM \X Proto) /\ IsFiniteSet(VM \X {"ref"})
    BY SharedCodeAssumption, FS_Product, FS_Singleton
  <1>2. IsFiniteSet((VM \X Proto) \cup (VM \X {"ref"}))
    BY <1>1, FS_Union
  <1>3. Holders(m) \in SUBSET ((VM \X Proto) \cup (VM \X {"ref"}))
    BY DEF Holders
  <1> QED
    BY <1>2, <1>3, FS_Subset

\* A reference by its holder.
LEMMA HoldersMember ==
  ASSUME NEW m, NEW v \in VM
  PROVE  /\ <<v, "ref">> \in Holders(m) <=> pc[v] \in {"bind", "unref"} /\ ref[v] = m
         /\ \A p \in Proto : <<v, p>> \in Holders(m) <=> execdata[v][p] = m
  BY SharedCodeAssumption DEF Holders

\* Holders are determined by what every thread has.
LEMMA HoldersSame ==
  ASSUME NEW m,
         \A v \in VM : (pc[v] \in {"bind", "unref"} /\ ref[v] = m)'
                         <=> (pc[v] \in {"bind", "unref"} /\ ref[v] = m),
         \A v \in VM, p \in Proto : execdata'[v][p] = m <=> execdata[v][p] = m
  PROVE  Holders(m)' = Holders(m)
  BY DEF Holders

\* Setting a count leaves the modules what they are.
LEMMA RefcountType ==
  ASSUME Types, NEW m \in Module, NEW c \in Nat
  PROVE  [modules EXCEPT ![m].refcount = c] \in [Module -> NativeModule]
  <1>1. \A n \in Module : modules[n] \in NativeModule
    BY DEF Types
  <1>2. [modules[m] EXCEPT !.refcount = c] \in NativeModule
    BY <1>1 DEF NativeModule
  <1> QED
    BY <1>1, <1>2 DEF Types

LEMMA InitShared == Init => SharedInv
  <1> SUFFICES ASSUME Init PROVE SharedInv
    OBVIOUS
  <1> USE DEF Init
  <1>1. Types
    BY DEF Types, NativeModule, Gone
  <1>2. \A m \in Module : Holders(m) = {}
    BY SharedCodeAssumption DEF Holders
  <1>3. Counted /\ Alive
    BY <1>2, FS_EmptySet DEF Counted, Alive, Gone
  <1> QED
    BY <1>1, <1>3, SharedCodeAssumption
       DEF SharedInv, Sound, InHand, CodeKept, Mapped, Leaving, ExaminedIsAlive, Gone

-----------------------------------------------------------------------------
(* One step, before the race.                                                *)

\* A step on which no reference changes hands.
LEMMA Quiet ==
  ASSUME Sound, UNCHANGED <<modules, execdata, identifiedModules, code>>, Types', InHand',
         NEW v \in VM, NEW where \in {"idle", "lookup", "translate"}, NEW r,
         Goto(v, where, r), pc[v] \in {"idle", "lookup", "translate"}
  PROVE  Sound'
  <1> USE DEF Sound, Types, Goto
  <1>1. ASSUME NEW m \in Module PROVE Holders(m)' = Holders(m)
    BY HoldersSame
  <1>2. Counted' /\ Alive'
    BY <1>1 DEF Counted, Alive
  <1>3. CodeKept' /\ Mapped'
    BY DEF CodeKept, Mapped
  <1>4. Leaving' /\ ExaminedIsAlive'
    BY DEF Leaving, ExaminedIsAlive
  <1> QED
    BY <1>2, <1>3, <1>4

\* tryGetNativeModuleWithLockHeld makes a reference to a module in the map.
LEMMA GetExistingSound ==
  ASSUME Sound, NEW v \in VM, pc[v] \in {"lookup", "translate"}, script[v] \in Id,
         GetExisting(v)
  PROVE  Sound'
  <1> USE DEF Sound
  <1>a. identifiedModules[script[v]] \in Module
    BY DEF GetExisting, Types
  <1>0. PICK m \in Module :
        /\ identifiedModules[script[v]] = m
        /\ modules' = [modules EXCEPT ![m].refcount = @ + 1]
        /\ pc' = [pc EXCEPT ![v] = "bind"] /\ ref' = [ref EXCEPT ![v] = m]
        /\ UNCHANGED <<identifiedModules, code, execdata, script>>
        /\ modules[m].alive
    BY <1>a DEF GetExisting, Goto, Mapped
  <1>1. Types' /\ InHand'
    <2>1. modules[m].refcount + 1 \in Nat
      BY DEF Types, NativeModule
    <2>2. modules' \in [Module -> NativeModule]
      BY <1>0, <2>1, RefcountType
    <2> QED
      BY <1>0, <2>2 DEF Types, InHand
  <1>2. /\ <<v, "ref">> \notin Holders(m)
        /\ Holders(m)' = Holders(m) \cup {<<v, "ref">>}
    <2>1. <<v, "ref">> \notin Holders(m)
      BY HoldersMember
    <2> QED
      BY <2>1, <1>0 DEF Holders, Types
  <1>3. ASSUME NEW n \in Module, n # m PROVE Holders(n)' = Holders(n)
    BY <1>0, <1>3, HoldersSame DEF Types
  <1>4. \A n \in Module : /\ modules'[n].alive = modules[n].alive
                          /\ modules'[n].id = modules[n].id
                          /\ n # m => modules'[n].refcount = modules[n].refcount
    BY <1>0 DEF Types, NativeModule
  <1>5. modules'[m].refcount = modules[m].refcount + 1 /\ modules[m].refcount \in Nat
    BY <1>0 DEF Types, NativeModule
  <1>6. Counted'
    BY <1>2, <1>3, <1>4, <1>5, HoldersFinite, FS_AddElement DEF Counted
  <1>7. Alive' /\ CodeKept' /\ Mapped'
    BY <1>0, <1>3, <1>4 DEF Alive, CodeKept, Mapped
  <1>8. Leaving' /\ ExaminedIsAlive'
    BY <1>0, <1>4, <1>5 DEF Leaving, ExaminedIsAlive, InHand, Types
  <1> QED
    BY <1>1, <1>6, <1>7, <1>8

\* A new module, in the map if its script has an identifier.
LEMMA NewModuleSound ==
  ASSUME Sound, NEW v \in VM, NEW m \in Module, NEW S \in SUBSET Proto,
         pc[v] = "translate", NewModule(v, m, S),
         \/ /\ script[v] \in Id /\ identifiedModules[script[v]] = None
            /\ identifiedModules' = [identifiedModules EXCEPT ![script[v]] = m]
         \/ script[v] = Anon /\ UNCHANGED identifiedModules
  PROVE  Sound'
  <1> USE DEF Sound
  <1>0. /\ ~modules[m].alive /\ script[v] \in Id \cup {Anon}
        /\ modules' = [modules EXCEPT ![m] =
             [alive |-> TRUE, refcount |-> 1, id |-> script[v], protos |-> S]]
        /\ code' = code \cup {m}
        /\ pc' = [pc EXCEPT ![v] = "bind"] /\ ref' = [ref EXCEPT ![v] = m]
        /\ UNCHANGED <<execdata, script>>
    BY DEF NewModule, Goto, Types
  <1>1. Types' /\ InHand'
    BY <1>0 DEF Types, InHand, NativeModule
  <1>2. Holders(m) = {} /\ Holders(m)' = {<<v, "ref">>}
    <2>1. Holders(m) = {}
      BY <1>0 DEF Alive
    <2>2. \A w \in VM : /\ ~(pc[w] \in {"bind", "unref"} /\ ref[w] = m)
                        /\ \A p \in Proto : execdata[w][p] # m
      BY <2>1, HoldersMember
    <2> QED
      BY <1>0, <2>1, <2>2 DEF Holders, Types
  <1>3. ASSUME NEW n \in Module, n # m PROVE Holders(n)' = Holders(n)
    BY <1>0, <1>3, HoldersSame DEF Types
  <1>4. \A n \in Module : n # m => modules'[n] = modules[n]
    BY <1>0 DEF Types
  <1>5. modules'[m].refcount = 1 /\ modules'[m].alive /\ modules'[m].id = script[v]
    BY <1>0 DEF Types
  <1>6. Counted'
    BY <1>2, <1>3, <1>4, <1>5, FS_Singleton DEF Counted
  <1>7. Alive' /\ CodeKept'
    BY <1>0, <1>3, <1>4, <1>5 DEF Alive, CodeKept
  <1>8. Mapped'
    BY <1>0, <1>4, <1>5, SharedCodeAssumption DEF Mapped, Types
  <1>9. Leaving' /\ ExaminedIsAlive'
    BY <1>0, <1>4, <1>5 DEF Leaving, ExaminedIsAlive, InHand, Types
  <1> QED
    BY <1>1, <1>6, <1>7, <1>8, <1>9

\* bindModule makes a reference for each function it binds.
LEMMA BindSound ==
  ASSUME Sound, NEW v \in VM, bindModule(v)
  PROVE  Sound'
  <1> USE DEF Sound
  <1>0. PICK m \in Module, S \in SUBSET Proto :
        /\ ref[v] = m /\ modules[m].protos = S /\ pc[v] = "bind"
        /\ \A p \in Proto : execdata[v][p] = None
        /\ modules[m].refcount \in Nat
    BY DEF bindModule, InHand, Types, NativeModule
  <1>1. /\ execdata' = [execdata EXCEPT ![v] = [p \in Proto |-> IF p \in S THEN m ELSE @[p]]]
        /\ modules' = [modules EXCEPT ![m].refcount = @ + Cardinality(S)]
        /\ pc' = [pc EXCEPT ![v] = "unref"] /\ ref' = [ref EXCEPT ![v] = m]
        /\ UNCHANGED <<identifiedModules, code, script>>
    BY <1>0 DEF bindModule, Goto
  <1> DEFINE B == {v} \X S
  <1>2. IsFiniteSet(S) /\ Cardinality(S) \in Nat /\ IsFiniteSet(B)
        /\ Cardinality(B) = Cardinality(S)
    <2>1. IsFiniteSet(S) /\ Cardinality(S) \in Nat
      BY <1>0, SharedCodeAssumption, FS_Subset, FS_CardinalityType
    <2>2. IsFiniteSet(B) /\ Cardinality(B) = Cardinality({v}) * Cardinality(S)
      BY <2>1, FS_Product, FS_Singleton
    <2>3. Cardinality({v}) = 1
      BY FS_Singleton
    <2> QED
      BY <2>1, <2>2, <2>3
  <1>3. Types' /\ InHand'
    <2>1. modules' \in [Module -> NativeModule]
      BY <1>0, <1>1, <1>2, RefcountType
    <2>2. execdata' \in [VM -> [Proto -> Module \cup {None}]]
      BY <1>0, <1>1 DEF Types
    <2> QED
      BY <1>0, <1>1, <2>1, <2>2 DEF Types, InHand
  <1>4. Holders(m) \cap B = {} /\ Holders(m)' = Holders(m) \cup B
    <2>1. \A p \in Proto : execdata'[v][p] = IF p \in S THEN m ELSE None
      BY <1>0, <1>1 DEF Types
    <2>2. \A w \in VM, p \in Proto : w # v => execdata'[w][p] = execdata[w][p]
      BY <1>1 DEF Types
    <2>3. None # m
      BY <1>0, SharedCodeAssumption
    <2>4. Holders(m) \cap B = {}
      BY <1>0, <2>3, SharedCodeAssumption DEF Holders
    <2>5. \A w \in VM : (pc[w] \in {"bind", "unref"} /\ ref[w] = m)'
                         <=> (pc[w] \in {"bind", "unref"} /\ ref[w] = m)
      BY <1>0, <1>1 DEF Types
    <2>6. ASSUME NEW h \in VM \X Proto
          PROVE  execdata'[h[1]][h[2]] = m <=> execdata[h[1]][h[2]] = m \/ h \in B
      BY <1>0, <2>1, <2>2, <2>3
    <2> QED
      BY <1>0, <2>4, <2>5, <2>6 DEF Holders
  <1>5. ASSUME NEW n \in Module, n # m PROVE Holders(n)' = Holders(n)
    <2>1. \A w \in VM : (pc[w] \in {"bind", "unref"} /\ ref[w] = n)'
                         <=> (pc[w] \in {"bind", "unref"} /\ ref[w] = n)
      BY <1>0, <1>1 DEF Types
    <2>2. \A w \in VM, p \in Proto : execdata'[w][p] = n <=> execdata[w][p] = n
      BY <1>0, <1>1, <1>5, SharedCodeAssumption DEF Types
    <2> QED
      BY <2>1, <2>2, HoldersSame
  <1>6. \A n \in Module : /\ modules'[n].alive = modules[n].alive
                          /\ modules'[n].id = modules[n].id
                          /\ n # m => modules'[n].refcount = modules[n].refcount
    BY <1>0, <1>1 DEF Types, NativeModule
  <1>7. modules'[m].refcount = modules[m].refcount + Cardinality(S)
    BY <1>0, <1>1 DEF Types, NativeModule
  <1>8. <<v, "ref">> \in Holders(m) /\ modules[m].alive
    BY <1>0, HoldersMember DEF Alive
  <1>9. Counted'
    <2>1. /\ IsFiniteSet(Holders(m)) /\ Cardinality(Holders(m)) \in Nat
          /\ Cardinality(B) \in Nat /\ Cardinality({}) = 0
      BY <1>2, HoldersFinite, FS_CardinalityType, FS_EmptySet
    <2>2. Cardinality(Holders(m) \cup B) =
            Cardinality(Holders(m)) + Cardinality(B) - Cardinality(Holders(m) \cap B)
      BY <1>2, <2>1, FS_Union
    <2>3. Cardinality(Holders(m) \cap B) = 0
      BY <1>4, <2>1, Zenon
    <2> HIDE DEF B
    <2>4. Cardinality(Holders(m) \cup B) = Cardinality(Holders(m)) + Cardinality(B)
      BY <2>1, <2>2, <2>3
    <2> QED
      BY <1>0, <1>2, <1>4, <1>5, <1>6, <1>7, <2>4 DEF Counted
  <1>10. Alive' /\ CodeKept' /\ Mapped'
    BY <1>1, <1>5, <1>6, <1>8 DEF Alive, CodeKept, Mapped
  <1>11. Leaving' /\ ExaminedIsAlive'
    BY <1>0, <1>1, <1>2, <1>6, <1>7 DEF Leaving, ExaminedIsAlive, InHand, Types
  <1> QED
    BY <1>3, <1>9, <1>10, <1>11

\* NativeModule::release of a reference h: whoever sees zero goes to the lock.
LEMMA ReleaseSound ==
  ASSUME Sound, NEW v \in VM, NEW m \in Module, NEW h \in Holders(m), release(v, m),
         pc[v] \in {"idle", "unref"}, Types', InHand',
         Holders(m)' = Holders(m) \ {h},
         \A n \in Module \ {m} : Holders(n)' = Holders(n),
         UNCHANGED <<identifiedModules, code>>
  PROVE  Sound'
  <1> USE DEF Sound
  <1>0. /\ modules' = [modules EXCEPT ![m].refcount = @ - 1]
        /\ pc' = [pc EXCEPT ![v] = IF modules[m].refcount = 1 THEN "erase" ELSE "idle"]
        /\ ref' = [ref EXCEPT ![v] = IF modules[m].refcount = 1 THEN m ELSE None]
    BY DEF release, Goto
  <1>1. \A n \in Module : /\ modules'[n].alive = modules[n].alive
                          /\ modules'[n].id = modules[n].id
                          /\ n # m => modules'[n].refcount = modules[n].refcount
    BY <1>0 DEF Types, NativeModule
  <1>2. /\ modules'[m].refcount = modules[m].refcount - 1
        /\ modules[m].refcount \in Nat /\ modules[m].alive
    BY <1>0 DEF Types, NativeModule, Alive
  <1>3. Counted'
    BY <1>1, <1>2, HoldersFinite, FS_RemoveElement DEF Counted
  <1>4. Alive' /\ CodeKept' /\ Mapped'
    BY <1>1, <1>2 DEF Alive, CodeKept, Mapped
  <1>5. Leaving'
    <2> SUFFICES ASSUME NEW n \in Module, modules'[n].alive, modules'[n].refcount = 0
                 PROVE  \E w \in VM : pc'[w] = "erase" /\ ref'[w] = n
      BY DEF Leaving
    <2>1. CASE n = m
      BY <1>0, <1>2, <2>1 DEF Types
    <2>2. CASE n # m
      <3>1. PICK w \in VM : pc[w] = "erase" /\ ref[w] = n
        BY <1>1, <2>2 DEF Leaving
      <3> QED
        BY <1>0, <3>1 DEF Types
    <2> QED
      BY <2>1, <2>2
  <1>6. ExaminedIsAlive'
    BY <1>0, <1>1, <1>2 DEF ExaminedIsAlive, InHand, Types
  <1> QED
    BY <1>3, <1>4, <1>5, <1>6

LEMMA ReleaseRefSound ==
  ASSUME Sound, NEW v \in VM, ReleaseRef(v)
  PROVE  Sound'
  <1> USE DEF Sound
  <1>0. PICK m \in Module :
        /\ ref[v] = m /\ pc[v] = "unref" /\ release(v, m)
        /\ UNCHANGED <<identifiedModules, code, execdata, script>>
    BY DEF ReleaseRef, InHand
  <1>1. <<v, "ref">> \in Holders(m)
    BY <1>0, HoldersMember
  <1>2. /\ modules' = [modules EXCEPT ![m].refcount = @ - 1]
        /\ pc' = [pc EXCEPT ![v] = IF modules[m].refcount = 1 THEN "erase" ELSE "idle"]
        /\ ref' = [ref EXCEPT ![v] = IF modules[m].refcount = 1 THEN m ELSE None]
    BY <1>0 DEF release, Goto
  <1>3. modules[m].refcount - 1 \in Nat
    <2>1. Cardinality(Holders(m)) # 0 /\ Cardinality(Holders(m)) \in Nat
      BY <1>1, HoldersFinite, FS_EmptySet, FS_CardinalityType
    <2> QED
      BY <1>0, <2>1 DEF Counted
  <1>4. Types' /\ InHand'
    <2>1. modules' \in [Module -> NativeModule]
      BY <1>2, <1>3, RefcountType
    <2> QED
      BY <1>0, <1>2, <2>1 DEF Types, InHand
  <1>5. Holders(m)' = Holders(m) \ {<<v, "ref">>}
    BY <1>0, <1>2, SharedCodeAssumption DEF Holders, Types
  <1>6. ASSUME NEW n \in Module \ {m} PROVE Holders(n)' = Holders(n)
    BY <1>0, <1>2, HoldersSame DEF Types
  <1> QED
    BY <1>0, <1>1, <1>4, <1>5, <1>6, ReleaseSound

LEMMA DestroyFunctionSound ==
  ASSUME Sound, NEW v \in VM, NEW p \in Proto, onDestroyFunction(v, p)
  PROVE  Sound'
  <1> USE DEF Sound
  <1>0. PICK m \in Module :
        /\ execdata[v][p] = m /\ pc[v] = "idle" /\ release(v, m)
        /\ execdata' = [execdata EXCEPT ![v][p] = None]
        /\ UNCHANGED <<identifiedModules, code, script>>
    BY DEF onDestroyFunction, Types
  <1>1. <<v, p>> \in Holders(m)
    BY <1>0, HoldersMember
  <1>2. /\ modules' = [modules EXCEPT ![m].refcount = @ - 1]
        /\ pc' = [pc EXCEPT ![v] = IF modules[m].refcount = 1 THEN "erase" ELSE "idle"]
        /\ ref' = [ref EXCEPT ![v] = IF modules[m].refcount = 1 THEN m ELSE None]
    BY <1>0 DEF release, Goto
  <1>3. modules[m].refcount - 1 \in Nat
    <2>1. Cardinality(Holders(m)) # 0 /\ Cardinality(Holders(m)) \in Nat
      BY <1>1, HoldersFinite, FS_EmptySet, FS_CardinalityType
    <2> QED
      BY <1>0, <2>1 DEF Counted
  <1>4. Types' /\ InHand'
    <2>1. modules' \in [Module -> NativeModule]
      BY <1>2, <1>3, RefcountType
    <2> QED
      BY <1>0, <1>2, <2>1 DEF Types, InHand
  <1>5. \A w \in VM, q \in Proto :
          execdata'[w][q] = IF w = v /\ q = p THEN None ELSE execdata[w][q]
    BY <1>0 DEF Types
  <1>6. \A n \in Module, w \in VM : (pc[w] \in {"bind", "unref"} /\ ref[w] = n)'
                                     <=> (pc[w] \in {"bind", "unref"} /\ ref[w] = n)
    BY <1>0, <1>2 DEF Types
  <1>7. Holders(m)' = Holders(m) \ {<<v, p>>}
    <2>1. ASSUME NEW h \in VM \X Proto
          PROVE  execdata'[h[1]][h[2]] = m <=> execdata[h[1]][h[2]] = m /\ h # <<v, p>>
      BY <1>0, <1>5, SharedCodeAssumption
    <2>2. \A h \in VM \X {"ref"} : h # <<v, p>>
      BY SharedCodeAssumption
    <2> QED
      BY <1>0, <1>6, <2>1, <2>2 DEF Holders
  <1>8. ASSUME NEW n \in Module \ {m} PROVE Holders(n)' = Holders(n)
    <2>1. \A w \in VM, q \in Proto : execdata'[w][q] = n <=> execdata[w][q] = n
      BY <1>0, <1>5, SharedCodeAssumption
    <2> QED
      BY <1>6, <2>1, HoldersSame
  <1> QED
    BY <1>0, <1>1, <1>4, <1>7, <1>8, ReleaseSound

\* eraseNativeModuleIfUnreferenced, before the race and without causing it: the
\* module exists, and is destroyed only if nobody else is about to look at it.
LEMMA EraseSound ==
  ASSUME Sound, NEW v \in VM, eraseNativeModuleIfUnreferenced(v), ~raced, ~raced'
  PROVE  Sound'
  <1> USE DEF Sound
  <1>0. PICK m \in Module :
        /\ ref[v] = m /\ pc[v] = "erase" /\ modules[m].alive
        /\ pc' = [pc EXCEPT ![v] = "idle"] /\ ref' = [ref EXCEPT ![v] = None]
        /\ UNCHANGED <<execdata, script>>
    BY DEF eraseNativeModuleIfUnreferenced, InHand, ExaminedIsAlive, Goto
  <1>1. ASSUME NEW n \in Module PROVE Holders(n)' = Holders(n)
    BY <1>0, HoldersSame DEF Types
  <1>2. CASE modules[m].refcount # 0
    <2>1. UNCHANGED <<identifiedModules, modules, code>>
      BY <1>0, <1>2 DEF eraseNativeModuleIfUnreferenced, Unharmed
    <2>2. Types' /\ InHand' /\ CodeKept' /\ Mapped' /\ ExaminedIsAlive'
      BY <1>0, <2>1 DEF Types, InHand, CodeKept, Mapped, ExaminedIsAlive
    <2>3. Counted' /\ Alive'
      BY <1>1, <2>1 DEF Counted, Alive
    <2>4. Leaving'
      BY <1>0, <1>2, <2>1 DEF Leaving, Types
    <2> QED
      BY <2>2, <2>3, <2>4
  <1>3. CASE modules[m].refcount = 0
    <2>1. /\ modules' = [modules EXCEPT ![m] = Gone] /\ code' = code \ {m}
          /\ identifiedModules' = [id \in Id |-> IF id = modules[m].id THEN None
                                                 ELSE identifiedModules[id]]
          /\ \A w \in VM \ {v} : ~(pc[w] = "erase" /\ ref[w] = m)
      BY <1>0, <1>3 DEF eraseNativeModuleIfUnreferenced, Destroy
    <2>2. Gone \in NativeModule /\ ~Gone.alive /\ Gone.refcount = 0
      BY DEF Gone, NativeModule
    <2>3. Holders(m) = {}
      BY <1>0, <1>3, HoldersFinite, FS_EmptySet DEF Counted
    <2>4. \A n \in Module : modules'[n] = IF n = m THEN Gone ELSE modules[n]
      BY <2>1 DEF Types
    <2>5. Types' /\ InHand'
      BY <1>0, <2>1, <2>2 DEF Types, InHand
    <2>6. Counted' /\ Alive'
      BY <1>1, <2>2, <2>3, <2>4, FS_EmptySet DEF Counted, Alive
    <2>7. CodeKept'
      BY <2>1, <2>2, <2>4 DEF CodeKept
    <2>8. Mapped'
      <3> SUFFICES ASSUME NEW id \in Id, NEW n \in Module
                   PROVE  identifiedModules'[id] = n <=> modules'[n].alive /\ modules'[n].id = id
        BY DEF Mapped
      <3>1. identifiedModules[id] = n <=> modules[n].alive /\ modules[n].id = id
        BY DEF Mapped
      <3>2. identifiedModules[id] = m <=> modules[m].alive /\ modules[m].id = id
        BY <1>0 DEF Mapped
      <3> QED
        BY <1>0, <2>1, <2>2, <2>4, <3>1, <3>2, SharedCodeAssumption
    <2>9. Leaving'
      <3> SUFFICES ASSUME NEW n \in Module, modules'[n].alive, modules'[n].refcount = 0
                   PROVE  \E w \in VM : pc'[w] = "erase" /\ ref'[w] = n
        BY DEF Leaving
      <3>1. n # m /\ modules'[n] = modules[n]
        BY <2>2, <2>4
      <3>2. PICK w \in VM : pc[w] = "erase" /\ ref[w] = n
        BY <3>1 DEF Leaving
      <3> QED
        BY <1>0, <3>1, <3>2 DEF Types
    <2>10. ExaminedIsAlive'
      <3> SUFFICES ASSUME NEW w \in VM, pc'[w] = "erase" PROVE modules'[ref'[w]].alive
        BY DEF ExaminedIsAlive
      <3>1. w # v /\ pc[w] = "erase" /\ ref'[w] = ref[w]
        BY <1>0 DEF Types
      <3>2. ref[w] # m /\ ref[w] \in Module /\ modules[ref[w]].alive
        BY <2>1, <3>1 DEF ExaminedIsAlive, InHand
      <3> QED
        BY <2>4, <3>1, <3>2
    <2> QED
      BY <2>5, <2>6, <2>7, <2>8, <2>9, <2>10
  <1> QED
    BY <1>2, <1>3

-----------------------------------------------------------------------------
(* Every step.                                                               *)

LEMMA NextShared == SharedInv /\ [Next]_vars => SharedInv'
  <1> SUFFICES ASSUME SharedInv, [Next]_vars PROVE SharedInv'
    OBVIOUS
  <1>1. CASE UNCHANGED vars
    <2>1. \A m : Holders(m)' = Holders(m)
      BY <1>1 DEF vars, Holders
    <2> QED
      BY <1>1, <2>1 DEF vars, SharedInv, Sound, Types, InHand, Counted, Alive, CodeKept,
         Mapped, Leaving, ExaminedIsAlive
  <1>2. CASE Next
    <2>0. PICK v \in VM :
            \/ \E id \in Id \cup {Anon} : compile(v, id)
            \/ tryGetNativeModule(v)
            \/ \E m \in Module, S \in SUBSET Proto \ {{}} :
                 getOrInsertNativeModule(v, m, S) \/ insertAnonymousNativeModule(v, m, S)
            \/ NothingBound(v)
            \/ bindModule(v)
            \/ ReleaseRef(v)
            \/ \E p \in Proto : onDestroyFunction(v, p)
            \/ eraseNativeModuleIfUnreferenced(v)
      BY <1>2 DEF Next
    <2>1. raced' \in BOOLEAN /\ (raced => raced')
      BY <2>0 DEF SharedInv, compile, tryGetNativeModule, GetExisting, NewModule,
         getOrInsertNativeModule, insertAnonymousNativeModule, NothingBound, bindModule,
         ReleaseRef, onDestroyFunction, eraseNativeModuleIfUnreferenced, Unharmed, Destroy
    <2> SUFFICES ASSUME Sound, ~raced, ~raced' PROVE Sound'
      BY <2>1 DEF SharedInv
    <2>2. ASSUME NEW id \in Id \cup {Anon}, compile(v, id) PROVE Sound'
      <3>1. Types' /\ InHand'
        BY <2>2 DEF compile, Goto, Sound, Types, InHand
      <3> QED
        BY <2>2, <3>1, Quiet DEF compile
    <2>3. CASE tryGetNativeModule(v)
      <3>1. script[v] \in Id /\ pc[v] = "lookup"
        BY <2>3 DEF tryGetNativeModule, Sound, InHand
      <3>2. CASE GetExisting(v)
        BY <3>1, <3>2, GetExistingSound
      <3>3. CASE Goto(v, "translate", None)
                 /\ UNCHANGED <<identifiedModules, modules, code, execdata, script, raced>>
        <4>1. Types' /\ InHand'
          BY <3>1, <3>3 DEF Goto, Sound, Types, InHand
        <4> QED
          BY <3>1, <3>3, <4>1, Quiet
      <3> QED
        BY <2>3, <3>2, <3>3 DEF tryGetNativeModule
    <2>4. ASSUME NEW m \in Module, NEW S \in SUBSET Proto, getOrInsertNativeModule(v, m, S)
          PROVE  Sound'
      <3>1. script[v] \in Id /\ pc[v] = "translate"
        BY <2>4 DEF getOrInsertNativeModule, Sound, Types
      <3> QED
        BY <2>4, <3>1, GetExistingSound, NewModuleSound DEF getOrInsertNativeModule
    <2>5. ASSUME NEW m \in Module, NEW S \in SUBSET Proto, insertAnonymousNativeModule(v, m, S)
          PROVE  Sound'
      BY <2>5, NewModuleSound DEF insertAnonymousNativeModule
    <2>6. CASE NothingBound(v)
      <3>1. Types' /\ InHand'
        BY <2>6 DEF NothingBound, Goto, Sound, Types, InHand
      <3> QED
        BY <2>6, <3>1, Quiet DEF NothingBound
    <2> QED
      BY <2>0, <2>2, <2>3, <2>4, <2>5, <2>6, BindSound, ReleaseRefSound,
         DestroyFunctionSound, EraseSound
  <1> QED
    BY <1>1, <1>2

LEMMA SharedAlways == Spec => []SharedInv
  BY InitShared, NextShared, PTL DEF Spec

-----------------------------------------------------------------------------
(* What follows.                                                             *)

\* Until the race the count of a module is the number of references to it, for
\* any number of machines, scripts and functions (addRefs, release).
THEOREM CountsHoldersAlways == Spec => []CountsHolders
  <1>1. SharedInv => CountsHolders
    BY DEF SharedInv, Sound, Counted, CountsHolders
  <1> QED
    BY <1>1, SharedAlways, PTL

\* Until the race a module that a function is bound to, or that a thread has a
\* reference to, exists and its code is there to be run (NativeModuleRef).
THEOREM HeldIsAliveAlways == Spec => []HeldIsAlive
  <1>1. SharedInv => HeldIsAlive
    BY DEF SharedInv, Sound, Alive, CodeKept, HeldIsAlive
  <1> QED
    BY <1>1, SharedAlways, PTL

\* Until the race the map holds for every identifier the one module that exists
\* for it (getOrInsertNativeModule, eraseNativeModuleIfUnreferenced).
THEOREM OneModulePerIdAlways == Spec => []OneModulePerId
  <1>1. SharedInv => OneModulePerId
    BY SharedCodeAssumption DEF SharedInv, Sound, Mapped, Types, OneModulePerId
  <1> QED
    BY <1>1, SharedAlways, PTL

\* Until the race nothing is left when all functions are gone (the assertions of
\* SharedCodeAllocator's destructor).
THEOREM NothingLeftAlways == Spec => []NothingLeft
  <1>1. SharedInv => NothingLeft
    <2> SUFFICES ASSUME Sound, NEW m \in Module, modules[m].alive,
                        \A v \in VM : pc[v] = "idle" /\ \A p \in Proto : execdata[v][p] = None
                 PROVE  FALSE
      BY DEF SharedInv, Sound, CodeKept, NothingLeft
    <2>1. Holders(m) = {}
      BY SharedCodeAssumption DEF Holders
    <2>2. modules[m].refcount = 0
      BY <2>1, FS_EmptySet DEF Sound, Counted
    <2> QED
      BY <2>2 DEF Sound, Leaving
  <1> QED
    BY <1>1, SharedAlways, PTL
=============================================================================
