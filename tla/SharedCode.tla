----------------------------- MODULE SharedCode -----------------------------
(* Native code shared by virtual machines (SharedCodeAllocator.cpp,           *)
(* CodeGenContext.cpp): modules with atomic reference counts, a map from      *)
(* identifiers to modules behind a lock, and machines on threads of their own *)
(* that compile, bind and destroy functions.                                  *)
EXTENDS Integers, FiniteSets

CONSTANTS
  VM,         \* the virtual machines, one thread each
  Id, Anon,   \* identifiers of scripts, and a script without one
  Proto,      \* the functions of a script
  Module,     \* where a NativeModule can lie in memory
  None

ASSUME SharedCodeAssumption ==
  /\ None \notin Module /\ Anon \notin Id /\ "ref" \notin Proto
  /\ IsFiniteSet(VM) /\ IsFiniteSet(Proto)

VARIABLES
  identifiedModules,   \* the map, from identifiers to modules
  modules,             \* the NativeModule objects
  code,                \* the modules whose executable memory is allocated
  execdata,            \* of each machine: the module its functions are bound to
  script,              \* of each machine: the identifier of its script
  pc,                  \* what each machine's thread does next
  ref,                 \* the NativeModuleRef it holds, or the module it releases
  raced                \* a module was destroyed under a thread about to look at it
vars == <<identifiedModules, modules, code, execdata, script, pc, ref, raced>>

NativeModule == [alive : BOOLEAN, refcount : Nat, id : Id \cup {Anon}, protos : SUBSET Proto]
Gone == [alive |-> FALSE, refcount |-> 0, id |-> Anon, protos |-> {}]

Init ==
  /\ identifiedModules = [id \in Id |-> None]
  /\ modules = [m \in Module |-> Gone]
  /\ code = {}
  /\ execdata = [v \in VM |-> [p \in Proto |-> None]]
  /\ script = [v \in VM |-> Anon]
  /\ pc = [v \in VM |-> "idle"]
  /\ ref = [v \in VM |-> None]
  /\ raced = FALSE

Goto(v, where, m) ==
  /\ pc' = [pc EXCEPT ![v] = where]
  /\ ref' = [ref EXCEPT ![v] = m]

-----------------------------------------------------------------------------
(* compileInternal.                                                          *)

\* A script none of whose functions is bound; one without an identifier is
\* translated at once.
compile(v, id) ==
  /\ pc[v] = "idle"
  /\ \A p \in Proto : execdata[v][p] = None
  /\ script' = [script EXCEPT ![v] = id]
  /\ Goto(v, IF id = Anon THEN "translate" ELSE "lookup", None)
  /\ UNCHANGED <<identifiedModules, modules, code, execdata, raced>>

\* tryGetNativeModuleWithLockHeld for a module that exists: a reference is made
\* before the lock is released.
GetExisting(v) ==
  LET m == identifiedModules[script[v]] IN
  /\ m # None
  /\ modules' = [modules EXCEPT ![m].refcount = @ + 1]
  /\ Goto(v, "bind", m)
  /\ UNCHANGED <<identifiedModules, code, execdata, script, raced>>

tryGetNativeModule(v) ==
  /\ pc[v] = "lookup"
  /\ \/ GetExisting(v)
     \/ /\ identifiedModules[script[v]] = None
        /\ Goto(v, "translate", None)
        /\ UNCHANGED <<identifiedModules, modules, code, execdata, script, raced>>

\* The functions are lowered, S of them with success; without any there is
\* nothing to bind. CodeAllocator::allocate may fail.
NewModule(v, m, S) ==
  /\ ~modules[m].alive
  /\ modules' = [modules EXCEPT ![m] =
       [alive |-> TRUE, refcount |-> 1, id |-> script[v], protos |-> S]]
  /\ code' = code \cup {m}
  /\ Goto(v, "bind", m)
  /\ UNCHANGED <<execdata, script, raced>>

getOrInsertNativeModuleUnchecked(v, m, S) ==
  /\ pc[v] = "translate" /\ script[v] # Anon
  /\ NewModule(v, m, S)
  /\ identifiedModules' = [identifiedModules EXCEPT ![script[v]] = m]
getOrInsertNativeModule(v, m, S) ==
  /\ pc[v] = "translate" /\ script[v] # Anon
  /\ \/ GetExisting(v)
     \/ /\ identifiedModules[script[v]] = None
        /\ NewModule(v, m, S)
        /\ identifiedModules' = [identifiedModules EXCEPT ![script[v]] = m]

insertAnonymousNativeModule(v, m, S) ==
  /\ pc[v] = "translate" /\ script[v] = Anon
  /\ NewModule(v, m, S)
  /\ UNCHANGED identifiedModules

NothingBound(v) ==
  /\ pc[v] = "translate"
  /\ Goto(v, "idle", None)
  /\ UNCHANGED <<identifiedModules, modules, code, execdata, script, raced>>

\* bindNativeProtos, which only the machine itself sees, and a reference for each
\* function bound.
bindModuleUncounted(v) ==
  /\ pc[v] = "bind"
  /\ execdata' = [execdata EXCEPT ![v] =
       [p \in Proto |-> IF p \in modules[ref[v]].protos THEN ref[v] ELSE @[p]]]
  /\ modules' = [modules EXCEPT ![ref[v]].refcount = @ + 1]
  /\ Goto(v, "unref", ref[v])
  /\ UNCHANGED <<identifiedModules, code, script, raced>>
bindModule(v) ==
  /\ pc[v] = "bind"
  /\ execdata' = [execdata EXCEPT ![v] =
       [p \in Proto |-> IF p \in modules[ref[v]].protos THEN ref[v] ELSE @[p]]]
  /\ modules' = [modules EXCEPT ![ref[v]].refcount = @ + Cardinality(modules[ref[v]].protos)]
  /\ Goto(v, "unref", ref[v])
  /\ UNCHANGED <<identifiedModules, code, script, raced>>

-----------------------------------------------------------------------------
(* Releasing.                                                                *)

\* NativeModule::release up to the call: who sees zero goes on to the lock.
releaseOldCount(v, m) ==
  /\ modules' = [modules EXCEPT ![m].refcount = @ - 1]
  /\ IF modules[m].refcount = 0 THEN Goto(v, "erase", m) ELSE Goto(v, "idle", None)
release(v, m) ==
  /\ modules' = [modules EXCEPT ![m].refcount = @ - 1]
  /\ IF modules[m].refcount = 1 THEN Goto(v, "erase", m) ELSE Goto(v, "idle", None)

\* The NativeModuleRef goes out of scope.
ReleaseRef(v) ==
  /\ pc[v] = "unref"
  /\ release(v, ref[v])
  /\ UNCHANGED <<identifiedModules, code, execdata, script, raced>>

\* The collector frees a function that is bound.
onDestroyFunction(v, p) ==
  /\ pc[v] = "idle" /\ execdata[v][p] # None
  /\ release(v, execdata[v][p])
  /\ execdata' = [execdata EXCEPT ![v][p] = None]
  /\ UNCHANGED <<identifiedModules, code, script, raced>>

\* The code is deallocated, the map forgets the module, its memory is freed.
Destroy(v, m) ==
  /\ modules' = [modules EXCEPT ![m] = Gone]
  /\ code' = code \ {m}
  /\ identifiedModules' = [id \in Id |-> IF id = modules[m].id THEN None
                                         ELSE identifiedModules[id]]
  /\ raced' = (raced \/ \E w \in VM \ {v} : pc[w] = "erase" /\ ref[w] = m)

Unharmed == UNCHANGED <<identifiedModules, modules, code, raced>>

\* Under the lock the count is read again. In memory that was freed any count and
\* any identifier may be found: nothing happens, or a module is destroyed.
eraseNativeModuleUnconditionally(v) ==
  /\ pc[v] = "erase"
  /\ IF modules[ref[v]].alive THEN Destroy(v, ref[v])
     ELSE Unharmed \/ \E m \in Module : modules[m].alive /\ Destroy(v, m)
  /\ Goto(v, "idle", None)
  /\ UNCHANGED <<execdata, script>>
eraseNativeModuleIfUnreferenced(v) ==
  /\ pc[v] = "erase"
  /\ IF modules[ref[v]].alive
     THEN IF modules[ref[v]].refcount # 0 THEN Unharmed ELSE Destroy(v, ref[v])
     ELSE Unharmed \/ \E m \in Module : modules[m].alive /\ Destroy(v, m)
  /\ Goto(v, "idle", None)
  /\ UNCHANGED <<execdata, script>>

Next ==
  \E v \in VM :
    \/ \E id \in Id \cup {Anon} : compile(v, id)
    \/ tryGetNativeModule(v)
    \/ \E m \in Module, S \in SUBSET Proto \ {{}} :
         getOrInsertNativeModule(v, m, S) \/ insertAnonymousNativeModule(v, m, S)
    \/ NothingBound(v)
    \/ bindModule(v)
    \/ ReleaseRef(v)
    \/ \E p \in Proto : onDestroyFunction(v, p)
    \/ eraseNativeModuleIfUnreferenced(v)

Spec == Init /\ [][Next]_vars

-----------------------------------------------------------------------------
(* Properties.                                                               *)

\* The references to a module: bound functions and the ones threads hold.
Holders(m) ==
  {h \in VM \X Proto : execdata[h[1]][h[2]] = m}
    \cup {h \in VM \X {"ref"} : pc[h[1]] \in {"bind", "unref"} /\ ref[h[1]] = m}

\* Until the race below, the count of a module is the number of references to it,
\* whatever two machines do with it at once (addRefs, release).
CountsHolders ==
  ~raced => \A m \in Module : modules[m].refcount = Cardinality(Holders(m))

\* Until the race below, code that a function is bound to is there to be run, and
\* a module a thread has a reference to exists (NativeModuleRef "is an owning
\* reference").
HeldIsAlive ==
  ~raced => \A m \in Module : Holders(m) # {} => modules[m].alive /\ m \in code

\* Until the race below, the map holds for every identifier the one module that
\* exists for it, so that no code is there twice (getOrInsertNativeModule,
\* eraseNativeModuleIfUnreferenced).
OneModulePerId ==
  ~raced =>
    \A id \in Id : {m \in Module : modules[m].alive /\ modules[m].id = id}
                     = {identifiedModules[id]} \ {None}

\* Until the race below, nothing is left when all functions are gone (the
\* assertions of SharedCodeAllocator's destructor).
NothingLeft ==
  ~raced /\ (\A v \in VM : pc[v] = "idle" /\ \A p \in Proto : execdata[v][p] = None)
    => code = {} /\ \A m \in Module : ~modules[m].alive

\* "It is possible that someone acquired a reference to the module between the
\* time that we called this function and the time that we acquired the lock. If
\* so, that's okay" (eraseNativeModuleIfUnreferenced): the module it looks at
\* under the lock still exists.
ExaminedIsAlive ==
  \A v \in VM : pc[v] = "erase" => modules[ref[v]].alive
=============================================================================
