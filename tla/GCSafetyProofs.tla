--------------------------- MODULE GCSafetyProofs ---------------------------
(* Why nothing that is still in use is freed: the inductive invariant of the  *)
(* collector, that every operation of the program and every step of the       *)
(* collector keeps it, and the safety properties that follow.                 *)
EXTENDS GCColourProofs

-----------------------------------------------------------------------------
(* The invariant, object by object: of an object that is not allocated the    *)
(* fields are those the next constructor expects, what a live object refers to *)
(* is live, and while marking what a black one refers to is marked.           *)

Ok(x) == x = Nil \/ Live(x)
Dark(o) == o \in heap /\ ~IsWhite(colour, o)
Settled(x) == x = Nil \/ Dark(x)
Black(o) == keepinvariant /\ colour[o] = "black"

\* The key of an empty entry counts once it is settled: a later assignment to
\* that key calls the barrier for the value only.
TableSafe(t) ==
  /\ t \notin heap => node[t] = EmptyNodes /\ metatable[t] = Nil
  /\ Live(t) => /\ Ok(metatable[t])
                /\ \A n \in Node : node[t][n].val # Nil => Ok(node[t][n].key) /\ Ok(node[t][n].val)
  /\ Black(t) => /\ Settled(metatable[t])
                 /\ \A n \in Node : /\ Settled(node[t][n].key) \/ node[t][n].key = DeadKey
                                    /\ Settled(node[t][n].val)

UdataSafe(u) ==
  /\ u \notin heap => metatable[u] = Nil
  /\ Live(u) => Ok(metatable[u])
  /\ Black(u) => Settled(metatable[u])

ClosureSafe(cl) ==
  /\ cl \notin heap => uprefs[cl] = Nil
  /\ Live(cl) => Ok(uprefs[cl])
  /\ Black(cl) => Settled(uprefs[cl])

\* All slots, not only those in use; the upvalues of a black thread carry the
\* markedopen bit.
ThreadSafe(th) ==
  /\ th \notin heap => stack[th] = EmptyStack /\ openupval[th] = {}
  /\ Live(th) => /\ \A i \in Slot : Ok(stack[th][i])
                 /\ \A uv \in openupval[th] : Live(uv) /\ uv \in uvhead /\ upthread[uv] = th
  /\ Black(th) => /\ \A i \in Slot : Settled(stack[th][i]) \/ Shared(th, i)
                  /\ \A uv \in openupval[th] : Dark(uv) /\ uv \in markedopen

\* A live upvalue that is open is linked, a linked one belongs to a live thread,
\* and while marking one with the markedopen bit to a thread that is marked.
UpvalSafe(uv) ==
  /\ uv \notin heap => upthread[uv] = Nil /\ upvalue[uv] = Nil
  /\ Live(uv) => IF upisopen(uv) THEN uv \in uvhead ELSE Ok(upvalue[uv])
  /\ Black(uv) => Settled(upvalue[uv])
  /\ uv \in uvhead => /\ upthread[uv] \in Thread /\ Live(upthread[uv])
                      /\ uv \in openupval[upthread[uv]]
  /\ uv \in markedopen => uv \in uvhead /\ (keepinvariant => Dark(upthread[uv]))

ObjectsSafe ==
  /\ \A t \in Table : TableSafe(t)
  /\ \A u \in Udata : UdataSafe(u)
  /\ \A cl \in Closure : ClosureSafe(cl)
  /\ \A th \in Thread : ThreadSafe(th)
  /\ \A uv \in UpVal : UpvalSafe(uv)

RootsSafe ==
  /\ Live(MainThread) /\ \A th \in isactive : Live(th)
  /\ \A r \in RefId : Ok(ref_array[r])
  /\ \A b \in BasicType : Ok(mt[b])
  /\ keepinvariant => /\ Dark(MainThread)
                      /\ gc_ref_gray \/ \A r \in RefId : Settled(ref_array[r])

\* The bits of a mark phase are gone when the next begins.
BitsReset == ~keepinvariant /\ fullgc # "sweep" => markedopen = {}

\* A thread that was resumed is kept by a slot of its resumer that no upvalue
\* reaches, and the resumers form no cycle.
Waits(co) ==
  \E i \in 1..top[caller[co]] :
    stack[caller[co]][i] = co /\ \A uv \in openupval[caller[co]] : uplevel[uv] # i
Waiting ==
  /\ \A co \in isactive : Waits(co)
  /\ \A S \in SUBSET isactive : S # {} => \E co \in S : caller[co] \notin S

\* What atomic() has settled so far.
Swept(th) ==
  /\ th \in Thread
  /\ \A i \in Slot : Settled(stack[th][i])
  /\ \A uv \in openupval[th] : Dark(uv) /\ uv \in markedopen
AtomicMarks ==
  /\ atomicpc # "none" => \A uv \in UpVal : colour[uv] = "gray" => Settled(UpValue(uv))
  /\ atomicpc \in {"weak", "again", "refs"} =>
       /\ \A b \in BasicType : Settled(mt[b])
       /\ \A t \in weak : Settled(metatable[t])
  /\ atomicpc \in {"again", "refs"} => \A th \in grayagain : Swept(th)
  /\ atomicpc = "refs" => ~gc_ref_gray

SafeInv ==
  /\ ColourInv /\ ObjectsSafe /\ RootsSafe /\ BitsReset /\ Waiting /\ AtomicMarks

-----------------------------------------------------------------------------
(* What the turns of single objects mean for the invariant.                  *)

LEMMA TurnFacts ==
  ASSUME ColourInv, AllTurn, UNCHANGED phase
  PROVE  /\ heap \subseteq heap' /\ heap \subseteq Obj
         /\ keepinvariant' <=> keepinvariant
         /\ \A o : Live(o) => Live(o)'
         /\ \A o \in Obj : Live(o)' => Live(o) \/ o \notin heap \/ o \in Str
         /\ keepinvariant => \A o : Dark(o) => Dark(o)'
         /\ \A o \in Obj : Black(o)' => \/ Black(o)
                                        \/ o \in Str \cup Leaf \cup Udata
                                        \/ o \in UpVal /\ colour[o] = "gray"
         /\ \A uv \in UpVal : keepinvariant /\ colour[uv] = "gray" =>
                                colour'[uv] = "gray" \/ upthread'[uv] = Nil
  <1> USE WhiteDistinct
  <1>0. colour \in [Obj -> Colour] /\ currentwhite \in White /\ otherwhite \in White
        /\ otherwhite # currentwhite
    BY DEF ColourInv, TypeInv, TypeOK, ColourType, PhaseType, otherwhite
  <1>1. UNCHANGED <<currentwhite, gcstate>> /\ otherwhite' = otherwhite
        /\ (keepinvariant' <=> keepinvariant)
    BY DEF phase, otherwhite, keepinvariant
  <1>2. heap \subseteq Obj /\ heap' \subseteq Obj
    BY DEF heap
  <1>3. ASSUME NEW o \in heap PROVE o \in heap'
    <2>1. Turn(o) /\ colour[o] # "free" /\ o \in Obj
      BY DEF AllTurn, heap
    <2> QED
      BY <1>0, <2>1 DEF Turn, heap
  <1>4. ASSUME NEW o, Live(o) PROVE Live(o)'
    <2>1. Turn(o) /\ o \in heap /\ o \in Obj /\ o \in heap' /\ (o # MainThread => colour[o] # otherwhite)
      BY <1>4, <1>3 DEF AllTurn, heap, Live, isdead
    <2>2. o # MainThread => colour'[o] # otherwhite
      BY <1>0, <2>1 DEF Turn
    <2> QED
      BY <1>1, <2>1, <2>2 DEF Live, isdead
  <1>5. ASSUME NEW o \in Obj, Live(o)', o \in heap, o \notin Str PROVE Live(o)
    <2>1. Turn(o) /\ (keepinvariant => ~isdead(o))
      BY <1>5 DEF AllTurn, ColourInv, DeadOnlyInSweep, keepinvariant
    <2> QED
      BY <1>0, <1>1, <1>5, <2>1 DEF Live, isdead, Turn, IsWhite
  <1>6. ASSUME keepinvariant, NEW o, Dark(o) PROVE Dark(o)'
    <2>1. Turn(o) /\ o \in heap' /\ colour[o] # "free" /\ ~IsWhite(colour, o)
      BY <1>6, <1>3 DEF AllTurn, heap, Dark
    <2>2. ~IsWhite(colour', o)
      BY <1>6, <2>1 DEF Turn, IsWhite
    <2> QED
      BY <2>1, <2>2 DEF Dark, IsWhite
  <1>7. ASSUME NEW o \in Obj, Black(o)', ~Black(o), o \notin Str \cup Leaf \cup Udata
        PROVE  o \in UpVal /\ colour[o] = "gray"
    <2>1. Turn(o) /\ colour'[o] = "black" /\ colour[o] # "black" /\ keepinvariant
      BY <1>1, <1>7 DEF AllTurn, Black
    <2>2. o \in UpVal \/ o \in Gclist
      BY <1>7 DEF Obj, Value
    <2> QED
      BY <1>0, <2>1, <2>2 DEF Turn
  <1>8. ASSUME NEW uv \in UpVal, keepinvariant, colour[uv] = "gray"
        PROVE  colour'[uv] = "gray" \/ upthread'[uv] = Nil
    <2>1. Turn(uv)
      BY KindTypes DEF AllTurn
    <2> QED
      BY <1>0, <1>8, <2>1 DEF Turn, IsWhite
  <1> QED
    BY <1>1, <1>2, <1>3, <1>4, <1>5, <1>6, <1>7, <1>8

LEMMA NewFields ==
  /\ \A n \in Node : EmptyNodes[n].key = Nil /\ EmptyNodes[n].val = Nil
  /\ \A i \in Slot : EmptyStack[i] = Nil
  BY DEF EmptyNodes, EmptyStack

\* An object that an operation does not write stays safe.
LEMMA TableStays ==
  ASSUME ColourInv, AllTurn, UNCHANGED phase, NEW t \in Table, TableSafe(t),
         node'[t] = node[t], metatable'[t] = metatable[t]
  PROVE  TableSafe(t)'
  <1>1. t \in Obj /\ t \notin Str \cup Leaf \cup Udata \cup UpVal
    BY KindTypes, KindsApart, HeapAssumption
  <1>2. t \notin heap' => node'[t] = EmptyNodes /\ metatable'[t] = Nil
    BY TurnFacts DEF TableSafe
  <1>3. ASSUME Live(t)'
        PROVE  /\ Ok(metatable[t])'
               /\ \A n \in Node : node[t][n].val' # Nil => Ok(node[t][n].key)' /\ Ok(node[t][n].val)'
    <2>1. Live(t) \/ t \notin heap
      BY <1>1, <1>3, TurnFacts
    <2> QED
      BY <2>1, TurnFacts, NewFields DEF TableSafe, Ok
  <1>4. ASSUME Black(t)'
        PROVE  /\ Settled(metatable[t])'
               /\ \A n \in Node : /\ Settled(node[t][n].key)' \/ node[t][n].key' = DeadKey
                                  /\ Settled(node[t][n].val)'
    <2>1. Black(t) /\ keepinvariant
      BY <1>1, <1>4, TurnFacts DEF Black
    <2> QED
      BY <2>1, TurnFacts DEF TableSafe, Settled
  <1> QED
    BY <1>2, <1>3, <1>4 DEF TableSafe

\* A barrier that marks a userdata marks its metatable as well.
UdataMarked ==
  \A u \in Udata : keepinvariant /\ colour'[u] = "black" /\ colour[u] # "black" =>
    \A m \in Table : metatable[u] = m => Dark(m)'

LEMMA UdataStays ==
  ASSUME ColourInv, AllTurn, UNCHANGED phase, UdataMarked, NEW u \in Udata, UdataSafe(u),
         metatable'[u] = metatable[u]
  PROVE  UdataSafe(u)'
  <1>1. u \in Obj /\ u \notin Str
    BY KindTypes, HeapAssumption
  <1>2. u \notin heap' => metatable'[u] = Nil
    BY TurnFacts DEF UdataSafe
  <1>3. ASSUME Live(u)' PROVE Ok(metatable[u])'
    <2>1. Live(u) \/ u \notin heap
      BY <1>1, <1>3, TurnFacts
    <2> QED
      BY <2>1, TurnFacts DEF UdataSafe, Ok
  <1>4. ASSUME Black(u)' PROVE Settled(metatable[u])'
    <2>1. CASE Black(u)
      BY <1>4, <2>1, TurnFacts DEF UdataSafe, Settled, Black
    <2>2. CASE ~Black(u)
      <3>1. keepinvariant /\ colour'[u] = "black" /\ colour[u] # "black"
        BY <1>4, <2>2, TurnFacts DEF Black
      <3>2. metatable[u] \in Table \cup {Nil}
        BY DEF ColourInv, TypeInv, TypeOK, TableType
      <3> QED
        BY <3>1, <3>2 DEF UdataMarked, Settled
    <2> QED
      BY <2>1, <2>2
  <1> QED
    BY <1>2, <1>3, <1>4 DEF UdataSafe

LEMMA ClosureStays ==
  ASSUME ColourInv, AllTurn, UNCHANGED phase, NEW cl \in Closure, ClosureSafe(cl),
         uprefs'[cl] = uprefs[cl]
  PROVE  ClosureSafe(cl)'
  <1>1. cl \in Obj /\ cl \notin Str \cup Leaf \cup Udata \cup UpVal
    BY KindTypes, KindsApart, HeapAssumption
  <1>2. cl \notin heap' => uprefs'[cl] = Nil
    BY TurnFacts DEF ClosureSafe
  <1>3. ASSUME Live(cl)' PROVE Ok(uprefs[cl])'
    <2>1. Live(cl) \/ cl \notin heap
      BY <1>1, <1>3, TurnFacts
    <2> QED
      BY <2>1, TurnFacts DEF ClosureSafe, Ok
  <1>4. ASSUME Black(cl)' PROVE Settled(uprefs[cl])'
    <2>1. Black(cl)
      BY <1>1, <1>4, TurnFacts
    <2> QED
      BY <2>1, TurnFacts DEF ClosureSafe, Settled, Black
  <1> QED
    BY <1>2, <1>3, <1>4 DEF ClosureSafe

\* The upvalues open on a thread stay as they are.
OpenSame(th) ==
  /\ openupval'[th] = openupval[th]
  /\ \A uv \in openupval[th] : /\ upthread'[uv] = upthread[uv] /\ uplevel'[uv] = uplevel[uv]
                               /\ uv \in uvhead => uv \in uvhead'
                               /\ uv \in markedopen => uv \in markedopen'

LEMMA SharedStays ==
  ASSUME ColourInv, AllTurn, UNCHANGED phase, NEW th \in Thread, Live(th), ThreadSafe(th),
         OpenSame(th), NEW i, Shared(th, i), keepinvariant
  PROVE  Shared(th, i)'
  <1>1. PICK uv \in openupval[th] : uplevel[uv] = i /\ colour[uv] = "gray"
    BY DEF Shared
  <1>2. upthread[uv] = th /\ uv \in UpVal /\ th # Nil
    BY HeapAssumption, KindTypes DEF ThreadSafe, ColourInv, TypeInv, TypeOK, UpvalType
  <1>3. colour'[uv] = "gray"
    BY <1>1, <1>2, TurnFacts DEF OpenSame
  <1> QED
    BY <1>1, <1>3 DEF Shared, OpenSame

LEMMA BlackIsLive ==
  ASSUME ColourInv, NEW o \in Obj, colour[o] \in {"black", "gray"}
  PROVE  Live(o) /\ Dark(o)
  BY WhiteDistinct, OtherWhite DEF Live, isdead, Dark, IsWhite, heap

LEMMA ThreadStays ==
  ASSUME ColourInv, AllTurn, UNCHANGED phase, NEW th \in Thread, ThreadSafe(th),
         stack'[th] = stack[th], openupval'[th] = openupval[th],
         Live(th) => OpenSame(th)
  PROVE  ThreadSafe(th)'
  <1>1. th \in Obj /\ th \notin Str \cup Leaf \cup Udata \cup UpVal
    BY KindTypes, KindsApart, HeapAssumption
  <1>2. th \notin heap' => stack'[th] = EmptyStack /\ openupval'[th] = {}
    BY TurnFacts DEF ThreadSafe
  <1>3. ASSUME Live(th)'
        PROVE  /\ \A i \in Slot : Ok(stack[th][i])'
               /\ \A uv \in openupval[th] : Live(uv)' /\ uv \in uvhead' /\ upthread'[uv] = th
    <2>1. CASE Live(th)
      BY <2>1, TurnFacts DEF ThreadSafe, Ok, OpenSame
    <2>2. CASE th \notin heap
      BY <2>2, NewFields DEF ThreadSafe, Ok
    <2> QED
      BY <1>1, <1>3, <2>1, <2>2, TurnFacts
  <1>4. ASSUME Black(th)'
        PROVE  /\ \A i \in Slot : Settled(stack[th][i])' \/ Shared(th, i)'
               /\ \A uv \in openupval[th] : Dark(uv)' /\ uv \in markedopen'
    <2>1. Black(th) /\ keepinvariant
      BY <1>1, <1>4, TurnFacts DEF Black
    <2>2. Live(th)
      BY <1>1, <2>1, BlackIsLive DEF Black
    <2> QED
      BY <2>1, <2>2, TurnFacts, SharedStays DEF ThreadSafe, Settled, OpenSame
  <1> QED
    BY <1>2, <1>3, <1>4 DEF ThreadSafe

\* A live thread that is not black may have any live values written to its stack.
LEMMA ThreadWritten ==
  ASSUME ColourInv, AllTurn, UNCHANGED phase, NEW th \in Thread, ThreadSafe(th), Live(th),
         OpenSame(th), ~Black(th)',
         \A i \in Slot : stack'[th][i] = stack[th][i] \/ Ok(stack[th][i])'
  PROVE  ThreadSafe(th)'
  <1>1. Live(th)' /\ th \in heap'
    BY TurnFacts DEF Live
  <1>2. \A i \in Slot : Ok(stack[th][i])'
    BY TurnFacts DEF ThreadSafe, Ok
  <1>3. \A uv \in openupval[th] : Live(uv)' /\ uv \in uvhead' /\ upthread'[uv] = th
    BY TurnFacts DEF ThreadSafe, OpenSame
  <1> QED
    BY <1>1, <1>2, <1>3 DEF ThreadSafe, OpenSame

LEMMA UpvalStays ==
  ASSUME ColourInv, AllTurn, UNCHANGED phase, NEW uv \in UpVal, UpvalSafe(uv),
         upthread'[uv] = upthread[uv], upvalue'[uv] = upvalue[uv],
         uv \in uvhead' <=> uv \in uvhead, uv \in markedopen' => uv \in markedopen,
         uv \in uvhead => uv \in openupval'[upthread[uv]], UpvalColour(uv)'
  PROVE  UpvalSafe(uv)'
  <1>1. uv \in Obj /\ uv \notin Str \cup Leaf \cup Udata
    BY KindTypes, KindsApart, HeapAssumption
  <1>2. uv \notin heap' => upthread'[uv] = Nil /\ upvalue'[uv] = Nil
    BY TurnFacts DEF UpvalSafe
  <1>3. ASSUME Live(uv)' PROVE IF upisopen(uv)' THEN uv \in uvhead' ELSE Ok(upvalue[uv])'
    <2>1. Live(uv) \/ uv \notin heap
      BY <1>1, <1>3, TurnFacts
    <2> QED
      BY <2>1, TurnFacts DEF UpvalSafe, Ok, upisopen
  <1>4. ASSUME Black(uv)' PROVE Settled(upvalue[uv])'
    <2>1. ~upisopen(uv)
      BY <1>4 DEF UpvalColour, Black, upisopen
    <2>2. colour[uv] # "gray"
      BY <1>1, <2>1 DEF ColourInv, ColourDiscipline, heap
    <2>3. Black(uv)
      BY <1>1, <1>4, <2>2, TurnFacts
    <2> QED
      BY <2>3, TurnFacts DEF UpvalSafe, Settled, Black
  <1>5. uv \in uvhead' => /\ upthread'[uv] \in Thread /\ Live(upthread[uv])'
                          /\ uv \in openupval'[upthread'[uv]]
    BY TurnFacts DEF UpvalSafe
  <1>6. uv \in markedopen' => uv \in uvhead' /\ (keepinvariant' => Dark(upthread[uv])')
    BY TurnFacts DEF UpvalSafe
  <1> QED
    BY <1>2, <1>3, <1>4, <1>5, <1>6 DEF UpvalSafe

LEMMA RootsStay ==
  ASSUME ColourInv, AllTurn, UNCHANGED phase, RootsSafe,
         \A th \in isactive' \ isactive : Live(th),
         \A r \in RefId : \/ ref_array'[r] = ref_array[r]
                          \/ Ok(ref_array[r])' /\ (gc_ref_gray' \/ ref_array'[r] = Nil),
         \A b \in BasicType : mt'[b] = mt[b] \/ Ok(mt[b])',
         gc_ref_gray => gc_ref_gray'
  PROVE  RootsSafe'
  <1>1. Live(MainThread)' /\ \A th \in isactive' : Live(th)'
    BY TurnFacts DEF RootsSafe
  <1>2. \A r \in RefId : Ok(ref_array[r])'
    BY TurnFacts DEF RootsSafe, Ok
  <1>3. \A b \in BasicType : Ok(mt[b])'
    BY TurnFacts DEF RootsSafe, Ok
  <1>4. keepinvariant' => /\ Dark(MainThread)'
                          /\ gc_ref_gray' \/ \A r \in RefId : Settled(ref_array[r])'
    BY TurnFacts DEF RootsSafe, Settled
  <1> QED
    BY <1>1, <1>2, <1>3, <1>4 DEF RootsSafe

\* A thread that waits is not written but through its upvalues.
LEMMA WaitingStays ==
  ASSUME TypeInv, Waiting, UNCHANGED sched,
         \A th \in (isactive \cup {MainThread}) \ {run} :
           /\ top'[th] = top[th] /\ openupval'[th] = openupval[th]
           /\ \A uv \in openupval[th] : uplevel'[uv] = uplevel[uv]
           /\ \A i \in Slot : \/ stack'[th][i] = stack[th][i]
                              \/ \E uv \in openupval[th] : uplevel[uv] = i
  PROVE  Waiting'
  <1>1. ASSUME NEW co \in isactive PROVE Waits(co)'
    <2>1. PICK th : th = caller[co]
      OBVIOUS
    <2>2. th \in (isactive \cup {MainThread}) \ {run} /\ caller'[co] = th /\ th \in Thread
      BY <2>1, HeapAssumption DEF TypeInv, TypeOK, SchedType, Chain, sched
    <2>3. PICK i \in 1..top[th] : stack[th][i] = co /\ \A uv \in openupval[th] : uplevel[uv] # i
      BY <2>1 DEF Waiting, Waits
    <2>4. i \in Slot
      BY <2>2, HeapAssumption DEF TypeInv, TypeOK, StackType, Slot
    <2>5. i \in 1..top'[th] /\ stack'[th][i] = co /\ \A uv \in openupval'[th] : uplevel'[uv] # i
      BY <2>2, <2>3, <2>4
    <2> QED
      BY <2>2, <2>5 DEF Waits
  <1> QED
    BY <1>1 DEF Waiting, sched

-----------------------------------------------------------------------------
(* What the barriers settle.                                                 *)

LEMMA ReachedSettles ==
  ASSUME TypeInv, NEW c, NEW S
  PROVE  /\ \A o \in S : o \in Obj /\ IsWhite(c, o) => o \in Reached(c, S)
         /\ \A u \in Udata \cap Reached(c, S), m \in Table :
              metatable[u] = m /\ IsWhite(c, m) => m \in Reached(c, S)
         /\ \A uv \in UpVal \cap Reached(c, S) :
              LET v == UpValue(uv)
              IN v \in Obj /\ IsWhite(c, v) => v \in Reached(c, S)
  <1> DEFINE white(X) == {o \in X \cap Obj : IsWhite(c, o)}
             first == white(S)
             second == first \cup white({UpValue(uv) : uv \in first \cap UpVal})
             third == white({metatable[u] : u \in second \cap Udata})
  <1>1. Reached(c, S) = second \cup third
    BY DEF Reached
  <1>2. third \subseteq Table
    BY KindTypes, HeapAssumption DEF TypeInv, TypeOK, TableType
  <1>3. \A o \in S : o \in Obj /\ IsWhite(c, o) => o \in Reached(c, S)
    BY <1>1
  <1>4. ASSUME NEW u \in Udata \cap Reached(c, S), NEW m \in Table,
               metatable[u] = m, IsWhite(c, m)
        PROVE  m \in Reached(c, S)
    <2>1. u \in second /\ m \in Obj
      BY <1>1, <1>2, KindTypes, KindsApart, HeapAssumption
    <2> QED
      BY <1>1, <1>4, <2>1
  <1>5. ASSUME NEW uv \in UpVal \cap Reached(c, S), NEW v, v = UpValue(uv), v \in Obj,
               IsWhite(c, v)
        PROVE  v \in Reached(c, S)
    <2>1. \A x \in {UpValue(w) : w \in first \cap UpVal} : x \in Value \cup {Nil}
      BY UpValueType DEF TypeInv, TypeOK
    <2>2. uv \in first
      BY <1>1, <1>2, <2>1, KindTypes, KindsApart
    <2> QED
      BY <1>1, <1>5, <2>2
  <1> QED
    BY <1>3, <1>4, <1>5

LEMMA MarkedIsDark ==
  ASSUME NEW c \in [Obj -> Colour], NEW M, M \subseteq Obj, colour' = Marked(c, M),
         NEW o \in Obj, c[o] # "free", o \in M \/ ~IsWhite(c, o)
  PROVE  Dark(o)'
  <1>1. colour'[o] = IF o \notin M THEN c[o]
                     ELSE IF o \in Gclist \/ (o \in UpVal /\ upisopen(o)) THEN "gray" ELSE "black"
    BY DEF Marked
  <1> QED
    BY <1>1, WhiteDistinct DEF Dark, heap, IsWhite

\* Marking at once settles what is marked.
LEMMA MarkNowSettles ==
  ASSUME ColourInv, \A u \in Udata : UdataSafe(u), keepinvariant,
         NEW c \in [Obj -> Colour],
         \A o \in Obj : c[o] = colour[o] \/ (o \in UpVal /\ c[o] = "black"),
         NEW S, MarkNow(c, S)
  PROVE  UdataMarked /\ \A v \in S : v \in heap => Dark(v)'
  <1> DEFINE M == Reached(c, S)
  <1>1. colour' = Marked(c, M) /\ TypeInv
    BY DEF MarkNow, ColourInv
  <1>2. M \subseteq Obj
    BY ReachedWhite
  <1>3. /\ \A o \in S : o \in Obj /\ IsWhite(c, o) => o \in M
        /\ \A u \in Udata \cap M, m \in Table : metatable[u] = m /\ IsWhite(c, m) => m \in M
    BY <1>1, ReachedSettles
  <1> HIDE DEF M
  <1>4. ASSUME NEW v \in S, v \in heap PROVE Dark(v)'
    <2>1. v \in Obj /\ c[v] # "free"
      BY <1>4 DEF heap
    <2> QED
      BY <1>1, <1>2, <1>3, <2>1, MarkedIsDark
  <1>5. ASSUME NEW u \in Udata, colour'[u] = "black", colour[u] # "black",
               NEW m \in Table, metatable[u] = m
        PROVE  Dark(m)'
    <2>1. u \in Obj /\ u \notin UpVal /\ m \in Obj /\ m \notin UpVal /\ m # Nil
      BY KindTypes, KindsApart, HeapAssumption
    <2>2. u \in M /\ c[u] = colour[u] /\ c[m] = colour[m]
      BY <1>1, <1>5, <2>1 DEF Marked
    <2>3. IsWhite(c, u)
      BY <2>2, ReachedWhite DEF M
    <2>4. Live(u)
      BY <2>1, <2>2, <2>3, WhiteDistinct
         DEF IsWhite, Live, heap, ColourInv, DeadOnlyInSweep, keepinvariant
    <2>5. c[m] # "free"
      BY <1>5, <2>1, <2>2, <2>4 DEF UdataSafe, Ok, Live, heap
    <2> QED
      BY <1>1, <1>2, <1>3, <1>5, <2>1, <2>2, <2>5, MarkedIsDark
  <1> QED
    BY <1>4, <1>5 DEF UdataMarked

LEMMA NoBarrierSettles == NoBarrier => UdataMarked
  BY DEF NoBarrier, UdataMarked

\* After a barrier a black owner refers to marked objects.
LEMMA BarrierSettles ==
  ASSUME ColourInv, \A u \in Udata : UdataSafe(u), NEW o \in Obj, NEW S,
         \A v \in S : Ok(v), luaC_barrier(o, S) \/ luaC_barriert(o, S)
  PROVE  /\ UdataMarked
         /\ keepinvariant /\ colour'[o] = "black" => \A v \in S : v = Nil \/ Dark(v)'
  <1>0. colour \in [Obj -> Colour] /\ Nil \notin Obj
    BY HeapAssumption DEF ColourInv, TypeInv, TypeOK, ColourType
  <1>1. CASE NoBarrier /\ (colour[o] = "black" => WhiteIn(S) = {})
    <2>1. UNCHANGED colour
      BY <1>1 DEF NoBarrier
    <2>2. ASSUME colour[o] = "black", NEW v \in S, v # Nil PROVE Dark(v)'
      <3>1. v \in heap /\ v \in Obj /\ ~IsWhite(colour, v)
        BY <1>1, <2>2 DEF Ok, Live, WhiteIn, heap
      <3> QED
        BY <2>1, <3>1 DEF Dark, heap, IsWhite
    <2> QED
      BY <1>1, <2>1, <2>2, NoBarrierSettles
  <1>2. CASE keepinvariant /\ MarkNow(colour, S)
    BY <1>0, <1>2, MarkNowSettles DEF Ok, Live
  <1>3. CASE ~keepinvariant
    BY <1>3 DEF UdataMarked
  <1>4. CASE luaC_barrierback(o)
    <2>1. colour' = [colour EXCEPT ![o] = "gray"]
      BY <1>4 DEF luaC_barrierback
    <2> QED
      BY <1>0, <2>1, KindTypes DEF UdataMarked
  <1> QED
    BY <1>1, <1>2, <1>3, <1>4 DEF luaC_barrier, luaC_barriert, luaC_barrierf, keepinvariant

LEMMA BackSettles ==
  ASSUME ColourInv, NEW o \in Obj, luaC_barrierfast(o)
  PROVE  UdataMarked /\ ~Black(o)'
  <1>0. colour \in [Obj -> Colour]
    BY DEF ColourInv, TypeInv, TypeOK, ColourType
  <1>1. \/ UNCHANGED colour /\ colour[o] # "black"
        \/ colour' = [colour EXCEPT ![o] = "gray"]
    BY DEF luaC_barrierfast, luaC_barrierback, NoBarrier
  <1> QED
    BY <1>0, <1>1, KindTypes DEF UdataMarked, Black

LEMMA InitSettles ==
  ASSUME ColourInv, NEW new, luaC_init(new), UNCHANGED currentwhite
  PROVE  UdataMarked /\ \A o \in new \cap Obj : Live(o)' /\ ~Black(o)'
  <1>0. colour \in [Obj -> Colour] /\ currentwhite \in White
    BY DEF ColourInv, TypeInv, TypeOK, ColourType, PhaseType
  <1> QED
    BY <1>0, WhiteDistinct, KindTypes
       DEF UdataMarked, luaC_init, Live, heap, isdead, otherwhite, Black

-----------------------------------------------------------------------------
(* What a program can get hold of is live.                                   *)

LEMMA RunFacts ==
  ASSUME SafeInv
  PROVE  /\ run \in Thread /\ Live(run) /\ ~Black(run) /\ Active(run)
         /\ \A i \in Slot : Ok(stack[run][i])
         /\ \A v \in Held \cup {Nil} : Ok(v) /\ v \in Value \cup {Nil}
         /\ Register \subseteq Slot
  <1>1. run \in Thread /\ Live(run) /\ Active(run)
    BY DEF SafeInv, RootsSafe, ColourInv, TypeInv, TypeOK, SchedType, Chain, Active
  <1>2. ~Black(run)
    BY <1>1, KindTypes DEF SafeInv, ColourInv, ColourDiscipline, heap, Live, Black
  <1>3. \A i \in Slot : Ok(stack[run][i])
    BY <1>1 DEF SafeInv, ObjectsSafe, ThreadSafe
  <1>4. Register \subseteq Slot /\ Held \subseteq Value \cup {Nil}
    BY HeldType DEF SafeInv, ColourInv, TypeInv, TypeOK
  <1>5. \A v \in Held \cup {Nil} : Ok(v)
    BY <1>3, <1>4 DEF Held, Ok
  <1> QED
    BY <1>1, <1>2, <1>3, <1>4, <1>5

\* The value behind a live upvalue is live.
LEMMA UpValueOk ==
  ASSUME SafeInv, NEW uv \in UpVal, Live(uv)
  PROVE  Ok(UpValue(uv))
  <1>1. CASE upisopen(uv)
    <2>1. upthread[uv] \in Thread /\ Live(upthread[uv]) /\ uplevel[uv] \in Slot
      BY <1>1 DEF SafeInv, ObjectsSafe, UpvalSafe, ColourInv, TypeInv, TypeOK, UpvalType, upisopen
    <2> QED
      BY <1>1, <2>1 DEF SafeInv, ObjectsSafe, ThreadSafe, UpValue
  <1>2. CASE ~upisopen(uv)
    BY <1>2 DEF SafeInv, ObjectsSafe, UpvalSafe, UpValue
  <1> QED
    BY <1>1, <1>2

LEMMA LoadableOk ==
  ASSUME SafeInv
  PROVE  \A v \in Loadable : Ok(v)
  <1>1. \A v \in Held \cup {Nil} : Ok(v) /\ v \in Value \cup {Nil}
    BY RunFacts
  <1>2. \A o \in Held \cap Obj : Live(o)
    BY <1>1, HeapAssumption DEF Ok
  <1>3. ASSUME NEW t \in Held \cap Table, NEW v \in Fields(t) PROVE Ok(v)
    <2>1. PICK n \in Used(t) : v \in {node[t][n].key, node[t][n].val}
      BY DEF Fields
    <2>2. n \in Node /\ node[t][n].val # Nil /\ Live(t)
      BY <1>2, <2>1, KindTypes DEF Used
    <2> QED
      BY <2>1, <2>2 DEF SafeInv, ObjectsSafe, TableSafe
  <1>4. ASSUME NEW o \in Held \cap (Table \cup Udata) PROVE Ok(metatable[o])
    BY <1>2, KindTypes DEF SafeInv, ObjectsSafe, TableSafe, UdataSafe
  <1>5. ASSUME NEW cl \in Held \cap Closure PROVE Ok(Captured(cl))
    <2>1. Ok(uprefs[cl])
      BY <1>2, KindTypes DEF SafeInv, ObjectsSafe, ClosureSafe
    <2> QED
      BY <2>1, UpValueOk, KindTypes, HeapAssumption DEF Captured, Ok
  <1>6. \A b \in BasicType : Ok(mt[b])
    BY DEF SafeInv, RootsSafe
  <1>7. \A r \in RefId : Ok(ref_array[r])
    BY DEF SafeInv, RootsSafe
  <1> QED
    BY <1>1, <1>3, <1>4, <1>5, <1>6, <1>7 DEF Loadable

-----------------------------------------------------------------------------
(* The operations of the program, by the objects they write.                 *)

\* What every operation does, and what remains to be shown of it.
Step == SafeInv /\ Running /\ AllTurn /\ UNCHANGED phase /\ UdataMarked
        /\ \A uv \in UpVal : UpvalColour(uv)'

Kept == ObjectsSafe' /\ RootsSafe' /\ Waiting' /\ markedopen' \subseteq markedopen

LEMMA TablesKept ==
  ASSUME Step, UNCHANGED <<node, metatable>>
  PROVE  (\A t \in Table : TableSafe(t)') /\ (\A u \in Udata : UdataSafe(u)')
  BY TableStays, UdataStays DEF Step, SafeInv, ObjectsSafe

LEMMA ClosuresKept ==
  ASSUME Step, UNCHANGED uprefs
  PROVE  \A cl \in Closure : ClosureSafe(cl)'
  BY ClosureStays DEF Step, SafeInv, ObjectsSafe

LEMMA UpvalsKept ==
  ASSUME Step, UNCHANGED upvals
  PROVE  /\ \A uv \in UpVal : UpvalSafe(uv)'
         /\ \A th \in Thread : OpenSame(th)
  BY UpvalStays DEF Step, SafeInv, ObjectsSafe, UpvalSafe, upvals, OpenSame

LEMMA RootsKept ==
  ASSUME Step, UNCHANGED <<roots, isactive>>
  PROVE  RootsSafe'
  <1>1. ref_array' = ref_array /\ mt' = mt /\ gc_ref_gray' = gc_ref_gray /\ isactive' = isactive
    BY DEF roots
  <1>2. \A th \in isactive' \ isactive : Live(th)
    BY <1>1
  <1>3. ColourInv /\ AllTurn /\ UNCHANGED phase /\ RootsSafe
    BY DEF Step, SafeInv
  <1> QED
    BY <1>1, <1>2, <1>3, RootsStay

LEMMA ThreadsKept ==
  ASSUME Step, UNCHANGED <<stack, upvals>>
  PROVE  \A th \in Thread : ThreadSafe(th)'
  BY ThreadStays, UpvalsKept DEF Step, SafeInv, ObjectsSafe, upvals

LEMMA SlotsKept ==
  ASSUME Step, UNCHANGED upvals, NEW th \in Thread, Live(th), ~Black(th)',
         \A t \in Thread \ {th} : stack'[t] = stack[t],
         \A i \in Slot : stack'[th][i] = stack[th][i] \/ Ok(stack[th][i])'
  PROVE  \A t \in Thread : ThreadSafe(t)'
  <1>1. \A t \in Thread : ThreadSafe(t) /\ OpenSame(t) /\ openupval'[t] = openupval[t]
    BY UpvalsKept DEF Step, SafeInv, ObjectsSafe, upvals
  <1>2. ColourInv /\ AllTurn /\ UNCHANGED phase
    BY DEF Step, SafeInv
  <1>3. ThreadSafe(th)'
    BY <1>1, <1>2, ThreadWritten
  <1>4. \A t \in Thread \ {th} : ThreadSafe(t)'
    BY <1>1, <1>2, ThreadStays
  <1> QED
    BY <1>3, <1>4

LEMMA RunNotBlack ==
  ASSUME Step, NEW th, th = run
  PROVE  th \in Thread /\ Live(th) /\ Live(th)' /\ ~Black(th)'
  <1>1. th \in Thread /\ Live(th) /\ ~Black(th) /\ ColourInv
    BY RunFacts DEF Step, SafeInv
  <1>2. th \in Obj /\ th \notin Str \cup Leaf \cup Udata \cup UpVal
    BY <1>1, KindTypes, KindsApart, HeapAssumption
  <1> QED
    BY <1>1, <1>2, TurnFacts DEF Step

LEMMA RegisterKept ==
  ASSUME Step, UNCHANGED upvals, NEW i \in Register, NEW v, SetRegister(i, v),
         v = Nil \/ Live(v)'
  PROVE  \A t \in Thread : ThreadSafe(t)'
  <1>0. PICK th : th = run
    OBVIOUS
  <1>1. th \in Thread /\ Live(th) /\ ~Black(th)'
    BY <1>0, RunNotBlack
  <1>2. i \in Slot /\ StackType
    BY RunFacts DEF Step, SafeInv, ColourInv, TypeInv, TypeOK
  <1>3. stack' = [stack EXCEPT ![th][i] = v]
    BY <1>0 DEF SetRegister
  <1>4. \A t \in Thread \ {th} : stack'[t] = stack[t]
    BY <1>3 DEF StackType
  <1>5. \A j \in Slot : stack'[th][j] = IF j = i THEN v ELSE stack[th][j]
    BY <1>1, <1>2, <1>3 DEF StackType
  <1>6. \A j \in Slot : stack'[th][j] = stack[th][j] \/ Ok(stack[th][j])'
    BY <1>1, <1>5 DEF Ok
  <1> QED
    BY <1>1, <1>4, <1>6, SlotsKept

\* A thread that waits for another is neither the one that runs nor suspended.
LEMMA WaitingKept ==
  ASSUME Step, UNCHANGED <<sched, upvals>>,
         \A th \in (isactive \cup {MainThread}) \ {run} :
           top'[th] = top[th] /\ stack'[th] = stack[th]
  PROVE  Waiting'
  <1>1. TypeInv /\ Waiting
    BY DEF Step, SafeInv, ColourInv
  <1> QED
    BY <1>1, WaitingStays DEF upvals

\* Operations that write a register and nothing else but colours and top.
LEMMA RegisterStep ==
  ASSUME Step, UNCHANGED <<node, metatable, uprefs, upvals, roots, sched>>,
         NEW i \in Register, NEW v, SetRegister(i, v), v = Nil \/ Live(v)',
         \A th \in (isactive \cup {MainThread}) \ {run} : top'[th] = top[th]
  PROVE  Kept
  <1>1. run \in Thread /\ StackType /\ isactive \subseteq Thread
    BY RunNotBlack DEF Step, SafeInv, ColourInv, TypeInv, TypeOK, SchedType
  <1>2. \A t \in Thread \ {run} : stack'[t] = stack[t]
    BY <1>1 DEF SetRegister, StackType
  <1>3. Waiting'
    BY <1>1, <1>2, HeapAssumption, WaitingKept
  <1>4. RootsSafe'
    BY RootsKept DEF sched
  <1>5. \A t \in Thread : ThreadSafe(t)'
    BY RegisterKept
  <1> QED
    BY <1>3, <1>4, <1>5, TablesKept, ClosuresKept, UpvalsKept DEF Kept, ObjectsSafe, upvals

LEMMA LoadKept ==
  ASSUME SafeInv, MutatorTurn, NEW i \in Slot, Load(i)
  PROVE  Kept
  <1>1. UNCHANGED <<colour, lists, phase, tables, top, upvals, uprefs, roots, sched>>
        /\ Running /\ i \in Register
    BY DEF Load
  <1>2. Step
    BY <1>1, NoBarrierSettles DEF Step, MutatorTurn, NoBarrier, lists
  <1>3. PICK v \in Loadable : SetRegister(i, v)
    BY DEF Load
  <1>4. v = Nil \/ Live(v)'
    BY <1>2, <1>3, LoadableOk, TurnFacts DEF Step, SafeInv, Ok
  <1> QED
    BY <1>1, <1>2, <1>3, <1>4, RegisterStep DEF tables

LEMMA FrameKept ==
  ASSUME SafeInv, MutatorTurn, NEW n, Call(n) \/ Return(n)
  PROVE  Kept
  <1>1. UNCHANGED <<colour, lists, phase, tables, stack, upvals, uprefs, roots, sched>>
        /\ Running /\ top' = [top EXCEPT ![run] = n]
    BY DEF Call, Return
  <1>2. Step
    BY <1>1, NoBarrierSettles DEF Step, MutatorTurn, NoBarrier, lists
  <1>3. \A th \in (isactive \cup {MainThread}) \ {run} : top'[th] = top[th]
    BY <1>1, HeapAssumption DEF SafeInv, ColourInv, TypeInv, TypeOK, StackType, SchedType
  <1>4. Waiting'
    BY <1>1, <1>2, <1>3, WaitingKept
  <1>5. RootsSafe'
    BY <1>1, <1>2, RootsKept DEF sched
  <1> QED
    BY <1>1, <1>2, <1>4, <1>5, TablesKept, ClosuresKept, UpvalsKept, ThreadsKept
       DEF Kept, ObjectsSafe, upvals, tables

LEMMA NewKept ==
  ASSUME SafeInv, MutatorTurn, NEW o \in Obj, NEW i, NewObject(o, i) \/ (o \in Str /\ NewString(o, i))
  PROVE  Kept
  <1>1. UNCHANGED <<lists, phase, tables, top, upvals, uprefs, roots, sched>>
        /\ Running /\ i \in Register /\ SetRegister(i, o)
    BY DEF NewObject, NewString
  <1>2. UNCHANGED currentwhite
    BY <1>1 DEF phase
  <1>3. UdataMarked /\ Live(o)'
    <2>1. CASE luaC_init({o})
      BY <1>2, <2>1, InitSettles DEF SafeInv
    <2>2. CASE UNCHANGED colour /\ o \in heap /\ ~isdead(o)
      <3>1. Live(o)' /\ NoBarrier
        BY <1>1, <1>2, <2>2 DEF Live, heap, isdead, otherwhite, NoBarrier, lists
      <3> QED
        BY <3>1, NoBarrierSettles
    <2> QED
      BY <2>1, <2>2 DEF NewObject, NewString, luaS_newlstr
  <1>4. Step
    BY <1>1, <1>3 DEF Step, MutatorTurn
  <1> QED
    BY <1>1, <1>3, <1>4, RegisterStep DEF tables

\* A closure that was just made or written.
LEMMA ClosureWritten ==
  ASSUME Step, NEW cl \in Closure, Live(cl)', NEW v, uprefs' = [uprefs EXCEPT ![cl] = v],
         v = Nil \/ Live(v)', Black(cl)' => v = Nil \/ Dark(v)'
  PROVE  \A c \in Closure : ClosureSafe(c)'
  <1>1. \A c \in Closure : ClosureSafe(c) /\ ColourInv /\ AllTurn /\ UNCHANGED phase
    BY DEF Step, SafeInv, ObjectsSafe
  <1>2. \A c \in Closure : uprefs'[c] = IF c = cl THEN v ELSE uprefs[c]
    BY DEF Step, SafeInv, ColourInv, TypeInv, TypeOK, UpvalType
  <1>3. ClosureSafe(cl)'
    BY <1>2 DEF ClosureSafe, Ok, Settled, Live
  <1>4. \A c \in Closure \ {cl} : ClosureSafe(c)'
    BY <1>1, <1>2, ClosureStays
  <1> QED
    BY <1>3, <1>4

LEMMA NewClosureKept ==
  ASSUME SafeInv, MutatorTurn, NEW cl \in Closure, NEW v \in Obj \cup {Nil}, NEW i,
         NewClosure(cl, v, i)
  PROVE  Kept
  <1>1. UNCHANGED <<lists, phase, tables, top, upvals, roots, sched>>
        /\ Running /\ i \in Register /\ SetRegister(i, cl) /\ luaC_init({cl})
        /\ uprefs' = [uprefs EXCEPT ![cl] = v]
    BY DEF NewClosure
  <1>2. UdataMarked /\ Live(cl)' /\ ~Black(cl)'
    BY <1>1, InitSettles, KindTypes DEF SafeInv, phase
  <1>3. Step
    BY <1>1, <1>2 DEF Step, MutatorTurn
  <1>4. v = Nil \/ Live(v)'
    <2>1. CASE v \in {uprefs[c] : c \in Held \cap Closure}
      <3>1. PICK c \in Held \cap Closure : v = uprefs[c]
        BY <2>1
      <3>2. Live(c)
        BY RunFacts, KindTypes, HeapAssumption DEF Ok
      <3>3. Ok(v)
        BY <3>1, <3>2 DEF SafeInv, ObjectsSafe, ClosureSafe
      <3> QED
        BY <1>3, <3>3, TurnFacts DEF Ok, Step, SafeInv
    <2>2. CASE v \in {stack'[run][j] : j \in Register}
      <3>1. PICK j \in Register : v = stack'[run][j]
        BY <2>2
      <3>2. run \in Thread /\ j \in Slot /\ i \in Slot
        BY <1>1, RunFacts
      <3>3. v = IF j = i THEN cl ELSE stack[run][j]
        BY <1>1, <3>1, <3>2 DEF SetRegister, SafeInv, ColourInv, TypeInv, TypeOK, StackType
      <3>4. Ok(stack[run][j])
        BY <3>2, RunFacts
      <3> QED
        BY <1>2, <1>3, <3>3, <3>4, TurnFacts DEF Ok, Step, SafeInv
    <2> QED
      BY <2>1, <2>2 DEF NewClosure
  <1>5. \A c \in Closure : ClosureSafe(c)'
    BY <1>1, <1>2, <1>3, <1>4, ClosureWritten
  <1>6. \A t \in Thread : ThreadSafe(t)'
    BY <1>1, <1>2, <1>3, RegisterKept
  <1>7. Waiting'
    <2>1. run \in Thread /\ StackType /\ isactive \subseteq Thread
      BY RunFacts DEF SafeInv, ColourInv, TypeInv, TypeOK, SchedType
    <2>2. \A t \in Thread \ {run} : stack'[t] = stack[t]
      BY <1>1, <2>1 DEF SetRegister, StackType
    <2> QED
      BY <1>1, <1>3, <2>1, <2>2, HeapAssumption, WaitingKept
  <1>8. RootsSafe'
    BY <1>1, <1>3, RootsKept DEF sched
  <1> QED
    BY <1>1, <1>3, <1>5, <1>6, <1>7, <1>8, TablesKept, UpvalsKept
       DEF Kept, ObjectsSafe, upvals, tables

\* A linked upvalue is live.
LEMMA LinkedIsLive ==
  ASSUME SafeInv, NEW uv \in uvhead
  PROVE  uv \in UpVal /\ Live(uv) /\ uv \in heap
  <1>1. uv \in UpVal
    BY DEF SafeInv, ColourInv, TypeInv, TypeOK, UpvalType
  <1>2. upthread[uv] \in Thread /\ Live(upthread[uv]) /\ uv \in openupval[upthread[uv]]
    BY <1>1 DEF SafeInv, ObjectsSafe, UpvalSafe
  <1>3. Live(uv)
    BY <1>2 DEF SafeInv, ObjectsSafe, ThreadSafe
  <1> QED
    BY <1>1, <1>3 DEF Live

LEMMA CaptureKept ==
  ASSUME SafeInv, MutatorTurn, NEW cl \in Closure, NEW uv \in UpVal, NEW level \in Slot, NEW i,
         CaptureRef(cl, uv, level, i)
  PROVE  Kept
  <1>1. UNCHANGED <<lists, phase, tables, top, roots, sched>> /\ cl \in Closure \ heap
        /\ Running /\ i \in Register /\ SetRegister(i, cl)
        /\ uprefs' = [uprefs EXCEPT ![cl] = uv]
    BY DEF CaptureRef
  <1>2. PICK th : th = run
    OBVIOUS
  <1>3. /\ run \in Thread /\ StackType /\ isactive \subseteq Thread /\ Live(run) /\ i \in Slot
        /\ openupval[run] \subseteq UpVal /\ ThreadSafe(run)
    BY <1>1, RunFacts DEF SafeInv, ObjectsSafe, ColourInv, TypeInv, TypeOK, SchedType, UpvalType
  <1>4. \A t \in Thread \ {run} : stack'[t] = stack[t]
    BY <1>1, <1>3 DEF SetRegister, StackType
  <1>5. CASE luaC_init({cl}) /\ UNCHANGED upvals /\ uv \in openupval[run]
    <2>1. UdataMarked /\ Live(cl)' /\ ~Black(cl)'
      BY <1>1, <1>5, InitSettles, KindTypes DEF SafeInv, phase
    <2>2. Step
      BY <1>1, <2>1 DEF Step, MutatorTurn
    <2>3. Live(uv)'
      BY <1>3, <1>5, <2>2, TurnFacts DEF ThreadSafe, Step, SafeInv
    <2>4. \A c \in Closure : ClosureSafe(c)'
      BY <1>1, <2>1, <2>2, <2>3, ClosureWritten
    <2>5. \A t \in Thread : ThreadSafe(t)'
      BY <1>1, <1>5, <2>1, <2>2, RegisterKept
    <2>6. Waiting'
      BY <1>1, <1>3, <1>4, <1>5, <2>2, HeapAssumption, WaitingKept
    <2>7. RootsSafe'
      BY <1>1, <2>2, RootsKept DEF sched
    <2> QED
      BY <1>1, <1>5, <2>2, <2>4, <2>5, <2>6, <2>7, TablesKept, UpvalsKept
         DEF Kept, ObjectsSafe, upvals, tables
  <1>6. CASE /\ uv \in UpVal \ heap /\ luaC_init({cl, uv})
             /\ openupval' = [openupval EXCEPT ![run] = @ \cup {uv}]
             /\ uvhead' = uvhead \cup {uv}
             /\ upthread' = [upthread EXCEPT ![uv] = run]
             /\ uplevel' = [uplevel EXCEPT ![uv] = level]
             /\ UNCHANGED <<upvalue, markedopen>>
    <2>1. UdataMarked /\ Live(cl)' /\ ~Black(cl)' /\ Live(uv)' /\ ~Black(uv)'
      BY <1>1, <1>6, InitSettles, KindTypes DEF SafeInv, phase
    <2>2. Step
      BY <1>1, <2>1 DEF Step, MutatorTurn
    <2>3. \A c \in Closure : ClosureSafe(c)'
      BY <1>1, <2>1, <2>2, ClosureWritten
    <2>4. /\ \A t \in Thread : openupval'[t] = IF t = th THEN openupval[t] \cup {uv} ELSE openupval[t]
          /\ \A u \in UpVal : /\ upthread'[u] = IF u = uv THEN th ELSE upthread[u]
                              /\ uplevel'[u] = IF u = uv THEN level ELSE uplevel[u]
      BY <1>2, <1>6 DEF SafeInv, ColourInv, TypeInv, TypeOK, UpvalType
    <2>5. uv \notin uvhead /\ uv \notin markedopen
      <3>1. uv \notin uvhead
        BY <1>6, LinkedIsLive
      <3> QED
        BY <3>1 DEF SafeInv, ObjectsSafe, UpvalSafe
    <2>6. ASSUME NEW t \in Thread, Live(t), NEW u \in openupval[t] PROVE u \in UpVal /\ u # uv
      <3>1. Live(u) /\ u \in heap
        BY <2>6 DEF SafeInv, ObjectsSafe, ThreadSafe, Live
      <3> QED
        BY <1>6, <3>1, <2>6 DEF SafeInv, ColourInv, TypeInv, TypeOK, UpvalType
    <2>7. ASSUME NEW t \in Thread \ {th} PROVE ThreadSafe(t)'
      <3>1. Live(t) => OpenSame(t)
        BY <1>6, <2>4, <2>6 DEF OpenSame
      <3> QED
        BY <1>2, <1>4, <2>2, <2>4, <3>1, ThreadStays DEF Step, SafeInv, ObjectsSafe
    <2>8. ThreadSafe(th)'
      <3>1. th \in Thread /\ Live(th) /\ Live(th)' /\ ~Black(th)'
        BY <1>2, <2>2, RunNotBlack
      <3>2. \A j \in Slot : stack'[th][j] = IF j = i THEN cl ELSE stack[th][j]
        BY <1>1, <1>2, <1>3 DEF SetRegister, StackType
      <3>3. \A j \in Slot : Ok(stack[th][j])
        BY <1>2, <1>3 DEF ThreadSafe
      <3>4. \A j \in Slot : Ok(stack[th][j])'
        BY <2>1, <2>2, <3>1, <3>2, <3>3, TurnFacts DEF Ok, Step, SafeInv
      <3>5. ASSUME NEW u \in openupval'[th]
            PROVE  Live(u)' /\ u \in uvhead' /\ upthread'[u] = th
        <4>1. CASE u = uv
          BY <1>6, <2>1, <2>4, <4>1
        <4>2. CASE u # uv
          <5>1. u \in openupval[th] /\ Live(u) /\ u \in uvhead /\ upthread[u] = th /\ u \in UpVal
            BY <1>2, <1>3, <2>4, <3>1, <3>5, <4>2 DEF ThreadSafe
          <5> QED
            BY <1>6, <2>2, <2>4, <4>2, <5>1, TurnFacts DEF Step, SafeInv
        <4> QED
          BY <4>1, <4>2
      <3>6. th \in heap'
        BY <3>1 DEF Live
      <3> QED
        BY <3>1, <3>4, <3>5, <3>6 DEF ThreadSafe
    <2>9. ASSUME NEW u \in UpVal, u # uv PROVE UpvalSafe(u)'
      <3>1. u \in uvhead => u \in openupval'[upthread[u]]
        BY <2>4 DEF SafeInv, ObjectsSafe, UpvalSafe
      <3> QED
        BY <1>6, <2>2, <2>4, <2>9, <3>1, UpvalStays DEF Step, SafeInv, ObjectsSafe
    <2>10. UpvalSafe(uv)'
      <3>1. uv \in heap' /\ upthread'[uv] = th /\ th \in Thread /\ Live(th)' /\ th # Nil
            /\ uv \in openupval'[th]
        <4>1. th \in Thread /\ Live(th)'
          BY <1>2, <2>2, RunNotBlack
        <4>2. uv \in heap' /\ th # Nil
          BY <2>1, <4>1, KindTypes, HeapAssumption DEF Live
        <4> QED
          BY <2>4, <4>1, <4>2
      <3>2. Live(upthread[uv])' /\ upisopen(uv)'
        BY <3>1 DEF upisopen
      <3> QED
        BY <1>6, <2>1, <2>5, <3>1, <3>2 DEF UpvalSafe
    <2>11. Waiting'
      <3>1. ASSUME NEW t \in (isactive \cup {MainThread}) \ {run}
            PROVE  /\ top'[t] = top[t] /\ openupval'[t] = openupval[t] /\ stack'[t] = stack[t]
                   /\ \A u \in openupval[t] : uplevel'[u] = uplevel[u]
        <4>1. t \in Thread /\ Live(t)
          BY <1>3, HeapAssumption DEF SafeInv, RootsSafe
        <4> QED
          BY <1>1, <1>2, <1>4, <2>4, <2>6, <4>1
      <3> QED
        BY <1>1, <3>1, WaitingStays DEF SafeInv, ColourInv
    <2>12. RootsSafe'
      BY <1>1, <2>2, RootsKept DEF sched
    <2> QED
      BY <1>1, <1>6, <2>2, <2>3, <2>7, <2>8, <2>9, <2>10, <2>11, <2>12, TablesKept
         DEF Kept, ObjectsSafe, tables
  <1> QED
    BY <1>5, <1>6 DEF CaptureRef

\* Nothing but tables, colours and the gray lists changes.
LEMMA TableStep ==
  ASSUME Step, UNCHANGED <<stack, top, upvals, uprefs, roots, sched>>,
         \A t \in Table : TableSafe(t)', \A u \in Udata : UdataSafe(u)'
  PROVE  Kept
  <1>1. Waiting'
    BY WaitingKept
  <1>2. RootsSafe'
    BY RootsKept DEF sched
  <1> QED
    BY <1>1, <1>2, ClosuresKept, UpvalsKept, ThreadsKept DEF Kept, ObjectsSafe, upvals

LEMMA HeldIsLive ==
  ASSUME SafeInv, NEW o \in Held \cap Obj
  PROVE  Live(o)
  BY RunFacts, HeapAssumption DEF Ok

\* One entry of a table is written.
LEMMA EntryKept ==
  ASSUME Step, UNCHANGED <<metatable, stack, top, upvals, uprefs, roots, sched>>,
         NEW t \in Table, Live(t), NEW n \in Node, NEW k, NEW v, Ok(k), Ok(v),
         node' = [node EXCEPT ![t][n] = [key |-> k, val |-> v]],
         Black(t)' => /\ v = Nil \/ Dark(v)'
                      /\ k = Nil \/ Dark(k)' \/ node[t][n].key = k
  PROVE  Kept
  <1>1. ColourInv /\ AllTurn /\ UNCHANGED phase /\ \A x \in Table : TableSafe(x)
    BY DEF Step, SafeInv, ObjectsSafe
  <1>2. /\ \A x \in Table \ {t} : node'[x] = node[x]
        /\ \A m \in Node : node'[t][m] = IF m = n THEN [key |-> k, val |-> v] ELSE node[t][m]
        /\ metatable' = metatable
    BY <1>1 DEF ColourInv, TypeInv, TypeOK, TableType
  <1>3. Live(t)' /\ t \in heap'
    BY <1>1, TurnFacts DEF Live
  <1>4. Ok(metatable[t])' /\ \A m \in Node : node'[t][m].val # Nil =>
                               Ok(node[t][m].key)' /\ Ok(node[t][m].val)'
    <2>1. Ok(k)' /\ Ok(v)' /\ Ok(metatable[t])'
      BY <1>1, <1>2, TurnFacts DEF Ok, TableSafe
    <2>2. ASSUME NEW m \in Node, node'[t][m].val # Nil
          PROVE  Ok(node[t][m].key)' /\ Ok(node[t][m].val)'
      <3>1. CASE m = n
        BY <1>2, <2>1, <3>1
      <3>2. CASE m # n
        BY <1>1, <1>2, <2>2, <3>2, TurnFacts DEF Ok, TableSafe
      <3> QED
        BY <3>1, <3>2
    <2> QED
      BY <2>1, <2>2
  <1>5. ASSUME Black(t)'
        PROVE  /\ Settled(metatable[t])'
               /\ \A m \in Node : /\ Settled(node[t][m].key)' \/ node'[t][m].key = DeadKey
                                  /\ Settled(node[t][m].val)'
    <2>1. Black(t) /\ keepinvariant
      <3>1. t \in Obj /\ t \notin Str \cup Leaf \cup Udata \cup UpVal
        BY KindTypes, KindsApart, HeapAssumption
      <3> QED
        BY <1>1, <1>5, <3>1, TurnFacts DEF Black
    <2>2. \A x : Settled(x) => Settled(x)'
      BY <1>1, <2>1, TurnFacts DEF Settled
    <2>3. TableSafe(t)
      BY <1>1
    <2>4. Settled(v)' /\ (Settled(k)' \/ k = DeadKey)
      BY <1>5, <2>1, <2>2, <2>3 DEF TableSafe, Settled
    <2>5. ASSUME NEW m \in Node
          PROVE  /\ Settled(node[t][m].key)' \/ node'[t][m].key = DeadKey
                 /\ Settled(node[t][m].val)'
      <3>1. CASE m = n
        BY <1>2, <2>4, <3>1
      <3>2. CASE m # n
        BY <1>2, <2>1, <2>2, <2>3, <3>2 DEF TableSafe
      <3> QED
        BY <3>1, <3>2
    <2> QED
      BY <1>2, <2>1, <2>2, <2>3, <2>5 DEF TableSafe
  <1>6. TableSafe(t)'
    BY <1>3, <1>4, <1>5 DEF TableSafe
  <1>7. \A x \in Table : TableSafe(x)'
    BY <1>1, <1>2, <1>6, TableStays
  <1>8. \A u \in Udata : UdataSafe(u)'
    BY <1>2, UdataStays DEF Step, SafeInv, ObjectsSafe
  <1> QED
    BY <1>7, <1>8, TableStep

LEMMA SetTableKept ==
  ASSUME SafeInv, MutatorTurn, NEW t \in Table, NEW n \in Node, NEW k \in Key \cup {Nil},
         NEW v \in Value \cup {Nil}, SetTable(t, n, k, v)
  PROVE  Kept
  <1> DEFINE S == IF node[t][n].key = k THEN {v} ELSE {k, v}
  <1>1. /\ UNCHANGED <<weak, phase, metatable, mode, stacks, upvals, uprefs, roots, sched>>
        /\ Running /\ t \in Held /\ k \in Held \cup {Nil} /\ v \in Held \cup {Nil}
        /\ node' = [node EXCEPT ![t][n] = [key |-> k, val |-> v]]
        /\ luaC_barriert(t, S)
    BY DEF SetTable
  <1>2. Ok(k) /\ Ok(v) /\ Live(t) /\ t \in Obj
    BY <1>1, RunFacts, HeldIsLive, KindTypes
  <1>3. \A x \in S : Ok(x)
    BY <1>2
  <1>4. UdataMarked /\ (keepinvariant /\ colour'[t] = "black" => \A x \in S : x = Nil \/ Dark(x)')
    BY <1>1, <1>2, <1>3, BarrierSettles DEF SafeInv, ObjectsSafe
  <1>5. Step
    BY <1>1, <1>4 DEF Step, MutatorTurn
  <1>6. Black(t)' => /\ v = Nil \/ Dark(v)'
                     /\ k = Nil \/ Dark(k)' \/ node[t][n].key = k
    BY <1>1, <1>4 DEF Black, keepinvariant, phase
  <1> QED
    BY <1>1, <1>2, <1>5, <1>6, EntryKept DEF stacks

LEMMA SetListKept ==
  ASSUME SafeInv, MutatorTurn, NEW t \in Table, NEW n \in Node, NEW v \in Value \cup {Nil},
         SetList(t, n, v)
  PROVE  Kept
  <1>1. /\ UNCHANGED <<weak, phase, metatable, mode, stacks, upvals, uprefs, roots, sched>>
        /\ Running /\ t \in Held /\ v \in Held \cup {Nil}
        /\ node' = [node EXCEPT ![t][n] = [key |-> Nil, val |-> v]]
        /\ luaC_barrierfast(t)
    BY DEF SetList
  <1>2. Ok(Nil) /\ Ok(v) /\ Live(t) /\ t \in Obj
    BY <1>1, RunFacts, HeldIsLive, KindTypes
  <1>3. UdataMarked /\ ~Black(t)'
    BY <1>1, <1>2, BackSettles DEF SafeInv
  <1>4. Step
    BY <1>1, <1>3 DEF Step, MutatorTurn
  <1> QED
    BY <1>1, <1>2, <1>3, <1>4, EntryKept DEF stacks

LEMMA SetMetatableKept ==
  ASSUME SafeInv, MutatorTurn, NEW o \in Table \cup Udata, NEW m \in Table \cup {Nil},
         SetMetatable(o, m)
  PROVE  Kept
  <1>1. /\ UNCHANGED <<weak, phase, node, mode, stacks, upvals, uprefs, roots, sched>>
        /\ Running /\ o \in Held /\ m \in Held \cup {Nil}
        /\ metatable' = [metatable EXCEPT ![o] = m]
        /\ luaC_barrier(o, {m})
    BY DEF SetMetatable
  <1>2. Ok(m) /\ Live(o) /\ o \in Obj
    BY <1>1, RunFacts, HeldIsLive, KindTypes
  <1>3. UdataMarked /\ (keepinvariant /\ colour'[o] = "black" => m = Nil \/ Dark(m)')
    BY <1>1, <1>2, BarrierSettles DEF SafeInv, ObjectsSafe
  <1>4. Step /\ ColourInv /\ AllTurn
    BY <1>1, <1>3 DEF Step, MutatorTurn, SafeInv
  <1>5. /\ \A x \in Table \cup Udata : metatable'[x] = IF x = o THEN m ELSE metatable[x]
        /\ node' = node
    BY <1>1, <1>4 DEF ColourInv, TypeInv, TypeOK, TableType
  <1>6. /\ Live(o)' /\ o \in heap' /\ Ok(metatable[o])'
        /\ Black(o)' => Settled(metatable[o])'
    BY <1>1, <1>2, <1>3, <1>4, <1>5, TurnFacts DEF Ok, Live, Black, Settled
  <1>7. ASSUME NEW t \in Table PROVE TableSafe(t)'
    <2>1. CASE t # o
      BY <1>1, <1>4, <1>5, <2>1, TableStays DEF SafeInv, ObjectsSafe
    <2>2. CASE t = o
      <3>1. TableSafe(o) /\ o \notin Str \cup Leaf \cup Udata \cup UpVal
        BY <2>2, KindTypes, KindsApart, HeapAssumption DEF SafeInv, ObjectsSafe
      <3>2. \A n \in Node : node'[o][n].val # Nil => Ok(node[o][n].key)' /\ Ok(node[o][n].val)'
        BY <1>1, <1>2, <1>4, <1>5, <3>1, TurnFacts DEF TableSafe, Ok
      <3>3. ASSUME Black(o)', NEW n \in Node
            PROVE  /\ Settled(node[o][n].key)' \/ node'[o][n].key = DeadKey
                   /\ Settled(node[o][n].val)'
        <4>1. Black(o) /\ keepinvariant
          BY <1>1, <1>2, <1>4, <3>1, <3>3, TurnFacts DEF Black
        <4> QED
          BY <1>1, <1>4, <1>5, <3>1, <4>1, TurnFacts DEF TableSafe, Settled
      <3> QED
        BY <1>6, <2>2, <3>2, <3>3 DEF TableSafe
    <2> QED
      BY <2>1, <2>2
  <1>8. ASSUME NEW u \in Udata PROVE UdataSafe(u)'
    <2>1. CASE u # o
      BY <1>1, <1>3, <1>4, <1>5, <2>1, UdataStays DEF SafeInv, ObjectsSafe
    <2>2. CASE u = o
      BY <1>6, <2>2 DEF UdataSafe
    <2> QED
      BY <2>1, <2>2
  <1> QED
    BY <1>1, <1>4, <1>7, <1>8, TableStep DEF stacks

LEMMA ModeKept ==
  ASSUME SafeInv, MutatorTurn, NEW m, NEW md, SetMode(m, md)
  PROVE  Kept
  <1>1. UNCHANGED <<colour, lists, phase, node, metatable, stacks, upvals, uprefs, roots, sched>>
        /\ Running
    BY DEF SetMode
  <1>2. Step
    BY <1>1, NoBarrierSettles DEF Step, MutatorTurn, NoBarrier, lists
  <1> QED
    BY <1>1, <1>2, TablesKept, TableStep DEF stacks

\* The roots are written without a barrier: the pool notes it, and what is
\* written to the others is marked by atomic().
LEMMA RootWriteKept ==
  ASSUME SafeInv, MutatorTurn, NEW r, NEW v, NEW b, NEW m,
         (r \in RefId /\ (Ref(r, v) \/ Unref(r))) \/ (b \in BasicType /\ SetBasicMt(b, m))
  PROVE  Kept
  <1>1. UNCHANGED <<colour, lists, phase, tables, stacks, upvals, uprefs, sched>> /\ Running
    BY DEF Ref, Unref, SetBasicMt
  <1>2. Step
    BY <1>1, NoBarrierSettles DEF Step, MutatorTurn, NoBarrier, lists
  <1>3. ColourInv /\ AllTurn /\ UNCHANGED phase /\ RootsSafe /\ RootType
    BY <1>2 DEF Step, SafeInv, ColourInv, TypeInv, TypeOK
  <1>4. \A x : Ok(x) => Ok(x)'
    BY <1>3, TurnFacts DEF Ok
  <1>5. \A th \in isactive' \ isactive : Live(th)
    BY <1>1 DEF sched
  <1>6. CASE r \in RefId /\ Ref(r, v)
    <2>1. /\ ref_array' = [ref_array EXCEPT ![r] = v] /\ gc_ref_gray' = TRUE /\ mt' = mt
          /\ v \in Held
      BY <1>6 DEF Ref
    <2>2. Ok(v)'
      BY <1>4, <2>1, RunFacts
    <2>3. \A x \in RefId : \/ ref_array'[x] = ref_array[x]
                           \/ Ok(ref_array[x])' /\ (gc_ref_gray' \/ ref_array'[x] = Nil)
      BY <1>3, <2>1, <2>2 DEF RootType
    <2> QED
      BY <1>1, <1>2, <1>3, <1>5, <2>1, <2>3, RootsStay, TablesKept, ClosuresKept, UpvalsKept,
         ThreadsKept, WaitingKept DEF Kept, ObjectsSafe, upvals, tables, stacks
  <1>7. CASE r \in RefId /\ Unref(r)
    <2>1. /\ ref_array' = [ref_array EXCEPT ![r] = Nil] /\ gc_ref_gray' = gc_ref_gray /\ mt' = mt
      BY <1>7 DEF Unref
    <2>2. \A x \in RefId : \/ ref_array'[x] = ref_array[x]
                           \/ Ok(ref_array[x])' /\ (gc_ref_gray' \/ ref_array'[x] = Nil)
      BY <1>3, <2>1 DEF RootType, Ok
    <2> QED
      BY <1>1, <1>2, <1>3, <1>5, <2>1, <2>2, RootsStay, TablesKept, ClosuresKept, UpvalsKept,
         ThreadsKept, WaitingKept DEF Kept, ObjectsSafe, upvals, tables, stacks
  <1>8. CASE b \in BasicType /\ SetBasicMt(b, m)
    <2>1. /\ mt' = [mt EXCEPT ![b] = m] /\ gc_ref_gray' = gc_ref_gray /\ ref_array' = ref_array
          /\ m \in Held \cup {Nil}
      BY <1>8 DEF SetBasicMt
    <2>2. Ok(m)'
      BY <1>4, <2>1, RunFacts
    <2>3. \A x \in BasicType : mt'[x] = mt[x] \/ Ok(mt[x])'
      BY <1>3, <2>1, <2>2 DEF RootType
    <2> QED
      BY <1>1, <1>2, <1>3, <1>5, <2>1, <2>3, RootsStay, TablesKept, ClosuresKept, UpvalsKept,
         ThreadsKept, WaitingKept DEF Kept, ObjectsSafe, upvals, tables, stacks
  <1> QED
    BY <1>6, <1>7, <1>8

LEMMA SetCapturedKept ==
  ASSUME SafeInv, MutatorTurn, NEW cl \in Closure, NEW v \in Value \cup {Nil},
         lua_setupvalue(cl, v)
  PROVE  Kept
  <1>1. /\ UNCHANGED <<weak, phase, tables, stacks, upvals, roots, sched>>
        /\ Running /\ cl \in Held /\ v \in Held \cup {Nil}
        /\ uprefs' = [uprefs EXCEPT ![cl] = v]
        /\ luaC_barrier(cl, {v})
    BY DEF lua_setupvalue
  <1>2. Ok(v) /\ Live(cl) /\ cl \in Obj
    BY <1>1, RunFacts, HeldIsLive, KindTypes
  <1>3. UdataMarked /\ (keepinvariant /\ colour'[cl] = "black" => v = Nil \/ Dark(v)')
    BY <1>1, <1>2, BarrierSettles DEF SafeInv, ObjectsSafe
  <1>4. Step
    BY <1>1, <1>3 DEF Step, MutatorTurn
  <1>5. Live(cl)' /\ (v = Nil \/ Live(v)')
    BY <1>2, <1>4, TurnFacts DEF Ok, Step, SafeInv
  <1>6. \A c \in Closure : ClosureSafe(c)'
    BY <1>1, <1>3, <1>4, <1>5, ClosureWritten DEF Black, keepinvariant, phase
  <1> QED
    BY <1>1, <1>4, <1>6, TablesKept, UpvalsKept, ThreadsKept, WaitingKept, RootsKept
       DEF Kept, ObjectsSafe, upvals, tables, stacks, sched

\* An open upvalue of a black thread is gray, so the slot it writes is shared.
LEMMA SetUpvalKept ==
  ASSUME SafeInv, MutatorTurn, NEW cl \in Closure, NEW v \in Value \cup {Nil}, SetUpval(cl, v)
  PROVE  Kept
  <1>1. PICK uv \in UpVal : uv = uprefs[cl]
    BY DEF SetUpval
  <1>2. /\ UNCHANGED <<weak, phase, tables, top, openupval, uvhead, upthread, uplevel,
                       markedopen, uprefs, roots, sched>>
        /\ Running /\ cl \in Held /\ v \in Held \cup {Nil}
        /\ WriteUpval(uv, v) /\ luaC_barrier(uv, {v})
    BY <1>1 DEF SetUpval
  <1>3. Ok(v) /\ Live(cl) /\ uv \in Obj
    BY <1>2, RunFacts, HeldIsLive, KindTypes
  <1>4. Live(uv) /\ UpvalSafe(uv)
    BY <1>1, <1>3, KindTypes, HeapAssumption DEF SafeInv, ObjectsSafe, ClosureSafe, Ok
  <1>5. UdataMarked /\ (keepinvariant /\ colour'[uv] = "black" => v = Nil \/ Dark(v)')
    BY <1>2, <1>3, BarrierSettles DEF SafeInv, ObjectsSafe
  <1>6. Step /\ ColourInv /\ AllTurn /\ StackType /\ UpvalType
    BY <1>2, <1>5 DEF Step, MutatorTurn, SafeInv, ColourInv, TypeInv, TypeOK
  <1>7. \A th \in Thread : OpenSame(th)
    BY <1>2 DEF OpenSame
  <1>8. CASE upisopen(uv)
    <2>1. PICK th \in Thread, i \in Slot :
            /\ th = upthread[uv] /\ i = uplevel[uv] /\ Live(th) /\ uv \in openupval[th]
      BY <1>4, <1>6, <1>8 DEF UpvalSafe, UpvalType, upisopen
    <2>2. stack' = [stack EXCEPT ![th][i] = v] /\ UNCHANGED upvalue
      BY <1>2, <1>8, <2>1 DEF WriteUpval
    <2>3. /\ \A t \in Thread \ {th} : stack'[t] = stack[t]
          /\ \A j \in Slot : stack'[th][j] = IF j = i THEN v ELSE stack[th][j]
      BY <1>6, <2>2 DEF StackType
    <2>4. ThreadSafe(th)'
      <3>1. Live(th)' /\ th \in heap' /\ ThreadSafe(th)
        BY <1>2, <1>6, <2>1, TurnFacts DEF Live, SafeInv, ObjectsSafe
      <3>2. \A j \in Slot : Ok(stack[th][j])'
        BY <1>2, <1>3, <1>6, <2>1, <2>3, <3>1, TurnFacts DEF Ok, ThreadSafe
      <3>3. \A u \in openupval[th] : Live(u)' /\ u \in uvhead' /\ upthread'[u] = th
        BY <1>2, <1>6, <2>1, <3>1, TurnFacts DEF ThreadSafe
      <3>4. ASSUME Black(th)'
            PROVE  /\ \A j \in Slot : Settled(stack[th][j])' \/ Shared(th, j)'
                   /\ \A u \in openupval[th] : Dark(u)' /\ u \in markedopen'
        <4>1. th \in Obj /\ th \notin Str \cup Leaf \cup Udata \cup UpVal
          BY KindTypes, KindsApart, HeapAssumption
        <4>2. Black(th) /\ keepinvariant
          BY <1>2, <1>6, <3>4, <4>1, TurnFacts DEF Black
        <4>3. \A u \in openupval[th] : Dark(u)' /\ u \in markedopen'
          BY <1>2, <1>6, <3>1, <4>2, TurnFacts DEF ThreadSafe
        <4>4. colour[uv] = "gray"
          <5>1. Dark(uv) /\ colour[uv] # "black" /\ colour[uv] \in Colour
            BY <1>3, <1>4, <1>6, <1>8, <2>1, <3>1, <4>2
               DEF ThreadSafe, ColourInv, ColourDiscipline, heap, Live, TypeInv, TypeOK, ColourType
          <5> QED
            BY <5>1 DEF Dark, heap, IsWhite, Colour
        <4>5. Shared(th, i)
          BY <2>1, <4>4 DEF Shared
        <4>6. ASSUME NEW j \in Slot PROVE Settled(stack[th][j])' \/ Shared(th, j)'
          <5>1. CASE Shared(th, j)
            BY <1>2, <1>6, <1>7, <2>1, <3>1, <4>2, <5>1, SharedStays
          <5>2. CASE Settled(stack[th][j]) /\ j # i
            BY <1>2, <1>6, <2>3, <4>2, <5>2, TurnFacts DEF Settled
          <5> QED
            BY <3>1, <4>2, <4>5, <5>1, <5>2 DEF ThreadSafe
        <4> QED
          BY <4>3, <4>6
      <3> QED
        BY <1>2, <3>1, <3>2, <3>3, <3>4 DEF ThreadSafe
    <2>5. \A t \in Thread \ {th} : ThreadSafe(t)'
      BY <1>2, <1>6, <1>7, <2>3, ThreadStays DEF SafeInv, ObjectsSafe
    <2>6. \A u \in UpVal : UpvalSafe(u)'
      BY <1>2, <1>6, <2>2, UpvalStays DEF Step, SafeInv, ObjectsSafe, UpvalSafe
    <2>7. Waiting'
      BY <1>2, <2>1, <2>3, WaitingStays, HeapAssumption
         DEF SafeInv, ColourInv, TypeInv, TypeOK, SchedType
    <2> QED
      BY <1>2, <1>6, <2>4, <2>5, <2>6, <2>7, TablesKept, ClosuresKept, RootsKept
         DEF Kept, ObjectsSafe, tables, sched
  <1>9. CASE ~upisopen(uv)
    <2>1. upvalue' = [upvalue EXCEPT ![uv] = v] /\ UNCHANGED stack
      BY <1>2, <1>9 DEF WriteUpval
    <2>2. \A u \in UpVal : upvalue'[u] = IF u = uv THEN v ELSE upvalue[u]
      BY <1>6, <2>1 DEF UpvalType
    <2>3. \A t \in Thread : ThreadSafe(t)'
      BY <1>2, <1>6, <1>7, <2>1, ThreadStays DEF SafeInv, ObjectsSafe
    <2>4. \A u \in UpVal \ {uv} : UpvalSafe(u)'
      BY <1>2, <1>6, <2>2, UpvalStays DEF Step, SafeInv, ObjectsSafe, UpvalSafe
    <2>5. UpvalSafe(uv)'
      <3>1. Live(uv)' /\ uv \in heap' /\ ~upisopen(uv)'
        BY <1>2, <1>4, <1>6, <1>9, TurnFacts DEF Live, upisopen
      <3>2. Ok(upvalue[uv])' /\ (Black(uv)' => Settled(upvalue[uv])')
        BY <1>2, <1>3, <1>5, <1>6, <2>2, TurnFacts DEF Ok, Settled, Black
      <3>3. uv \notin uvhead'
        BY <1>2, <1>4, <1>9, KindTypes, HeapAssumption DEF UpvalSafe, upisopen
      <3> QED
        BY <1>2, <1>4, <3>1, <3>2, <3>3 DEF UpvalSafe
    <2>6. Waiting'
      BY <1>2, <2>1, WaitingStays DEF SafeInv, ColourInv
    <2> QED
      BY <1>2, <1>6, <2>3, <2>4, <2>5, <2>6, TablesKept, ClosuresKept, RootsKept
         DEF Kept, ObjectsSafe, tables, sched
  <1> QED
    BY <1>8, <1>9

-----------------------------------------------------------------------------
(* Closing upvalues, and the coroutines.                                     *)

LEMMA CloseFacts ==
  ASSUME SafeInv, MutatorTurn, NEW th \in Thread, Live(th), NEW level, luaF_close(th, level)
  PROVE  /\ UdataMarked
         /\ \A u \in UpVal : UpvalSafe(u)'
         /\ \A t \in Thread \ {th} : openupval'[t] = openupval[t] /\ (Live(t) => OpenSame(t))
         /\ openupval'[th] \subseteq openupval[th]
         /\ \A u \in openupval'[th] : /\ upthread'[u] = upthread[u]
                                      /\ u \in uvhead => u \in uvhead'
                                      /\ u \in markedopen => u \in markedopen'
         /\ markedopen' \subseteq markedopen
  <1> DEFINE C == {uv \in openupval[th] : uplevel[uv] >= level}
             G == {uv \in C : colour[uv] = "gray"}
             rec(x) == [o \in Obj |-> IF o \in G THEN x ELSE colour[o]]
             V == {UpValue(uv) : uv \in G}
  <1>1. /\ ColourInv /\ AllTurn /\ UNCHANGED phase /\ ThreadSafe(th) /\ StackType /\ UpvalType
        /\ colour \in [Obj -> Colour] /\ \A uv \in UpVal : UpvalColour(uv)'
    BY DEF SafeInv, ObjectsSafe, MutatorTurn, ColourInv, TypeInv, TypeOK, ColourType
  <1>2. /\ openupval' = [openupval EXCEPT ![th] = @ \ C] /\ uvhead' = uvhead \ C
        /\ upthread' = [uv \in UpVal |-> IF uv \in C THEN Nil ELSE upthread[uv]]
        /\ uplevel' = [uv \in UpVal |-> IF uv \in C THEN 0 ELSE uplevel[uv]]
        /\ upvalue' = [uv \in UpVal |-> IF uv \in C THEN UpValue(uv) ELSE upvalue[uv]]
        /\ markedopen' = markedopen \ C
        /\ keepinvariant => MarkNow(rec("black"), V)
    BY DEF luaF_close
  <1>3. C \subseteq openupval[th] /\ C \subseteq UpVal /\ G \subseteq UpVal
        /\ \A uv \in C : Live(uv) /\ uv \in uvhead /\ upthread[uv] = th
    BY <1>1 DEF ThreadSafe, UpvalType
  <1>4. ASSUME keepinvariant
        PROVE  UdataMarked /\ \A v \in V : v \in heap => Dark(v)'
    <2>1. rec("black") \in [Obj -> Colour]
      BY <1>1 DEF Colour
    <2>2. \A o \in Obj : rec("black")[o] = colour[o] \/ (o \in UpVal /\ rec("black")[o] = "black")
      BY <1>3
    <2> QED
      BY <1>1, <1>2, <1>4, <2>1, <2>2, MarkNowSettles DEF SafeInv, ObjectsSafe
  <1>5. \A t \in Thread : openupval'[t] = IF t = th THEN openupval[t] \ C ELSE openupval[t]
    BY <1>1, <1>2 DEF UpvalType
  <1>6. \A uv \in C : UpValue(uv) \in {v \in Value \cup {Nil} : Ok(v)}
    BY <1>1, <1>3, UpValueOk, UpValueType
  <1>7. \A uv \in C : colour[uv] = "gray" => UpValue(uv) \in V
    OBVIOUS
  <1> HIDE DEF C, G, V
  <1>8. UdataMarked
    BY <1>4 DEF UdataMarked
  <1>9. ASSUME NEW u \in UpVal, u \in C PROVE UpvalSafe(u)'
    <2>1. u \in Obj /\ u \notin Str \cup Leaf \cup Udata /\ th # Nil
      BY KindTypes, KindsApart, HeapAssumption
    <2>2. Live(u)' /\ u \in heap' /\ upthread'[u] = Nil /\ ~upisopen(u)'
          /\ u \notin uvhead' /\ u \notin markedopen'
      BY <1>1, <1>2, <1>3, <1>9, TurnFacts DEF Live, upisopen
    <2>3. PICK v : v = UpValue(u)
      OBVIOUS
    <2>4. upvalue'[u] = v /\ Ok(v)
      BY <1>2, <1>6, <1>9, <2>3
    <2>5. ASSUME Black(u)' PROVE Settled(v)'
      <3>1. upisopen(u) /\ u \in heap
        BY <1>3, <1>9, <2>1 DEF upisopen, Live
      <3>2. colour[u] = "gray" /\ keepinvariant
        BY <1>1, <2>1, <2>5, <3>1, TurnFacts DEF Black, ColourInv, ColourDiscipline
      <3> QED
        BY <1>4, <1>7, <1>9, <2>3, <2>4, <3>2 DEF Settled, Ok, Live
    <2>6. Ok(v)'
      BY <1>1, <2>4, TurnFacts DEF Ok
    <2> QED
      BY <2>2, <2>4, <2>5, <2>6 DEF UpvalSafe
  <1>10. ASSUME NEW u \in UpVal, u \notin C PROVE UpvalSafe(u)'
    <2>1. u \in uvhead => u \in openupval'[upthread[u]]
      BY <1>5, <1>10 DEF SafeInv, ObjectsSafe, UpvalSafe
    <2> QED
      BY <1>1, <1>2, <1>10, <2>1, UpvalStays DEF SafeInv, ObjectsSafe
  <1>11. ASSUME NEW t \in Thread \ {th}, Live(t) PROVE OpenSame(t)
    <2>1. \A u \in openupval[t] : u \in UpVal /\ upthread[u] = t
      BY <1>1, <1>11 DEF SafeInv, ObjectsSafe, ThreadSafe, UpvalType
    <2>2. \A u \in openupval[t] : u \notin C
      BY <1>3, <2>1
    <2> QED
      BY <1>2, <1>5, <2>1, <2>2 DEF OpenSame
  <1>12. \A u \in openupval'[th] : u \in UpVal /\ u \notin C
    BY <1>1, <1>5 DEF UpvalType
  <1> QED
    BY <1>2, <1>5, <1>8, <1>9, <1>10, <1>11, <1>12

\* The thread that is closed: it runs, or its stack is emptied.
LEMMA ClosedThread ==
  ASSUME SafeInv, MutatorTurn, NEW th \in Thread, Live(th), NEW level, luaF_close(th, level),
         \/ stack'[th] = stack[th] /\ ~Black(th)'
         \/ stack'[th] = EmptyStack
  PROVE  ThreadSafe(th)'
  <1>1. ColourInv /\ AllTurn /\ UNCHANGED phase /\ ThreadSafe(th)
    BY DEF SafeInv, ObjectsSafe, MutatorTurn
  <1>2. Live(th)' /\ th \in heap'
    BY <1>1, TurnFacts DEF Live
  <1>3. \A i \in Slot : Ok(stack[th][i])'
    BY <1>1, TurnFacts, NewFields DEF ThreadSafe, Ok
  <1>4. \A u \in openupval'[th] : Live(u)' /\ u \in uvhead' /\ upthread'[u] = th
    BY <1>1, TurnFacts, CloseFacts DEF ThreadSafe
  <1>5. ASSUME Black(th)'
        PROVE  /\ \A i \in Slot : Settled(stack[th][i])'
               /\ \A u \in openupval'[th] : Dark(u)' /\ u \in markedopen'
    <2>1. th \in Obj /\ th \notin Str \cup Leaf \cup Udata \cup UpVal
      BY KindTypes, KindsApart, HeapAssumption
    <2>2. Black(th) /\ keepinvariant
      BY <1>1, <1>5, <2>1, TurnFacts DEF Black
    <2> QED
      BY <1>1, <1>5, <2>2, TurnFacts, CloseFacts, NewFields DEF ThreadSafe, Settled
  <1> QED
    BY <1>2, <1>3, <1>4, <1>5 DEF ThreadSafe

LEMMA CloseKept ==
  ASSUME SafeInv, MutatorTurn, NEW th \in Thread, NEW level,
         \/ th = run /\ CloseUpvals(level)
         \/ ResetThread(th) /\ level = 1
  PROVE  Kept
  <1>1. /\ luaF_close(th, level) /\ Running
        /\ UNCHANGED <<weak, phase, tables, uprefs, roots, sched>>
        /\ \A t \in Thread \ {th} : stack'[t] = stack[t] /\ top'[t] = top[t]
        /\ th \notin (isactive \cup {MainThread}) \ {run}
        /\ \/ th = run /\ stack'[th] = stack[th]
           \/ stack'[th] = EmptyStack
    <2>1. StackType
      BY DEF SafeInv, ColourInv, TypeInv, TypeOK
    <2> QED
      BY <2>1 DEF CloseUpvals, ResetThread, Suspended, stacks, StackType
  <1>2. Live(th)
    BY RunFacts, HeldIsLive, KindTypes DEF ResetThread, Suspended
  <1>3. Step
    BY <1>1, <1>2, CloseFacts DEF Step, MutatorTurn
  <1>4. ThreadSafe(th)'
    <2>1. th = run => ~Black(th)'
      BY <1>3, RunNotBlack
    <2> QED
      BY <1>1, <1>2, <2>1, ClosedThread
  <1>5. \A t \in Thread \ {th} : ThreadSafe(t)'
    BY <1>1, <1>2, <1>3, CloseFacts, ThreadStays DEF Step, SafeInv, ObjectsSafe
  <1>6. Waiting'
    <2>1. ASSUME NEW t \in (isactive \cup {MainThread}) \ {run}
          PROVE  /\ top'[t] = top[t] /\ openupval'[t] = openupval[t] /\ stack'[t] = stack[t]
                 /\ \A u \in openupval[t] : uplevel'[u] = uplevel[u]
      <3>1. t \in Thread \ {th} /\ Live(t)
        BY <1>1, HeapAssumption DEF SafeInv, RootsSafe, ColourInv, TypeInv, TypeOK, SchedType
      <3> QED
        BY <1>1, <1>2, <3>1, CloseFacts DEF OpenSame
    <2> QED
      BY <1>1, <2>1, WaitingStays DEF SafeInv, ColourInv
  <1>7. RootsSafe'
    BY <1>1, <1>3, RootsKept DEF sched
  <1> QED
    BY <1>1, <1>2, <1>3, <1>4, <1>5, <1>6, <1>7, CloseFacts, TablesKept, ClosuresKept
       DEF Kept, ObjectsSafe, tables

LEMMA PushPopKept ==
  ASSUME SafeInv, MutatorTurn, NEW co \in Thread, NEW v, NEW i, XPush(co, v) \/ XPop(co, i)
  PROVE  Kept
  <1>0. /\ co \in Held /\ co \notin isactive \cup {MainThread} /\ Running
        /\ UNCHANGED <<weak, phase, tables, upvals, uprefs, roots, sched>> /\ co # run
    BY DEF XPush, XPop, Suspended, SafeInv, ColourInv, TypeInv, Chain, lists
  <1>1. Live(co) /\ co \in Obj /\ StackType /\ ThreadSafe(co) /\ ColourInv
    BY <1>0, HeldIsLive, KindTypes DEF SafeInv, ColourInv, TypeInv, TypeOK, ObjectsSafe
  <1>2. CASE XPush(co, v)
    <2>1. /\ stack' = [stack EXCEPT ![co][top[co] + 1] = v] /\ top' = [top EXCEPT ![co] = @ + 1]
          /\ v \in Held /\ luaC_barrierfast(co) /\ top[co] < StackSize
      BY <1>2 DEF XPush
    <2>2. UdataMarked /\ ~Black(co)'
      BY <1>1, <2>1, BackSettles
    <2>3. Step
      BY <1>0, <2>2 DEF Step, MutatorTurn
    <2>4. Ok(v)'
      BY <1>1, <2>1, <2>3, RunFacts, TurnFacts DEF Step, Ok
    <2>5. PICK n : n = top[co] + 1
      OBVIOUS
    <2>6. n \in Slot
      BY <1>1, <2>1, <2>5, HeapAssumption DEF StackType, Slot
    <2>7. /\ \A t \in Thread \ {co} : stack'[t] = stack[t] /\ top'[t] = top[t]
          /\ \A j \in Slot : stack'[co][j] = IF j = n THEN v ELSE stack[co][j]
      BY <1>1, <2>1, <2>5, <2>6 DEF StackType
    <2>8. \A j \in Slot : stack'[co][j] = stack[co][j] \/ Ok(stack[co][j])'
      BY <2>4, <2>7
    <2>9. \A t \in Thread : ThreadSafe(t)'
      BY <1>0, <1>1, <2>2, <2>3, <2>7, <2>8, SlotsKept
    <2>10. Waiting'
      BY <1>0, <2>3, <2>7, WaitingKept, HeapAssumption
         DEF SafeInv, ColourInv, TypeInv, TypeOK, SchedType
    <2>11. RootsSafe'
      BY <1>0, <2>3, RootsKept DEF sched
    <2> QED
      BY <1>0, <2>3, <2>9, <2>10, <2>11, TablesKept, ClosuresKept, UpvalsKept
         DEF Kept, ObjectsSafe, tables, upvals
  <1>3. CASE XPop(co, i)
    <2>1. /\ SetRegister(i, stack[co][top[co]]) /\ top' = [top EXCEPT ![co] = @ - 1]
          /\ UNCHANGED <<colour, gray, grayagain>> /\ i \in Register /\ top[co] > 0
      BY <1>3 DEF XPop, lists
    <2>2. Step
      BY <1>0, <2>1, NoBarrierSettles DEF Step, MutatorTurn, NoBarrier
    <2>3. top[co] \in Slot
      BY <1>1, <2>1, HeapAssumption DEF StackType, Slot
    <2>4. PICK x : x = stack[co][top[co]]
      OBVIOUS
    <2>5. x = Nil \/ Live(x)'
      BY <1>1, <2>2, <2>3, <2>4, TurnFacts DEF ThreadSafe, Ok, Step
    <2>6. \A t \in (isactive \cup {MainThread}) \ {run} : top'[t] = top[t]
      BY <1>0, <1>1, <2>1, HeapAssumption
         DEF StackType, SafeInv, ColourInv, TypeInv, TypeOK, SchedType
    <2> QED
      BY <1>0, <2>1, <2>2, <2>4, <2>5, <2>6, RegisterStep DEF tables
  <1> QED
    BY <1>2, <1>3

LEMMA SwitchKept ==
  ASSUME SafeInv, MutatorTurn, NEW co, (co \in Thread /\ Resume(co)) \/ (co = run /\ Yield)
  PROVE  Kept
  <1>1. UNCHANGED <<weak, phase, tables, stacks, upvals, uprefs, roots>> /\ Running
    BY DEF Resume, Yield, lists
  <1>2. co \in Thread /\ co \in Obj /\ Live(co) /\ ColourInv
    BY RunFacts, HeldIsLive, KindTypes DEF Resume, Suspended, SafeInv
  <1>3. UdataMarked
    <2>1. CASE Resume(co)
      BY <1>2, <2>1, BackSettles DEF Resume
    <2>2. CASE Yield
      BY <2>2, NoBarrierSettles DEF Yield, NoBarrier, lists
    <2> QED
      BY <2>1, <2>2
  <1>4. Step
    BY <1>1, <1>3 DEF Step, MutatorTurn
  <1>5. RootsSafe'
    <2>1. \A th \in isactive' \ isactive : Live(th)
      BY <1>2 DEF Resume, Yield
    <2>2. ref_array' = ref_array /\ mt' = mt /\ gc_ref_gray' = gc_ref_gray
      BY <1>1 DEF roots
    <2>3. AllTurn /\ RootsSafe
      BY <1>4 DEF Step, SafeInv
    <2> QED
      BY <1>1, <1>2, <2>1, <2>2, <2>3, RootsStay
  <1>6. Waiting'
    <2>1. /\ TypeInv /\ Waiting /\ isactive \subseteq Thread /\ caller \in [Thread -> Thread \cup {Nil}]
          /\ UNCHANGED <<stack, top, openupval, uplevel>> /\ run \in Thread
      BY <1>1 DEF SafeInv, ColourInv, TypeInv, TypeOK, SchedType, stacks, upvals
    <2>2. \A c \in isactive : caller'[c] = caller[c] => Waits(c)'
      BY <2>1 DEF Waiting, Waits
    <2>3. CASE Resume(co)
      <3>1. /\ isactive' = isactive \cup {co} /\ caller' = [caller EXCEPT ![co] = run]
            /\ co \notin isactive \cup {MainThread} /\ run # co
        BY <2>1, <2>3 DEF Resume, Suspended, TypeInv, Chain
      <3>2. caller'[co] = run /\ \A c \in Thread \ {co} : caller'[c] = caller[c]
        BY <1>2, <2>1, <3>1
      <3>3. Waits(co)'
        BY <2>1, <2>3, <3>2 DEF Resume, Waits, Register
      <3>4. \A c \in isactive' : Waits(c)'
        BY <2>1, <2>2, <3>1, <3>2, <3>3
      <3>5. ASSUME NEW S \in SUBSET isactive', S # {} PROVE \E c \in S : caller'[c] \notin S
        <4>1. CASE S \ {co} = {}
          BY <3>1, <3>2, <3>5, <4>1
        <4>2. CASE S \ {co} # {}
          <5>1. S \ {co} \in SUBSET isactive
            BY <3>1
          <5>2. PICK c \in S \ {co} : caller[c] \notin S \ {co}
            BY <2>1, <4>2, <5>1 DEF Waiting
          <5>3. c \in isactive /\ caller[c] \in isactive \cup {MainThread} /\ caller'[c] = caller[c]
            BY <2>1, <3>2, <5>1, <5>2 DEF TypeInv, Chain
          <5> QED
            BY <3>1, <5>2, <5>3
        <4> QED
          BY <4>1, <4>2
      <3> QED
        BY <3>4, <3>5 DEF Waiting
    <2>4. CASE Yield
      <3>1. isactive' = isactive \ {run} /\ caller' = [caller EXCEPT ![run] = Nil]
        BY <2>4 DEF Yield
      <3>2. \A c \in isactive' : caller'[c] = caller[c]
        BY <2>1, <3>1
      <3>3. \A c \in isactive' : Waits(c)'
        BY <2>2, <3>1, <3>2
      <3>4. ASSUME NEW S \in SUBSET isactive', S # {} PROVE \E c \in S : caller'[c] \notin S
        BY <2>1, <3>1, <3>2, <3>4 DEF Waiting
      <3> QED
        BY <3>3, <3>4 DEF Waiting
    <2> QED
      BY <2>3, <2>4
  <1> QED
    BY <1>1, <1>4, <1>5, <1>6, TablesKept, ClosuresKept, UpvalsKept, ThreadsKept
       DEF Kept, ObjectsSafe, tables, stacks, upvals

\* No operation of the program, whatever the collector was doing, lets an object
\* in use be taken for garbage.
LEMMA MutatorSafe == SafeInv /\ Mutate => SafeInv'
  <1> SUFFICES ASSUME SafeInv, Mutate PROVE SafeInv'
    OBVIOUS
  <1>1. MutatorTurn /\ ColourInv'
    BY MutatorTurns, MutatorColours DEF SafeInv
  <1>2. \/ \E i \in Slot : Load(i) \/ Call(i) \/ CloseUpvals(i)
        \/ \E n \in 0..StackSize - 1 : Return(n)
        \/ \E i \in Slot :
             \/ \E o \in Table \cup Udata \cup Leaf \cup Thread : NewObject(o, i)
             \/ \E s \in Str : NewString(s, i)
             \/ \E cl \in Closure, v \in Obj \cup {Nil} : NewClosure(cl, v, i)
             \/ \E cl \in Closure, uv \in UpVal, l \in Slot : CaptureRef(cl, uv, l, i)
             \/ \E co \in Thread : XPop(co, i)
        => Kept
    BY <1>1, LoadKept, FrameKept, CloseKept, NewKept, NewClosureKept, CaptureKept, PushPopKept,
       RunFacts, KindTypes
  <1>3. \/ \E t \in Holder, n \in Node, v \in Value \cup {Nil} :
             SetList(t, n, v) \/ \E k \in Key \cup {Nil} : SetTable(t, n, k, v)
        \/ \E o \in Holder \cup Udata, m \in Meta \cup {Nil} : SetMetatable(o, m)
        \/ \E m \in Meta, md \in Mode : SetMode(m, md)
        \/ \E b \in BasicType, m \in Meta \cup {Nil} : SetBasicMt(b, m)
        => Kept
    BY <1>1, SetListKept, SetTableKept, SetMetatableKept, ModeKept, RootWriteKept, HeapAssumption
  <1>4. \/ \E cl \in Closure, v \in Value \cup {Nil} : SetUpval(cl, v) \/ lua_setupvalue(cl, v)
        \/ \E co \in Thread : \/ Resume(co) \/ ResetThread(co)
                              \/ \E v \in Value \cup {Nil} : XPush(co, v)
        \/ Yield
        \/ \E r \in RefId : Unref(r) \/ \E v \in Value : Ref(r, v)
        => Kept
    BY <1>1, SetUpvalKept, SetCapturedKept, SwitchKept, CloseKept, PushPopKept, RootWriteKept
  <1>5. Kept
    BY <1>2, <1>3, <1>4 DEF Mutate
  <1>6. UNCHANGED phase /\ atomicpc = "none"
    <2>1. UNCHANGED phase
      BY <1>1 DEF MutatorTurn
    <2>2. Running
      BY DEF Mutate, Load, Call, CloseUpvals, Return, NewObject, NewString, NewClosure, CaptureRef,
         XPop, SetList, SetTable, SetMetatable, SetMode, SetBasicMt, SetUpval, lua_setupvalue,
         Resume, ResetThread, XPush, Yield, Unref, Ref
    <2> QED
      BY <2>1, <2>2 DEF Running
  <1>7. BitsReset'
    BY <1>5, <1>6 DEF SafeInv, BitsReset, Kept, keepinvariant, phase
  <1>8. AtomicMarks'
    BY <1>6 DEF AtomicMarks, phase
  <1> QED
    BY <1>1, <1>5, <1>7, <1>8 DEF SafeInv, Kept

-----------------------------------------------------------------------------
(* Marking.                                                                  *)

\* Outside the sweep every object is live.
LEMMA AllLive ==
  ASSUME ColourInv, gcstate # "sweep", NEW o
  PROVE  Live(o) <=> o \in heap
  BY DEF ColourInv, DeadOnlyInSweep, Live

\* What marking the objects of S does to the colours; F holds the object that is
\* traversed, if there is one, which was gray and is gray or black now.
Marks(F, S) ==
  LET c == [x \in Obj |-> IF x \in F THEN "black" ELSE colour[x]]
  IN /\ \A x \in Obj \ F : colour'[x] = Marked(c, Reached(c, S))[x]
     /\ \A x \in F : x \in Gclist /\ colour[x] = "gray" /\ colour'[x] \in {"gray", "black"}

LEMMA MarksFacts ==
  ASSUME SafeInv, gcstate # "sweep", NEW F, NEW S, Marks(F, S)
  PROVE  /\ heap' = heap
         /\ \A x \in heap : ~IsWhite(colour, x) => ~IsWhite(colour', x)
         /\ \A v \in S : Ok(v) => Settled(v)'
         /\ \A uv \in UpVal : colour[uv] = "gray" => colour'[uv] = "gray"
         /\ \A x \in Gclist \ F : colour'[x] = "black" => colour[x] = "black"
         /\ \A u \in Udata : colour'[u] = "black" /\ colour[u] # "black" =>
              \A m : m = metatable[u] => Settled(m)'
         /\ \A uv \in UpVal : colour'[uv] \in {"gray", "black"} /\ colour[uv] # colour'[uv] =>
              \A v : v = UpValue(uv) => Settled(v)'
  <1> USE WhiteDistinct
  <1> DEFINE c == [x \in Obj |-> IF x \in F THEN "black" ELSE colour[x]]
             M == Reached(c, S)
  <1>0. colour \in [Obj -> Colour] /\ TypeInv /\ ColourInv /\ Nil \notin Obj
    BY HeapAssumption DEF SafeInv, ColourInv, TypeInv, TypeOK, ColourType
  <1>1. \A x \in M : x \in Obj /\ IsWhite(c, x)
    BY ReachedWhite
  <1>2. /\ \A x \in S : x \in Obj /\ IsWhite(c, x) => x \in M
        /\ \A u \in Udata \cap M, m \in Table : metatable[u] = m /\ IsWhite(c, m) => m \in M
        /\ \A uv \in UpVal \cap M, v \in Obj : v = UpValue(uv) /\ IsWhite(c, v) => v \in M
    BY <1>0, ReachedSettles
  <1>3. \A x \in Obj \ F : colour'[x] = IF x \notin M THEN colour[x]
             ELSE IF x \in Gclist \/ (x \in UpVal /\ upisopen(x)) THEN "gray" ELSE "black"
    BY DEF Marks, Marked
  <1>4. \A x \in F : x \in Gclist /\ x \in Obj /\ colour[x] = "gray"
                     /\ colour'[x] \in {"gray", "black"} /\ x \notin M
    BY <1>1, KindTypes DEF Marks, IsWhite
  <1>5. \A x \in M : x \in Obj \ F /\ IsWhite(colour, x)
    BY <1>1, <1>4 DEF IsWhite
  <1>6. \A x \in Obj \ F : c[x] = colour[x]
    OBVIOUS
  <1> HIDE DEF M, c
  <1>7. heap' = heap
    BY <1>0, <1>3, <1>4, <1>5 DEF heap, IsWhite
  <1>8. \A x \in heap : ~IsWhite(colour, x) => ~IsWhite(colour', x)
    BY <1>0, <1>3, <1>4, <1>5 DEF heap, IsWhite
  <1>9. \A v \in Obj : v \in heap /\ (IsWhite(c, v) => v \in M) => Dark(v)'
    BY <1>0, <1>3, <1>4, <1>6, <1>7, <1>8 DEF Dark, IsWhite, heap
  <1>10. \A v \in S : Ok(v) => Settled(v)'
    BY <1>2, <1>9 DEF Ok, Settled, Live, heap
  <1>11. \A uv \in UpVal : colour[uv] = "gray" => colour'[uv] = "gray"
    BY <1>3, <1>4, <1>5, KindTypes, KindsApart DEF IsWhite
  <1>12. \A x \in Gclist \ F : colour'[x] = "black" => colour[x] = "black"
    BY <1>3, KindTypes
  <1>13. ASSUME NEW u \in Udata, colour'[u] = "black", colour[u] # "black",
                NEW m, m = metatable[u]
         PROVE  Settled(m)'
    <2>1. u \in M /\ u \in Obj
      BY <1>3, <1>4, <1>13, KindTypes, KindsApart
    <2>2. u \in heap
      BY <1>5, <2>1 DEF IsWhite, heap
    <2>3. Ok(m) /\ m \in Table \cup {Nil}
      BY <1>0, <1>13, <2>2, AllLive
         DEF SafeInv, ObjectsSafe, UdataSafe, TypeInv, TypeOK, TableType
    <2> QED
      BY <1>2, <1>9, <1>13, <2>1, <2>3, KindTypes DEF Ok, Live, Settled
  <1>14. ASSUME NEW uv \in UpVal, colour'[uv] \in {"gray", "black"}, colour[uv] # colour'[uv],
                NEW v, v = UpValue(uv)
         PROVE  Settled(v)'
    <2>1. uv \in M /\ uv \in Obj
      BY <1>3, <1>4, <1>14, KindTypes, KindsApart
    <2>2. Live(uv)
      BY <1>0, <1>5, <2>1, AllLive DEF IsWhite, heap
    <2>3. Ok(v) /\ v \in Value \cup {Nil}
      BY <1>0, <1>14, <2>2, UpValueOk, UpValueType DEF TypeInv, TypeOK
    <2> QED
      BY <1>2, <1>9, <1>14, <2>1, <2>3, KindTypes DEF Ok, Live, Settled
  <1> QED
    BY <1>7, <1>8, <1>10, <1>11, <1>12, <1>13, <1>14
-----------------------------------------------------------------------------
(* The fields while marking: the collector drops only keys of empty entries   *)
(* and slots above the top.                                                   *)

Fields1(t) ==
  \A n \in Node : /\ node'[t][n].val = node[t][n].val
                  /\ \/ node'[t][n].key = node[t][n].key
                     \/ node[t][n].val = Nil /\ node'[t][n].key = DeadKey
Slots1(th) ==
  \A i \in Slot : \/ stack'[th][i] = stack[th][i]
                  \/ i > top[th] /\ stack'[th][i] = Nil

\* What the kinds with a gclist refer to when a traversal has blackened them.
Traversed(o) ==
  /\ o \in Table => /\ Settled(metatable[o])
                    /\ \A n \in Node : /\ Settled(node[o][n].key) \/ node[o][n].key = DeadKey
                                       /\ Settled(node[o][n].val)
  /\ o \in Closure => Settled(uprefs[o])
  /\ o \in Thread => Swept(o)

Marking ==
  /\ SafeInv /\ ColourInv' /\ gcstate # "sweep" /\ keepinvariant'
  /\ \E F, S : Marks(F, S) /\ \A o \in F : colour'[o] = "black" => Traversed(o)'
  /\ UNCHANGED <<metatable, top, openupval, uvhead, upthread, uplevel, upvalue, uprefs,
                 ref_array, mt, sched>>
  /\ \A t \in Table : Fields1(t) /\ (t \notin heap => node'[t] = node[t])
  /\ \A th \in Thread : Slots1(th) /\ (th \notin heap => stack'[th] = stack[th])
  /\ keepinvariant => markedopen \subseteq markedopen'
  /\ \A uv \in markedopen' : uv \in uvhead /\ Dark(upthread[uv])'

LEMMA MarkingFacts ==
  ASSUME Marking
  PROVE  /\ \A o : (Live(o) <=> o \in heap) /\ (Live(o)' <=> o \in heap)
         /\ \A x : Ok(x) => Ok(x)'
         /\ \A x : Dark(x) => Dark(x)'
         /\ \A x : Settled(x) => Settled(x)'
         /\ \A uv \in UpVal : colour[uv] = "gray" => colour'[uv] = "gray"
         /\ \A x \in Obj : colour[x] = "black" => keepinvariant
         /\ \A x \in Gclist : Black(x)' => Black(x) \/ Traversed(x)'
         /\ \A u \in Udata : Black(u)' /\ ~Black(u) => \A m : m = metatable[u] => Settled(m)'
         /\ \A uv \in UpVal : colour'[uv] \in {"gray", "black"} /\ colour[uv] # colour'[uv] =>
              \A v : v = UpValue(uv) => Settled(v)'
         /\ heap' = heap
  <1>1. PICK F, S : Marks(F, S) /\ \A o \in F : colour'[o] = "black" => Traversed(o)'
    BY DEF Marking
  <1>2. SafeInv /\ ColourInv /\ ColourInv' /\ gcstate # "sweep" /\ gcstate' # "sweep"
        /\ keepinvariant'
    BY DEF Marking, keepinvariant, SafeInv
  <1>3. heap' = heap /\ \A x \in heap : ~IsWhite(colour, x) => ~IsWhite(colour', x)
    BY <1>1, <1>2, MarksFacts
  <1>4. \A o : (Live(o) <=> o \in heap) /\ (Live(o)' <=> o \in heap)
    BY <1>2, <1>3 DEF ColourInv, DeadOnlyInSweep, Live
  <1>5. \A x : Dark(x) => Dark(x)'
    BY <1>3 DEF Dark, IsWhite
  <1>6. \A x \in Obj : colour[x] = "black" => keepinvariant
    <2>1. currentwhite \in White /\ gcstate \in {"pause", "propagate", "propagateagain", "atomic"}
      BY <1>2 DEF ColourInv, TypeInv, TypeOK, PhaseType
    <2> QED
      BY <1>2, <2>1, WhiteDistinct DEF ColourInv, DeadOnlyInSweep, keepinvariant, heap
  <1>7. \A x \in Gclist : Black(x)' => Black(x) \/ Traversed(x)'
    <2> SUFFICES ASSUME NEW x \in Gclist, Black(x)' PROVE Black(x) \/ Traversed(x)'
      OBVIOUS
    <2>1. x \in Obj /\ colour'[x] = "black"
      BY KindTypes DEF Black
    <2>2. CASE x \in F
      BY <1>1, <2>1, <2>2
    <2>3. CASE x \notin F
      BY <1>1, <1>2, <1>6, <2>1, <2>3, MarksFacts DEF Black
    <2> QED
      BY <2>2, <2>3
  <1>8. \A u \in Udata : Black(u)' /\ ~Black(u) => \A m : m = metatable[u] => Settled(m)'
    BY <1>1, <1>2, <1>6, MarksFacts, KindTypes DEF Black
  <1>9. \A uv \in UpVal :
          /\ colour[uv] = "gray" => colour'[uv] = "gray"
          /\ colour'[uv] \in {"gray", "black"} /\ colour[uv] # colour'[uv] =>
               \A v : v = UpValue(uv) => Settled(v)'
    BY <1>1, <1>2, MarksFacts
  <1> QED
    BY <1>3, <1>4, <1>5, <1>6, <1>7, <1>8, <1>9 DEF Ok, Settled

\* The value behind an upvalue is the same or none.
LEMMA UpValueMarking ==
  ASSUME Marking, NEW uv \in UpVal
  PROVE  \A v : v = UpValue(uv) /\ (v = Nil \/ Settled(v)') => Settled(UpValue(uv))'
  <1> SUFFICES ASSUME NEW v, v = UpValue(uv), v = Nil \/ Settled(v)' PROVE Settled(UpValue(uv))'
    OBVIOUS
  <1>0. UpvalType /\ upthread'[uv] = upthread[uv] /\ uplevel'[uv] = uplevel[uv]
        /\ upvalue'[uv] = upvalue[uv]
    BY DEF Marking, SafeInv, ColourInv, TypeInv, TypeOK
  <1>1. CASE ~upisopen(uv)
    BY <1>0, <1>1 DEF UpValue, upisopen, Settled
  <1>2. CASE upisopen(uv)
    <2>1. PICK th, i : th = upthread[uv] /\ i = uplevel[uv]
      OBVIOUS
    <2>2. th \in Thread /\ i \in Slot
      BY <1>0, <1>2, <2>1 DEF UpvalType, upisopen
    <2>3. v = stack[th][i] /\ UpValue(uv)' = stack'[th][i]
      BY <1>0, <1>2, <2>1 DEF UpValue, upisopen
    <2>4. stack'[th][i] = v \/ stack'[th][i] = Nil
      BY <2>2, <2>3 DEF Marking, Slots1
    <2> QED
      BY <2>3, <2>4 DEF Settled
  <1> QED
    BY <1>1, <1>2

LEMMA MarkingTables ==
  ASSUME Marking
  PROVE  (\A t \in Table : TableSafe(t)') /\ (\A u \in Udata : UdataSafe(u)')
  <1>0. UNCHANGED metatable /\ heap' = heap
    BY MarkingFacts DEF Marking
  <1>1. ASSUME NEW t \in Table PROVE TableSafe(t)'
    <2>1. TableSafe(t) /\ Fields1(t) /\ (t \notin heap => node'[t] = node[t]) /\ t \in Gclist
      BY KindTypes DEF Marking, SafeInv, ObjectsSafe
    <2>2. t \notin heap' => node'[t] = EmptyNodes /\ metatable'[t] = Nil
      BY <1>0, <2>1 DEF TableSafe
    <2>3. ASSUME Live(t)'
          PROVE  /\ Ok(metatable[t])'
                 /\ \A n \in Node : node[t][n].val' # Nil => Ok(node[t][n].key)' /\ Ok(node[t][n].val)'
      <3>1. Live(t)
        BY <2>3, MarkingFacts
      <3> QED
        BY <1>0, <2>1, <3>1, MarkingFacts DEF TableSafe, Fields1, Ok
    <2>4. ASSUME Black(t)'
          PROVE  /\ Settled(metatable[t])'
                 /\ \A n \in Node : /\ Settled(node[t][n].key)' \/ node[t][n].key' = DeadKey
                                    /\ Settled(node[t][n].val)'
      <3>1. CASE Black(t)
        BY <1>0, <2>1, <3>1, MarkingFacts DEF TableSafe, Fields1, Settled
      <3>2. CASE Traversed(t)'
        BY <3>2 DEF Traversed
      <3> QED
        BY <2>1, <2>4, <3>1, <3>2, MarkingFacts
    <2> QED
      BY <2>2, <2>3, <2>4 DEF TableSafe
  <1>2. ASSUME NEW u \in Udata PROVE UdataSafe(u)'
    <2>1. UdataSafe(u)
      BY DEF Marking, SafeInv, ObjectsSafe
    <2>2. Live(u)' => Ok(metatable[u])'
      BY <1>0, <2>1, MarkingFacts DEF UdataSafe, Ok
    <2>3. Black(u)' => Settled(metatable[u])'
      BY <1>0, <2>1, MarkingFacts DEF UdataSafe, Settled
    <2> QED
      BY <1>0, <2>1, <2>2, <2>3 DEF UdataSafe
  <1> QED
    BY <1>1, <1>2

LEMMA MarkingThreads ==
  ASSUME Marking
  PROVE  (\A cl \in Closure : ClosureSafe(cl)') /\ (\A th \in Thread : ThreadSafe(th)')
  <1>0. UNCHANGED <<uprefs, openupval, uvhead, upthread, uplevel>> /\ heap' = heap
        /\ UpvalType
    BY MarkingFacts DEF Marking, SafeInv, ColourInv, TypeInv, TypeOK
  <1>1. ASSUME NEW cl \in Closure PROVE ClosureSafe(cl)'
    <2>1. ClosureSafe(cl) /\ cl \in Gclist
      BY KindTypes DEF Marking, SafeInv, ObjectsSafe
    <2>2. Live(cl)' => Ok(uprefs[cl])'
      BY <1>0, <2>1, MarkingFacts DEF ClosureSafe, Ok
    <2>3. Black(cl)' => Settled(uprefs[cl])'
      BY <1>0, <2>1, MarkingFacts DEF ClosureSafe, Settled, Traversed
    <2> QED
      BY <1>0, <2>1, <2>2, <2>3 DEF ClosureSafe
  <1>2. ASSUME NEW th \in Thread PROVE ThreadSafe(th)'
    <2>1. ThreadSafe(th) /\ Slots1(th) /\ (th \notin heap => stack'[th] = stack[th])
          /\ th \in Gclist /\ th \in Obj
      BY KindTypes DEF Marking, SafeInv, ObjectsSafe
    <2>2. th \notin heap' => stack'[th] = EmptyStack /\ openupval'[th] = {}
      BY <1>0, <2>1 DEF ThreadSafe
    <2>3. ASSUME Live(th)'
          PROVE  /\ \A i \in Slot : Ok(stack[th][i])'
                 /\ \A uv \in openupval'[th] : Live(uv)' /\ uv \in uvhead' /\ upthread'[uv] = th
      <3>1. Live(th)
        BY <2>3, MarkingFacts
      <3>2. \A i \in Slot : Ok(stack[th][i])'
        BY <2>1, <3>1, MarkingFacts DEF ThreadSafe, Slots1, Ok
      <3> QED
        BY <1>0, <2>1, <3>1, <3>2, MarkingFacts DEF ThreadSafe
    <2>4. ASSUME Black(th)'
          PROVE  /\ \A i \in Slot : Settled(stack[th][i])' \/ Shared(th, i)'
                 /\ \A uv \in openupval'[th] : Dark(uv)' /\ uv \in markedopen'
      <3>1. CASE Black(th)
        <4>1. keepinvariant /\ markedopen \subseteq markedopen'
          BY <3>1 DEF Black, Marking
        <4>2. \A i : Shared(th, i) => Shared(th, i)'
          BY <1>0, <2>1, MarkingFacts DEF Shared, UpvalType
        <4>3. \A i \in Slot : Settled(stack[th][i])' \/ Shared(th, i)'
          BY <2>1, <3>1, <4>2, MarkingFacts DEF ThreadSafe, Slots1, Settled
        <4> QED
          BY <1>0, <2>1, <3>1, <4>1, <4>3, MarkingFacts DEF ThreadSafe
      <3>2. CASE Traversed(th)'
        BY <3>2 DEF Traversed, Swept
      <3> QED
        BY <2>1, <2>4, <3>1, <3>2, MarkingFacts
    <2> QED
      BY <2>2, <2>3, <2>4 DEF ThreadSafe
  <1> QED
    BY <1>1, <1>2

LEMMA MarkingUpvals ==
  ASSUME Marking, NEW uv \in UpVal
  PROVE  UpvalSafe(uv)'
  <1>0. UNCHANGED <<openupval, uvhead, upthread, uplevel, upvalue>> /\ heap' = heap
        /\ UpvalSafe(uv) /\ uv \in Obj
    BY MarkingFacts, KindTypes DEF Marking, SafeInv, ObjectsSafe
  <1>1. uv \notin heap' => upthread'[uv] = Nil /\ upvalue'[uv] = Nil
    BY <1>0 DEF UpvalSafe
  <1>2. Live(uv)' => IF upisopen(uv)' THEN uv \in uvhead' ELSE Ok(upvalue[uv])'
    BY <1>0, MarkingFacts DEF UpvalSafe, upisopen, Ok
  <1>3. ASSUME Black(uv)' PROVE Settled(upvalue[uv])'
    <2>1. CASE Black(uv)
      BY <1>0, <2>1, MarkingFacts DEF UpvalSafe, Settled
    <2>2. CASE ~Black(uv)
      <3>1. colour'[uv] = "black" /\ colour[uv] # "black"
        BY <1>0, <1>3, <2>2, MarkingFacts DEF Black
      <3>2. ~upisopen(uv)
        BY <1>0, <3>1 DEF Marking, ColourInv, ColourDiscipline, heap, upisopen
      <3>3. UpValue(uv) = upvalue[uv] /\ upvalue'[uv] = upvalue[uv]
        BY <1>0, <3>2 DEF UpValue
      <3> QED
        BY <3>1, <3>3, MarkingFacts DEF Settled
    <2> QED
      BY <2>1, <2>2
  <1>4. uv \in uvhead' => /\ upthread'[uv] \in Thread /\ Live(upthread[uv])'
                          /\ uv \in openupval'[upthread'[uv]]
    BY <1>0, MarkingFacts DEF UpvalSafe, Live
  <1>5. uv \in markedopen' => uv \in uvhead' /\ (keepinvariant' => Dark(upthread[uv])')
    BY <1>0 DEF Marking
  <1> QED
    BY <1>1, <1>2, <1>3, <1>4, <1>5 DEF UpvalSafe

LEMMA MarkingWaits ==
  ASSUME Marking
  PROVE  Waiting'
  <1>0. TypeInv /\ Waiting /\ UNCHANGED <<top, openupval, uplevel, isactive, caller>>
    BY DEF Marking, SafeInv, ColourInv, sched
  <1>1. ASSUME NEW co \in isactive PROVE Waits(co)'
    <2>1. PICK th : th = caller[co]
      OBVIOUS
    <2>2. th \in Thread /\ caller'[co] = th
      BY <1>0, <2>1, HeapAssumption DEF TypeInv, TypeOK, SchedType, Chain
    <2>3. PICK i \in 1..top[th] : stack[th][i] = co /\ \A uv \in openupval[th] : uplevel[uv] # i
      BY <1>0, <2>1 DEF Waiting, Waits
    <2>4. i \in Slot /\ ~(i > top[th])
      BY <1>0, <2>2, HeapAssumption DEF TypeInv, TypeOK, StackType, Slot
    <2>5. stack'[th][i] = co
      BY <2>2, <2>3, <2>4 DEF Marking, Slots1
    <2> QED
      BY <1>0, <2>2, <2>3, <2>5 DEF Waits
  <1> QED
    BY <1>0, <1>1 DEF Waiting

\* A step of marking keeps the invariant when it settles the roots and what the
\* stage of atomic() it reaches asks for.
LEMMA MarkingSafe ==
  ASSUME Marking, AtomicMarks', Dark(MainThread)',
         gc_ref_gray' \/ \A r \in RefId : Settled(ref_array[r])'
  PROVE  SafeInv'
  <1>1. ObjectsSafe'
    BY MarkingTables, MarkingThreads, MarkingUpvals DEF ObjectsSafe
  <1>2. RootsSafe'
    <2>1. RootsSafe /\ UNCHANGED <<ref_array, mt, isactive>>
      BY DEF Marking, SafeInv, sched
    <2>2. Live(MainThread)' /\ \A th \in isactive' : Live(th)'
      BY <2>1, MarkingFacts DEF RootsSafe
    <2>3. \A r \in RefId : Ok(ref_array[r])'
      BY <2>1, MarkingFacts DEF RootsSafe, Ok
    <2>4. \A b \in BasicType : Ok(mt[b])'
      BY <2>1, MarkingFacts DEF RootsSafe, Ok
    <2> QED
      BY <2>2, <2>3, <2>4 DEF RootsSafe
  <1>3. BitsReset'
    BY DEF BitsReset, Marking
  <1> QED
    BY <1>1, <1>2, <1>3, MarkingWaits DEF SafeInv, Marking
-----------------------------------------------------------------------------
(* The actions that mark and traverse nothing.                               *)

\* The objects of S are marked and no field changes.
MarkOnly(S) ==
  /\ SafeInv /\ ColourInv' /\ gcstate # "sweep" /\ keepinvariant'
  /\ colour' = Marked(colour, Reached(colour, S))
  /\ UNCHANGED <<tables, stacks, openupval, uvhead, upthread, uplevel, upvalue, uprefs,
                 ref_array, mt, sched>>
  /\ markedopen' = IF keepinvariant THEN markedopen ELSE {}

LEMMA MarkOnlyFacts ==
  ASSUME NEW S, MarkOnly(S)
  PROVE  Marking /\ \A v \in S : Ok(v) => Settled(v)'
  <1>0. colour \in [Obj -> Colour] /\ SafeInv /\ gcstate # "sweep"
    BY DEF MarkOnly, SafeInv, ColourInv, TypeInv, TypeOK, ColourType
  <1>1. Marks({}, S)
    <2>1. [x \in Obj |-> IF x \in {} THEN "black" ELSE colour[x]] = colour
      BY <1>0
    <2>2. \A x \in Obj \ {} : colour'[x] = Marked(colour, Reached(colour, S))[x]
      BY DEF MarkOnly
    <2> QED
      BY <2>1, <2>2 DEF Marks
  <1>2. /\ \A t \in Table : Fields1(t) /\ (t \notin heap => node'[t] = node[t])
        /\ \A th \in Thread : Slots1(th) /\ (th \notin heap => stack'[th] = stack[th])
    BY DEF MarkOnly, tables, stacks, Fields1, Slots1
  <1>3. heap' = heap /\ \A x \in heap : ~IsWhite(colour, x) => ~IsWhite(colour', x)
    BY <1>0, <1>1, MarksFacts
  <1>4. \A uv \in markedopen' : uv \in uvhead /\ Dark(upthread[uv])'
    <2> SUFFICES ASSUME NEW uv \in markedopen' PROVE uv \in uvhead /\ Dark(upthread[uv])'
      OBVIOUS
    <2>1. uv \in markedopen /\ keepinvariant /\ upthread'[uv] = upthread[uv]
      BY DEF MarkOnly
    <2>2. uv \in UpVal
      BY <1>0, <2>1 DEF SafeInv, ColourInv, TypeInv, TypeOK, UpvalType
    <2>3. uv \in uvhead /\ Dark(upthread[uv])
      BY <1>0, <2>1, <2>2 DEF SafeInv, ObjectsSafe, UpvalSafe
    <2> QED
      BY <1>3, <2>1, <2>3 DEF Dark, IsWhite
  <1>5. keepinvariant => markedopen \subseteq markedopen'
    BY DEF MarkOnly
  <1>6. \E F, T : Marks(F, T) /\ \A o \in F : colour'[o] = "black" => Traversed(o)'
    BY <1>1
  <1>7. Marking
    BY <1>2, <1>4, <1>5, <1>6 DEF MarkOnly, Marking, tables, stacks
  <1> QED
    BY <1>0, <1>1, <1>7, MarksFacts

\* markroot: the bits of the last cycle are gone, so no upvalue carries one.
LEMMA RootSafe == SafeInv /\ (GcPause \/ FullGcMark) => SafeInv'
  <1> SUFFICES ASSUME SafeInv, GcPause \/ FullGcMark PROVE SafeInv'
    OBVIOUS
  <1> DEFINE S == {MainThread} \cup Pool \cup BasicMt
  <1>1. ColourInv' /\ markroot /\ gcstate = "pause" /\ atomicpc = "none" /\ ~keepinvariant
    BY CollectorColours DEF SafeInv, GcStep, GcPause, FullGcMark, ColourInv, AtomicPhase,
       keepinvariant
  <1>2. markedopen' = {}
    <2>1. \A uv \in markedopen : uv \in uvhead
      BY DEF SafeInv, ObjectsSafe, UpvalSafe, ColourInv, TypeInv, TypeOK, UpvalType
    <2>2. fullgc = "none" => markedopen = {}
      BY <1>1 DEF SafeInv, BitsReset
    <2> QED
      BY <2>1, <2>2 DEF GcPause, FullGcMark
  <1>3. keepinvariant' /\ atomicpc' = "none"
    BY <1>1 DEF markroot, keepinvariant
  <1>4. MarkOnly(S)
    BY <1>1, <1>2, <1>3 DEF MarkOnly, markroot, stacks
  <1>5. Marking /\ \A v \in S : Ok(v) => Settled(v)'
    BY <1>4, MarkOnlyFacts
  <1>6. Settled(MainThread)' /\ MainThread # Nil
    BY <1>5, HeapAssumption, KindTypes DEF SafeInv, RootsSafe, Ok
  <1>7. \A r \in RefId : Settled(ref_array[r])'
    <2>1. UNCHANGED ref_array
      BY <1>1 DEF markroot
    <2> QED
      BY <1>5, <2>1 DEF SafeInv, RootsSafe, Pool, Settled
  <1>8. AtomicMarks'
    BY <1>3 DEF AtomicMarks
  <1> QED
    BY <1>5, <1>6, <1>7, <1>8, MarkingSafe DEF Settled

\* Gray upvalues keep a settled value through a step of marking.
LEMMA GrayUpvals ==
  ASSUME Marking, NEW uv \in UpVal, colour'[uv] = "gray",
         colour[uv] = "gray" => \A v : v = UpValue(uv) => Settled(v)'
  PROVE  Settled(UpValue(uv))'
  <1>1. PICK v : v = UpValue(uv)
    OBVIOUS
  <1>2. Settled(v)'
    BY <1>1, MarkingFacts
  <1> QED
    BY <1>1, <1>2, UpValueMarking

LEMMA AtomicSafe ==
  SafeInv /\ (AtomicUpvals \/ AtomicWeak \/ AtomicGrayagain \/ AtomicRefs) => SafeInv'
  <1> SUFFICES ASSUME SafeInv, AtomicUpvals \/ AtomicWeak \/ AtomicGrayagain \/ AtomicRefs
               PROVE  SafeInv'
    OBVIOUS
  <1>1. /\ ColourInv /\ ColourInv' /\ gcstate = "atomic" /\ keepinvariant /\ keepinvariant'
        /\ gcstate # "sweep"
    BY CollectorColours DEF SafeInv, GcStep, AtomicUpvals, AtomicWeak, AtomicGrayagain, AtomicRefs,
       AtomicMark, ColourInv, AtomicPhase, keepinvariant
  <1>2. ASSUME NEW S, colour' = Marked(colour, Reached(colour, S)), NEW M, AtomicMark(M)
        PROVE  MarkOnly(S)
    BY <1>1, <1>2 DEF AtomicMark, MarkOnly, upvals
  <1>3. ASSUME NEW S, MarkOnly(S), AtomicMarks',
               gc_ref_gray' \/ \A r \in RefId : Settled(ref_array[r])'
        PROVE  SafeInv'
    BY <1>1, <1>3, MarkOnlyFacts, MarkingFacts, MarkingSafe DEF SafeInv, RootsSafe
  <1>4. Reached(colour, {}) = {}
    BY DEF Reached
  <1>5. ASSUME Marking, UNCHANGED <<ref_array, gc_ref_gray>>
        PROVE  gc_ref_gray' \/ \A r \in RefId : Settled(ref_array[r])'
    BY <1>1, <1>5, MarkingFacts DEF SafeInv, RootsSafe, Settled
  <1>6. ASSUME Marking, atomicpc # "none"
        PROVE  \A uv \in UpVal : colour'[uv] = "gray" => Settled(UpValue(uv))'
    BY <1>6, MarkingFacts, GrayUpvals DEF SafeInv, AtomicMarks
  <1>upvals. CASE AtomicUpvals
    <2> DEFINE S == {UpValue(uv) : uv \in {u \in uvhead : colour[u] = "gray"}}
    <2>1. MarkOnly(S) /\ atomicpc' = "upvals" /\ UNCHANGED <<ref_array, gc_ref_gray>>
      BY <1>2, <1>upvals DEF AtomicUpvals, AtomicMark
    <2>2. Marking /\ \A v \in S : Ok(v) => Settled(v)'
      BY <2>1, MarkOnlyFacts
    <2>3. ASSUME NEW uv \in UpVal, colour'[uv] = "gray" PROVE Settled(UpValue(uv))'
      <3>1. ASSUME colour[uv] = "gray", NEW v, v = UpValue(uv) PROVE Settled(v)'
        <4>1. uv \in Obj /\ Live(uv)
          BY <1>1, <3>1, BlackIsLive, KindTypes
        <4>2. uv \in uvhead
          BY <1>1, <3>1, <4>1
             DEF ColourInv, ColourDiscipline, SafeInv, ObjectsSafe, UpvalSafe, Live
        <4>3. Ok(v)
          BY <3>1, <4>1, UpValueOk
        <4> QED
          BY <2>2, <3>1, <4>2, <4>3
      <3> QED
        BY <2>2, <2>3, <3>1, GrayUpvals
    <2>4. AtomicMarks'
      BY <2>1, <2>3 DEF AtomicMarks
    <2> QED
      BY <1>3, <1>5, <2>1, <2>2, <2>4
  <1>weak. CASE AtomicWeak
    <2> DEFINE S == {run} \cup BasicMt
    <2>1. /\ MarkOnly(S) /\ atomicpc = "upvals" /\ atomicpc' = "weak" /\ weak' = {}
          /\ UNCHANGED <<ref_array, gc_ref_gray, mt>>
      BY <1>2, <1>weak DEF AtomicWeak, AtomicMark
    <2>2. Marking /\ \A v \in S : Ok(v) => Settled(v)'
      BY <2>1, MarkOnlyFacts
    <2>3. \A b \in BasicType : Settled(mt[b])'
      BY <2>1, <2>2 DEF SafeInv, RootsSafe, BasicMt, Settled
    <2>4. AtomicMarks'
      BY <1>6, <2>1, <2>2, <2>3 DEF AtomicMarks
    <2> QED
      BY <1>3, <1>5, <2>1, <2>2, <2>4
  <1>again. CASE AtomicGrayagain
    <2>1. /\ MarkOnly({}) /\ atomicpc = "weak" /\ atomicpc' = "again" /\ grayagain' = {}
          /\ UNCHANGED <<ref_array, gc_ref_gray, mt, weak, metatable>>
      BY <1>2, <1>4, <1>again DEF AtomicGrayagain, AtomicMark, tables
    <2>2. Marking
      BY <2>1, MarkOnlyFacts
    <2>3. (\A b \in BasicType : Settled(mt[b])') /\ (\A t \in weak' : Settled(metatable[t])')
      BY <2>1, <2>2, MarkingFacts DEF SafeInv, AtomicMarks, Settled
    <2>4. AtomicMarks'
      BY <1>6, <2>1, <2>2, <2>3 DEF AtomicMarks
    <2> QED
      BY <1>3, <1>5, <2>1, <2>2, <2>4
  <1>refs. CASE AtomicRefs
    <2>1. PICK S : S = (IF gc_ref_gray THEN Pool ELSE {})
      OBVIOUS
    <2>2. /\ MarkOnly(S) /\ atomicpc = "again" /\ atomicpc' = "refs" /\ gc_ref_gray' = FALSE
          /\ UNCHANGED <<ref_array, mt, weak, grayagain, metatable>>
          /\ UNCHANGED <<stack, openupval, markedopen>>
      BY <1>2, <1>4, <1>refs, <2>1 DEF AtomicRefs, AtomicMark, tables, stacks, upvals
    <2>3. Marking /\ \A v \in S : Ok(v) => Settled(v)'
      BY <2>2, MarkOnlyFacts
    <2>4. \A r \in RefId : Settled(ref_array[r])'
      <3>1. CASE gc_ref_gray
        BY <2>1, <2>2, <2>3, <3>1 DEF SafeInv, RootsSafe, Pool, Settled
      <3>2. CASE ~gc_ref_gray
        BY <1>1, <2>2, <2>3, <3>2, MarkingFacts DEF SafeInv, RootsSafe, Settled
      <3> QED
        BY <3>1, <3>2
    <2>5. (\A b \in BasicType : Settled(mt[b])') /\ (\A t \in weak' : Settled(metatable[t])')
      BY <2>2, <2>3, MarkingFacts DEF SafeInv, AtomicMarks, Settled
    <2>6. \A th \in grayagain' : Swept(th)'
      BY <2>2, <2>3, MarkingFacts DEF SafeInv, AtomicMarks, Swept, Settled
    <2>7. AtomicMarks'
      BY <1>6, <2>2, <2>3, <2>5, <2>6 DEF AtomicMarks
    <2> QED
      BY <1>3, <2>2, <2>4, <2>7
  <1> QED
    BY <1>upvals, <1>weak, <1>again, <1>refs
-----------------------------------------------------------------------------
(* propagatemark.                                                            *)

LEMMA ChildrenOk ==
  ASSUME SafeInv, NEW o \in Gclist, Live(o)
  PROVE  \A v \in Children(o) : Ok(v)
  <1>1. CASE o \in Table
    <2>1. TableSafe(o)
      BY <1>1 DEF SafeInv, ObjectsSafe
    <2>2. Ok(metatable[o]) /\ \A n \in Used(o) : Ok(node[o][n].key) /\ Ok(node[o][n].val)
      BY <2>1 DEF TableSafe, Used
    <2> QED
      BY <1>1, <2>2 DEF Children, TableChildren
  <1>2. CASE o \in Thread
    <2>1. ThreadSafe(o) /\ o \notin Table /\ 1..top[o] \subseteq Slot
      BY <1>2, HeapAssumption
         DEF SafeInv, ObjectsSafe, ColourInv, TypeInv, TypeOK, StackType, Slot
    <2> QED
      BY <1>2, <2>1 DEF Children, StackChildren, ThreadSafe, Ok
  <1>3. CASE o \in Closure
    <2>1. ClosureSafe(o) /\ o \notin Table /\ o \notin Thread
      BY <1>3, HeapAssumption DEF SafeInv, ObjectsSafe
    <2> QED
      BY <2>1 DEF Children, ClosureSafe
  <1> QED
    BY <1>1, <1>2, <1>3 DEF Gclist

\* The colours and the fields that a traversal of o leaves.
Traverses(o) ==
  /\ SafeInv /\ ColourInv' /\ keepinvariant /\ keepinvariant'
  /\ o \in gray /\ propagatemark(o)

LEMMA TraversesFacts ==
  ASSUME NEW o, Traverses(o)
  PROVE  /\ o \in Gclist /\ o \in Obj /\ Live(o) /\ colour[o] = "gray" /\ Dark(o)'
         /\ gcstate # "sweep" /\ TypeInv
         /\ Marks({o}, Children(o))
         /\ \A v \in Children(o) : Settled(v)'
         /\ colour'[o] = "black" => ~StaysGray(o)
  <1>1. /\ o \in Gclist /\ o \in Obj /\ colour[o] = "gray" /\ ColourInv /\ TypeInv
        /\ colour \in [Obj -> Colour] /\ gcstate # "sweep"
    BY KindTypes DEF Traverses, SafeInv, ColourInv, TypeInv, TypeOK, ColourType, GrayLists,
       keepinvariant
  <1>2. Live(o)
    BY <1>1, BlackIsLive
  <1>3. [x \in Obj |-> IF x \in {o} THEN "black" ELSE colour[x]] = [colour EXCEPT ![o] = "black"]
    BY <1>1
  <1>4. \A x \in Obj : colour'[x] = IF x = o THEN IF StaysGray(o) THEN "gray" ELSE "black"
                                    ELSE Marked(colour, NewlyMarked(o))[x]
    BY <1>1 DEF Traverses, propagatemark, ColourAfter, Marked
  <1>5. Marks({o}, Children(o))
    <2> DEFINE c == [colour EXCEPT ![o] = "black"]
    <2>1. \A x \in Obj \ {o} :
            Marked(colour, NewlyMarked(o))[x] = Marked(c, Reached(c, Children(o)))[x]
      BY <1>1 DEF Marked, NewlyMarked
    <2>2. \A x \in Obj \ {o} : colour'[x] = Marked(c, Reached(c, Children(o)))[x]
      BY <1>4, <2>1
    <2>3. colour'[o] \in {"gray", "black"}
      BY <1>1, <1>4
    <2> HIDE DEF c
    <2> QED
      BY <1>1, <1>3, <2>2, <2>3 DEF Marks, c
  <1>6. \A v \in Children(o) : Settled(v)'
    BY <1>1, <1>2, <1>5, MarksFacts, ChildrenOk DEF Traverses
  <1>7. Dark(o)'
    BY <1>1, <1>4, WhiteDistinct DEF Dark, heap, IsWhite
  <1> QED
    BY <1>1, <1>2, <1>4, <1>5, <1>6, <1>7

LEMMA TraversedTable ==
  ASSUME NEW o, Traverses(o)
  PROVE  /\ \A t \in Table : Fields1(t) /\ (t \notin heap => node'[t] = node[t])
         /\ o \in Table /\ colour'[o] = "black" => Traversed(o)'
         /\ o \in Table => Settled(metatable[o])'
  <1>1. TableType /\ o \in heap /\ node' = NodeAfter(o) /\ UNCHANGED metatable
    BY TraversesFacts DEF Traverses, propagatemark, TypeInv, TypeOK, Live
  <1>2. ASSUME NEW n \in Node, NEW t \in Table
        PROVE  /\ node[t][n] \in [key : Key \cup {Nil, DeadKey}, val : Value \cup {Nil}]
               /\ RemoveEntry(node[t][n]).val = node[t][n].val
               /\ RemoveEntry(node[t][n]).key = IF node[t][n].key \in Obj THEN DeadKey
                                                ELSE node[t][n].key
    <2>1. node[t][n] \in Entries
      BY <1>1 DEF TableType
    <2>2. node[t][n] \in [key : Key \cup {Nil, DeadKey}, val : Value \cup {Nil}]
      BY <2>1 DEF Entries
    <2> QED
      BY <2>2 DEF RemoveEntry
  <1>3. ASSUME NEW t \in Table, t # o PROVE node'[t] = node[t]
    BY <1>1, <1>3 DEF NodeAfter, TableType
  <1>4. ASSUME o \in Table, TableMode(o) # {"k", "v"}, NEW n \in Node
        PROVE  node'[o][n] = IF n \in Used(o) THEN node[o][n] ELSE RemoveEntry(node[o][n])
    BY <1>1, <1>4 DEF NodeAfter, TableType
  <1>5. o \in Table /\ TableMode(o) = {"k", "v"} => node' = node
    BY <1>1 DEF NodeAfter
  <1>6. ASSUME NEW t \in Table PROVE Fields1(t)
    <2>1. CASE t = o /\ TableMode(o) # {"k", "v"}
      BY <1>2, <1>4, <2>1 DEF Fields1, Used
    <2>2. CASE ~(t = o /\ TableMode(o) # {"k", "v"})
      BY <1>3, <1>5, <2>2 DEF Fields1
    <2> QED
      BY <2>1, <2>2
  <1>7. ASSUME o \in Table PROVE Settled(metatable[o])'
    <2>1. metatable[o] \in Children(o) /\ metatable'[o] = metatable[o]
      BY <1>1, <1>7 DEF Children, TableChildren
    <2> QED
      BY <2>1, TraversesFacts DEF Settled
  <1>8. ASSUME o \in Table, colour'[o] = "black" PROVE Traversed(o)'
    <2>1. TableMode(o) = {} /\ TableMode(o) # {"k", "v"}
      BY <1>8, TraversesFacts DEF StaysGray
    <2>2. ASSUME NEW n \in Node
          PROVE  /\ Settled(node[o][n].key)' \/ node[o][n].key' = DeadKey
                 /\ Settled(node[o][n].val)'
      <3>1. CASE n \in Used(o)
        <4>1. node[o][n].key \in Children(o) /\ node[o][n].val \in Children(o)
          BY <1>8, <2>1, <3>1 DEF Children, TableChildren
        <4>2. node'[o][n] = node[o][n]
          BY <1>4, <1>8, <2>1, <3>1
        <4> QED
          BY <4>1, <4>2, TraversesFacts DEF Settled
      <3>2. CASE n \notin Used(o)
        <4>1. node'[o][n].val = Nil
          BY <1>2, <1>4, <1>8, <2>1, <3>2 DEF Used
        <4>2. node'[o][n].key \in {Nil, DeadKey}
          <5>1. node'[o][n].key = IF node[o][n].key \in Obj THEN DeadKey ELSE node[o][n].key
            BY <1>2, <1>4, <1>8, <2>1, <3>2
          <5>2. node[o][n].key \in Obj \cup {Nil, DeadKey}
            BY <1>2, <1>8, KindTypes, HeapAssumption
          <5> QED
            BY <5>1, <5>2
        <4> QED
          BY <4>1, <4>2 DEF Settled
      <3> QED
        BY <3>1, <3>2
    <2>3. o \notin Closure /\ o \notin Thread
      BY <1>8, HeapAssumption
    <2> QED
      BY <1>7, <1>8, <2>2, <2>3 DEF Traversed
  <1> QED
    BY <1>1, <1>3, <1>6, <1>7, <1>8

LEMMA TraversedThread ==
  ASSUME NEW o, Traverses(o)
  PROVE  /\ \A th \in Thread : Slots1(th) /\ (th \notin heap => stack'[th] = stack[th])
         /\ o \in Thread /\ (~Active(o) \/ gcstate = "atomic") => Swept(o)'
         /\ markedopen \subseteq markedopen'
         /\ \A uv \in markedopen' : uv \in uvhead /\ Dark(upthread[uv])'
  <1>1. /\ StackType /\ UpvalType /\ o \in heap /\ Live(o) /\ stack' = StackAfter(o)
        /\ markedopen' = MarkedopenAfter(o)
        /\ UNCHANGED <<openupval, upthread>>
    BY TraversesFacts DEF Traverses, propagatemark, TypeInv, TypeOK, Live
  <1>2. ASSUME NEW th \in Thread
        PROVE  stack'[th] = IF th = o /\ (~Active(o) \/ gcstate = "atomic")
                            THEN [i \in Slot |-> IF i <= top[o] THEN stack[o][i] ELSE Nil]
                            ELSE stack[th]
    BY <1>1 DEF StackAfter, StackType
  <1>3. ASSUME NEW th \in Thread PROVE Slots1(th) /\ (th \notin heap => stack'[th] = stack[th])
    <2>1. top[th] \in Int /\ Slot \subseteq Int
      BY <1>1, HeapAssumption DEF StackType, Slot
    <2>2. th = o => ~(th \notin heap)
      BY <1>1
    <2>3. CASE th = o /\ (~Active(o) \/ gcstate = "atomic")
      <3>1. \A i \in Slot : stack'[th][i] = IF i <= top[th] THEN stack[th][i] ELSE Nil
        BY <1>2, <2>3
      <3>2. Slots1(th)
        BY <2>1, <3>1 DEF Slots1
      <3> QED
        BY <2>2, <2>3, <3>2
    <2>4. CASE ~(th = o /\ (~Active(o) \/ gcstate = "atomic"))
      BY <1>2, <2>4 DEF Slots1
    <2> QED
      BY <2>3, <2>4
  <1>4. markedopen \subseteq markedopen'
    BY <1>1 DEF MarkedopenAfter
  <1>5. ASSUME o \in Thread, ~Active(o) \/ gcstate = "atomic" PROVE Swept(o)'
    <2>0. o \notin Table /\ top[o] \in 0..StackSize /\ Slot = 1..StackSize /\ StackSize \in Nat
      BY <1>1, <1>5, HeapAssumption DEF StackType, Slot
    <2>1. ASSUME NEW i \in Slot PROVE Settled(stack[o][i])'
      <3>1. CASE i <= top[o]
        <4>1. stack[o][i] \in Children(o)
          BY <1>5, <2>0, <3>1 DEF Children, StackChildren
        <4>2. stack'[o][i] = stack[o][i]
          BY <1>2, <1>5, <3>1
        <4> QED
          BY <4>1, <4>2, TraversesFacts DEF Settled
      <3>2. CASE ~(i <= top[o])
        BY <1>2, <1>5, <3>2 DEF Settled
      <3> QED
        BY <3>1, <3>2
    <2>2. ASSUME NEW uv \in openupval'[o] PROVE Dark(uv)' /\ uv \in markedopen'
      <3>1. uv \in Children(o) /\ uv \in UpVal /\ uv # Nil
        BY <1>1, <1>5, <2>0, HeapAssumption, KindTypes DEF Children, StackChildren, UpvalType
      <3> QED
        BY <1>1, <1>5, <3>1, TraversesFacts DEF Settled, MarkedopenAfter
    <2> QED
      BY <1>5, <2>1, <2>2 DEF Swept
  <1>6. ASSUME NEW uv \in markedopen' PROVE uv \in uvhead /\ Dark(upthread[uv])'
    <2>1. CASE uv \in markedopen
      <3>1. uv \in UpVal /\ SafeInv /\ keepinvariant
        BY <1>1, <2>1 DEF UpvalType, Traverses
      <3>2. uv \in uvhead /\ Dark(upthread[uv])
        BY <2>1, <3>1 DEF SafeInv, ObjectsSafe, UpvalSafe
      <3>3. \A x : Dark(x) => Dark(x)'
        BY <3>1, TraversesFacts, MarksFacts DEF Dark, IsWhite
      <3> QED
        BY <1>1, <3>2, <3>3 DEF Dark
    <2>2. CASE o \in Thread /\ uv \in openupval[o]
      <3>1. uv \in uvhead /\ upthread[uv] = o
        BY <1>1, <2>2 DEF Traverses, SafeInv, ObjectsSafe, ThreadSafe
      <3> QED
        BY <1>1, <3>1, TraversesFacts DEF Dark
    <2> QED
      BY <1>1, <1>6, <2>1, <2>2 DEF MarkedopenAfter
  <1> QED
    BY <1>3, <1>4, <1>5, <1>6

LEMMA TraversesMarks ==
  ASSUME NEW o, Traverses(o)
  PROVE  Marking
  <1>1. ASSUME colour'[o] = "black" PROVE Traversed(o)'
    <2>1. CASE o \in Table
      BY <1>1, <2>1, TraversedTable
    <2>2. CASE o \in Thread
      <3>1. ~Active(o) /\ o \notin Table /\ o \notin Closure
        BY <1>1, <2>2, TraversesFacts, HeapAssumption DEF StaysGray
      <3> QED
        BY <2>2, <3>1, TraversedThread DEF Traversed
    <2>3. CASE o \in Closure
      <3>1. o \notin Table /\ o \notin Thread
        BY <2>3, HeapAssumption
      <3>2. uprefs[o] \in Children(o) /\ uprefs'[o] = uprefs[o]
        BY <3>1 DEF Children, Traverses, propagatemark
      <3>3. Settled(uprefs[o])'
        BY <3>2, TraversesFacts DEF Settled
      <3> QED
        BY <3>1, <3>3 DEF Traversed
    <2> QED
      BY <2>1, <2>2, <2>3, TraversesFacts DEF Gclist
  <1>2. \E F, S : Marks(F, S) /\ \A x \in F : colour'[x] = "black" => Traversed(x)'
    <2>1. \A x \in {o} : colour'[x] = "black" => Traversed(x)'
      BY <1>1
    <2>2. PICK F, S : F = {o} /\ S = Children(o)
      OBVIOUS
    <2>3. Marks(F, S)
      BY <2>2, TraversesFacts
    <2> QED
      BY <2>1, <2>2, <2>3
  <1>3. SafeInv /\ ColourInv' /\ gcstate # "sweep" /\ keepinvariant'
    BY TraversesFacts DEF Traverses
  <1>4. UNCHANGED <<metatable, top, openupval, uvhead, upthread, uplevel, upvalue, uprefs,
                    ref_array, mt, sched>>
    BY DEF Traverses, propagatemark
  <1> QED
    BY <1>2, <1>3, <1>4, TraversedTable, TraversedThread DEF Marking

LEMMA PropagateSafe ==
  SafeInv /\ (GcPropagate \/ GcPropagateagain \/ AtomicPropagate) => SafeInv'
  <1> SUFFICES ASSUME SafeInv, GcPropagate \/ GcPropagateagain \/ AtomicPropagate
               PROVE  SafeInv'
    OBVIOUS
  <1>1. ColourInv' /\ keepinvariant /\ keepinvariant' /\ UNCHANGED gc_ref_gray
    BY CollectorColours DEF SafeInv, GcStep, GcPropagate, GcPropagateagain, AtomicPropagate,
       ColourInv, AtomicPhase, keepinvariant, phase
  <1>2. PICK o \in gray :
          /\ propagatemark(o)
          /\ atomicpc' # "none" => /\ atomicpc' = atomicpc /\ gcstate = "atomic"
                                   /\ grayagain' = GrayagainAfter(o)
    <2>1. CASE GcPropagate \/ GcPropagateagain
      <3>1. atomicpc' = "none"
        BY <2>1 DEF GcPropagate, GcPropagateagain, SafeInv, ColourInv, AtomicPhase
      <3> QED
        BY <2>1, <3>1 DEF GcPropagate, GcPropagateagain
    <2>2. CASE AtomicPropagate
      BY <2>2 DEF AtomicPropagate, phase, SafeInv, ColourInv, AtomicPhase
    <2> QED
      BY <2>1, <2>2
  <1>3. Traverses(o)
    BY <1>1, <1>2 DEF Traverses
  <1>4. Marking
    BY <1>3, TraversesMarks
  <1>5. /\ weak' = WeakAfter(o)
        /\ UNCHANGED <<ref_array, mt, metatable, openupval>>
    BY <1>2 DEF propagatemark
  <1>6. Dark(MainThread)' /\ (gc_ref_gray' \/ \A r \in RefId : Settled(ref_array[r])')
    <2>1. RootsSafe
      BY DEF SafeInv
    <2> QED
      BY <1>1, <1>4, <1>5, <2>1, MarkingFacts DEF RootsSafe, Settled
  <1>7. ASSUME atomicpc' # "none" PROVE AtomicMarks'
    <2>1. AtomicMarks /\ atomicpc' = atomicpc /\ gcstate = "atomic" /\ grayagain' = GrayagainAfter(o)
      BY <1>2, <1>7 DEF SafeInv
    <2>2. \A uv \in UpVal : colour'[uv] = "gray" => Settled(UpValue(uv))'
      BY <1>4, <1>7, <2>1, MarkingFacts, GrayUpvals DEF AtomicMarks
    <2>3. ASSUME atomicpc \in {"weak", "again", "refs"}
          PROVE  (\A b \in BasicType : Settled(mt[b])') /\ (\A t \in weak' : Settled(metatable[t])')
      <3>1. \A b \in BasicType : Settled(mt[b])'
        BY <1>4, <1>5, <2>1, <2>3, MarkingFacts DEF AtomicMarks, Settled
      <3>2. \A t \in weak : Settled(metatable[t])'
        BY <1>4, <1>5, <2>1, <2>3, MarkingFacts DEF AtomicMarks, Settled
      <3>3. \A t \in weak' : t \in weak \/ (t = o /\ o \in Table)
        BY <1>5 DEF WeakAfter
      <3> QED
        BY <1>3, <3>1, <3>2, <3>3, TraversedTable
    <2>4. ASSUME atomicpc \in {"again", "refs"}
          PROVE  \A th \in grayagain' : Swept(th)'
      <3>1. ASSUME NEW th \in grayagain PROVE Swept(th)'
        <4>1. Swept(th)
          BY <2>1, <2>4 DEF AtomicMarks
        <4>2. Slots1(th) /\ markedopen \subseteq markedopen'
          BY <1>3, <4>1, TraversedThread DEF Swept
        <4>3. \A i \in Slot : Settled(stack[th][i])'
          BY <1>4, <4>1, <4>2, MarkingFacts DEF Swept, Slots1, Settled
        <4> QED
          BY <1>4, <1>5, <4>1, <4>2, <4>3, MarkingFacts DEF Swept
      <3>2. \A th \in grayagain' : th \in grayagain \/ (th = o /\ o \in Thread)
        BY <2>1 DEF GrayagainAfter
      <3> QED
        BY <1>3, <2>1, <3>1, <3>2, TraversedThread
    <2>5. atomicpc = "refs" => ~gc_ref_gray'
      BY <1>1, <2>1 DEF AtomicMarks
    <2> QED
      BY <2>1, <2>2, <2>3, <2>4, <2>5 DEF AtomicMarks
  <1>8. AtomicMarks'
    BY <1>7 DEF AtomicMarks
  <1> QED
    BY <1>4, <1>6, <1>8, MarkingSafe
-----------------------------------------------------------------------------
(* The end of atomic(): what is marked is all that survives.                 *)

\* Nothing is left to traverse: a gray object is a weak table or a thread that
\* atomic() has swept.
LEMMA GrayAtEnd ==
  ASSUME SafeInv, atomicpc = "refs", gray = {}
  PROVE  /\ ColourInv /\ keepinvariant /\ gcstate = "atomic"
         /\ \A o \in Gclist : Dark(o) => \/ Black(o)
                                         \/ o \in weak /\ o \in Table
                                         \/ o \in Thread /\ Swept(o)
         /\ \A o \in Gclist : o \in weak => colour[o] = "gray"
         /\ \A o \in Obj : Dark(o) => colour[o] \in {"gray", "black"}
         /\ \A x : x \in heap => Live(x)
  <1>1. ColourInv /\ gcstate = "atomic" /\ keepinvariant /\ weak \subseteq Table
        /\ colour \in [Obj -> Colour]
    BY DEF SafeInv, ColourInv, AtomicPhase, keepinvariant, TypeInv, TypeOK, ColourType
  <1>2. \A o \in Obj : Dark(o) => colour[o] \in {"gray", "black"}
    BY <1>1 DEF Dark, IsWhite, heap, Colour
  <1>3. \A o \in Gclist : colour[o] = "gray" <=> o \in gray \cup grayagain \cup weak
    BY <1>1, GrayListsListed DEF ColourInv, Listed, SafeInv
  <1>4. \A th \in grayagain : Swept(th) /\ th \in Thread
    BY DEF SafeInv, AtomicMarks, Swept
  <1>5. \A x : x \in heap => Live(x)
    BY <1>1, AllLive
  <1> QED
    BY <1>1, <1>2, <1>3, <1>4, <1>5, KindTypes DEF Black

\* The value behind a gray upvalue is marked, so closing one marks nothing.
LEMMA GrayUpvalSettled ==
  ASSUME SafeInv, atomicpc = "refs", NEW uv \in UpVal, colour[uv] = "gray"
  PROVE  Settled(UpValue(uv))
  BY DEF SafeInv, AtomicMarks

LEMMA FinishColours ==
  ASSUME SafeInv, AtomicFinish
  PROVE  /\ ColourInv' /\ heap' = heap
         /\ \A x \in Obj : colour'[x] = IF x \in ToClose \cup WeakStrings THEN "black" ELSE colour[x]
         /\ \A x : Dark(x) => Live(x)'
         /\ \A x \in WeakStrings : Live(x)'
         /\ \A x \in Obj : Live(x)' => Dark(x) \/ x \in Str
         /\ ~keepinvariant'
         /\ ToClose \subseteq UpVal \cap heap /\ WeakStrings \subseteq Str \cap heap
  <1> USE WhiteDistinct
  <1> DEFINE closed == [o \in Obj |-> IF o \in ToClose \cup WeakStrings THEN "black"
                                      ELSE colour[o]]
             V == {UpValue(uv) : uv \in ToClose}
  <1>0. /\ ColourInv /\ keepinvariant /\ colour \in [Obj -> Colour] /\ currentwhite \in White
        /\ TypeInv /\ UpvalType /\ RootsSafe /\ gcstate = "atomic"
    BY GrayAtEnd DEF AtomicFinish, SafeInv, ColourInv, TypeInv, TypeOK, ColourType, PhaseType
  <1>1. /\ colour' = Marked(closed, Reached(closed, V)) /\ currentwhite' = otherwhite
        /\ gcstate' = "sweep"
    BY DEF AtomicFinish
  <1>2. ToClose \subseteq UpVal \cap heap /\ WeakStrings \subseteq Str \cap heap
    BY <1>0, KindTypes DEF ToClose, Orphans, WeakStrings, heap, UpvalType
  <1>3. ASSUME NEW v \in V PROVE ~(v \in Obj /\ IsWhite(closed, v))
    <2>1. Settled(v)
      BY <1>2, GrayUpvalSettled DEF AtomicFinish, ToClose
    <2> QED
      BY <2>1, HeapAssumption DEF Settled, Dark, IsWhite
  <1>4. Reached(closed, V) = {}
    <2>1. {o \in V \cap Obj : IsWhite(closed, o)} = {}
      BY <1>3
    <2> HIDE DEF closed, V
    <2> QED
      BY <2>1 DEF Reached
  <1>5. \A x \in Obj : colour'[x] = IF x \in ToClose \cup WeakStrings THEN "black" ELSE colour[x]
    BY <1>1, <1>4 DEF Marked
  <1>6. heap' = heap
    BY <1>2, <1>5 DEF heap
  <1>7. ColourInv'
    BY CollectorColours DEF SafeInv, GcStep
  <1>8. otherwhite' = currentwhite
    BY <1>0, <1>1 DEF otherwhite, White
  <1>9. \A x : Dark(x) => Live(x)'
    BY <1>0, <1>5, <1>6, <1>8 DEF Dark, IsWhite, Live, isdead, heap
  <1>10. \A x \in WeakStrings : Live(x)'
    BY <1>0, <1>2, <1>5, <1>6, <1>8 DEF Live, isdead, heap
  <1>11. ASSUME NEW x \in Obj, Live(x)', x \notin Str PROVE Dark(x)
    <2>1. x \in heap /\ (x # MainThread => colour'[x] # currentwhite /\ ~isdead(x))
      BY <1>0, <1>6, <1>8, <1>11 DEF Live, isdead, ColourInv, DeadOnlyInSweep
    <2>2. CASE x = MainThread
      BY <1>0, <2>2 DEF RootsSafe
    <2>3. CASE x \in ToClose
      BY <2>1, <2>3 DEF Dark, IsWhite, ToClose
    <2>4. CASE x # MainThread /\ x \notin ToClose
      <3>1. colour'[x] = colour[x]
        BY <1>2, <1>5, <1>11, <2>4
      <3> QED
        BY <1>0, <2>1, <2>4, <3>1 DEF Dark, IsWhite, isdead, otherwhite
    <2> QED
      BY <2>2, <2>3, <2>4
  <1>12. ~keepinvariant'
    BY <1>1 DEF keepinvariant
  <1> QED
    BY <1>2, <1>5, <1>6, <1>7, <1>9, <1>10, <1>11, <1>12

LEMMA FinishTables ==
  ASSUME SafeInv, AtomicFinish
  PROVE  /\ \A t \in Table : TableSafe(t)'
         /\ \A u \in Udata : UdataSafe(u)'
         /\ \A cl \in Closure : ClosureSafe(cl)'
  <1>0. /\ atomicpc = "refs" /\ gray = {} /\ node' = cleartable /\ UNCHANGED <<metatable, uprefs>>
        /\ TableType /\ ~keepinvariant' /\ heap' = heap
    BY FinishColours DEF AtomicFinish, SafeInv, ColourInv, TypeInv, TypeOK
  <1>1. \A x : Settled(x) => Ok(x)'
    BY FinishColours DEF Settled, Ok
  <1>2. ASSUME NEW t \in Table PROVE TableSafe(t)'
    <2>0. t \in Gclist /\ t \in Obj /\ t \notin Str /\ t \notin Thread /\ TableSafe(t)
      BY KindTypes, KindsApart, HeapAssumption DEF SafeInv, ObjectsSafe
    <2>1. t \notin weak => node'[t] = node[t]
      BY <1>0 DEF cleartable
    <2>2. t \in weak => Dark(t)
      BY <1>0, <2>0, GrayAtEnd, BlackIsLive
    <2>3. t \notin heap' => node'[t] = EmptyNodes /\ metatable'[t] = Nil
      BY <1>0, <2>0, <2>1, <2>2 DEF TableSafe, Dark
    <2>4. ASSUME Live(t)'
          PROVE  /\ Ok(metatable[t])'
                 /\ \A n \in Node : node[t][n].val' # Nil => Ok(node[t][n].key)' /\ Ok(node[t][n].val)'
      <3>1. Dark(t) /\ Live(t)
        BY <2>0, <2>4, FinishColours, GrayAtEnd, <1>0 DEF Dark
      <3>2. CASE Black(t)
        <4>1. t \notin weak
          BY <1>0, <2>0, <3>2, GrayAtEnd DEF Black
        <4>2. \A n \in Node : node[t][n].val # Nil =>
                                Settled(node[t][n].key) /\ Settled(node[t][n].val)
          <5> SUFFICES ASSUME NEW n \in Node, node[t][n].val # Nil
                       PROVE  Settled(node[t][n].key) /\ Settled(node[t][n].val)
            OBVIOUS
          <5>1. node[t][n].key # DeadKey
            BY <1>0 DEF TableType, Entries
          <5> QED
            BY <2>0, <3>2, <5>1 DEF TableSafe
        <4> QED
          BY <1>0, <1>1, <2>0, <2>1, <3>2, <4>1, <4>2 DEF TableSafe, Ok
      <3>3. CASE t \in weak
        <4>1. Ok(metatable[t])'
          BY <1>0, <1>1, <3>3 DEF SafeInv, AtomicMarks, Ok
        <4>2. ASSUME NEW n \in Node, node'[t][n].val # Nil
              PROVE  Ok(node[t][n].key)' /\ Ok(node[t][n].val)'
          <5>0. PICK e : e = node[t][n]
            OBVIOUS
          <5>1. e \in [key : Key \cup {Nil, DeadKey}, val : Value \cup {Nil}]
                /\ (e.key = DeadKey => e.val = Nil)
            BY <1>0, <5>0 DEF TableType, Entries
          <5>2. node'[t][n] = IF e.val # Nil /\ (IsCleared(e.key) \/ IsCleared(e.val))
                              THEN RemoveEntry([e EXCEPT !.val = Nil]) ELSE e
            BY <1>0, <3>3, <5>0 DEF cleartable
          <5>3. RemoveEntry([e EXCEPT !.val = Nil]).val = Nil
            BY <5>1 DEF RemoveEntry
          <5>4. node'[t][n] = e /\ e.val # Nil /\ ~IsCleared(e.key) /\ ~IsCleared(e.val)
                /\ e.key # DeadKey
            BY <4>2, <5>1, <5>2, <5>3
          <5>5. Ok(e.key) /\ Ok(e.val)
            BY <2>0, <3>1, <5>0, <5>4 DEF TableSafe
          <5>6. ASSUME NEW x \in {e.key, e.val} PROVE Ok(x)'
            <6>1. CASE x \in Str
              <7>1. x \in heap /\ x \in Str
                BY <5>5, <6>1, HeapAssumption, KindTypes DEF Ok, Live
              <7>2. x \in WeakStrings
                BY <3>3, <5>0, <5>4, <7>1 DEF WeakStrings
              <7> QED
                BY <7>2, FinishColours DEF Ok
            <6>2. CASE x \notin Str
              <7>1. x = Nil \/ (x \in heap /\ x \in Obj)
                BY <5>5 DEF Ok, Live, heap
              <7>2. Settled(x)
                BY <5>4, <6>2, <7>1 DEF IsCleared, Settled, Dark
              <7> QED
                BY <1>1, <7>2
            <6> QED
              BY <6>1, <6>2
          <5> QED
            BY <5>4, <5>6 DEF Ok
        <4> QED
          BY <4>1, <4>2
      <3> QED
        BY <1>0, <2>0, <3>1, <3>2, <3>3, GrayAtEnd
    <2> QED
      BY <1>0, <2>3, <2>4 DEF TableSafe, Black
  <1>3. ASSUME NEW u \in Udata PROVE UdataSafe(u)'
    <2>0. u \in Obj /\ u \notin Str /\ u \notin Gclist /\ UdataSafe(u)
      BY KindTypes, KindsApart, HeapAssumption DEF SafeInv, ObjectsSafe
    <2>1. ASSUME Live(u)' PROVE Ok(metatable[u])'
      <3>1. Dark(u)
        BY <2>0, <2>1, FinishColours
      <3>2. Black(u)
        BY <1>0, <2>0, <3>1, GrayAtEnd DEF Black, ColourInv, ColourDiscipline, Dark
      <3> QED
        BY <1>0, <1>1, <2>0, <3>2 DEF UdataSafe, Ok
    <2> QED
      BY <1>0, <2>0, <2>1 DEF UdataSafe, Black
  <1>4. ASSUME NEW cl \in Closure PROVE ClosureSafe(cl)'
    <2>0. cl \in Obj /\ cl \notin Str /\ cl \in Gclist /\ cl \notin Thread /\ cl \notin Table
          /\ ClosureSafe(cl)
      BY KindTypes, KindsApart, HeapAssumption DEF SafeInv, ObjectsSafe
    <2>1. ASSUME Live(cl)' PROVE Ok(uprefs[cl])'
      <3>1. Dark(cl)
        BY <2>0, <2>1, FinishColours
      <3>2. Black(cl)
        BY <1>0, <2>0, <3>1, GrayAtEnd
      <3> QED
        BY <1>0, <1>1, <2>0, <3>2 DEF ClosureSafe, Ok
    <2> QED
      BY <1>0, <2>0, <2>1 DEF ClosureSafe, Black
  <1> QED
    BY <1>2, <1>3, <1>4

LEMMA FinishThreads ==
  ASSUME SafeInv, AtomicFinish
  PROVE  \A th \in Thread : ThreadSafe(th)'
  <1>0. /\ atomicpc = "refs" /\ gray = {} /\ UNCHANGED <<stack, openupval>>
        /\ uvhead' = uvhead \ Orphans /\ UpvalType /\ ~keepinvariant' /\ heap' = heap
        /\ upthread' = [uv \in UpVal |-> IF uv \in ToClose THEN Nil ELSE upthread[uv]]
    BY FinishColours DEF AtomicFinish, SafeInv, ColourInv, TypeInv, TypeOK, stacks
  <1>1. \A x : Settled(x) => Ok(x)'
    BY FinishColours DEF Settled, Ok
  <1> SUFFICES ASSUME NEW th \in Thread PROVE ThreadSafe(th)'
    OBVIOUS
  <1>2. th \in Obj /\ th \notin Str /\ th \in Gclist /\ th \notin Table /\ ThreadSafe(th) /\ th # Nil
    BY KindTypes, KindsApart, HeapAssumption DEF SafeInv, ObjectsSafe
  <1>3. ASSUME Live(th)'
        PROVE  /\ \A i \in Slot : Ok(stack[th][i])'
               /\ \A uv \in openupval[th] : Live(uv)' /\ uv \in uvhead' /\ upthread'[uv] = th
    <2>1. Dark(th) /\ Live(th)
      BY <1>0, <1>2, <1>3, FinishColours, GrayAtEnd DEF Dark
    <2>2. \A uv \in openupval[th] : uv \in UpVal /\ uv \in uvhead /\ upthread[uv] = th
      BY <1>0, <1>2, <2>1 DEF ThreadSafe, UpvalType
    <2>3. /\ \A i \in Slot : Settled(stack[th][i])
          /\ \A uv \in openupval[th] : Dark(uv) /\ uv \in markedopen
      <3>1. CASE Black(th)
        <4>1. ASSUME NEW i \in Slot, Shared(th, i) PROVE Settled(stack[th][i])
          <5>1. PICK uv \in openupval[th] : uplevel[uv] = i /\ colour[uv] = "gray"
            BY <4>1 DEF Shared
          <5>2. UpValue(uv) = stack[th][i]
            BY <1>2, <2>2, <5>1 DEF UpValue, upisopen
          <5>3. Settled(UpValue(uv))
            BY <1>0, <2>2, <5>1, GrayUpvalSettled
          <5> QED
            BY <5>2, <5>3
        <4> QED
          BY <1>2, <3>1, <4>1 DEF ThreadSafe
      <3>2. CASE Swept(th)
        BY <3>2 DEF Swept
      <3> QED
        BY <1>0, <1>2, <2>1, <3>1, <3>2, GrayAtEnd
    <2>4. \A i \in Slot : Ok(stack[th][i])'
      BY <1>0, <1>1, <2>3 DEF Ok
    <2>5. \A uv \in openupval[th] : Live(uv)' /\ uv \in uvhead' /\ upthread'[uv] = th
      BY <1>0, <2>2, <2>3, FinishColours DEF Orphans, ToClose
    <2> QED
      BY <2>4, <2>5
  <1> QED
    BY <1>0, <1>2, <1>3 DEF ThreadSafe, Black

LEMMA FinishUpvals ==
  ASSUME SafeInv, AtomicFinish
  PROVE  markedopen' = {} /\ \A uv \in UpVal : UpvalSafe(uv)'
  <1>0. /\ atomicpc = "refs" /\ gray = {} /\ UNCHANGED openupval
        /\ uvhead' = uvhead \ Orphans /\ UpvalType /\ ~keepinvariant' /\ heap' = heap
        /\ upthread' = [uv \in UpVal |-> IF uv \in ToClose THEN Nil ELSE upthread[uv]]
        /\ upvalue' = [uv \in UpVal |-> IF uv \in ToClose THEN UpValue(uv) ELSE upvalue[uv]]
        /\ markedopen' = markedopen \ uvhead /\ ColourInv /\ keepinvariant
    BY FinishColours, GrayAtEnd DEF AtomicFinish, SafeInv, ColourInv, TypeInv, TypeOK
  <1>1. \A x : Settled(x) => Ok(x)'
    BY FinishColours DEF Settled, Ok
  <1>2. markedopen' = {}
    BY <1>0 DEF SafeInv, ObjectsSafe, UpvalSafe, UpvalType
  <1>3. ASSUME NEW uv \in UpVal PROVE UpvalSafe(uv)'
    <2>0. uv \in Obj /\ uv \notin Str /\ UpvalSafe(uv)
      BY KindTypes, KindsApart, HeapAssumption DEF SafeInv, ObjectsSafe
    <2>1. uv \notin heap' => upthread'[uv] = Nil /\ upvalue'[uv] = Nil
      BY <1>0, <2>0, FinishColours DEF UpvalSafe
    <2>2. ASSUME Live(uv)' PROVE IF upisopen(uv)' THEN uv \in uvhead' ELSE Ok(upvalue[uv])'
      <3>1. Dark(uv) /\ Live(uv) /\ uv \in heap /\ colour[uv] \in {"gray", "black"}
        BY <1>0, <2>0, <2>2, FinishColours, GrayAtEnd DEF Dark
      <3>2. upisopen(uv) <=> colour[uv] = "gray"
        BY <1>0, <3>1 DEF ColourInv, ColourDiscipline
      <3>3. CASE uv \in ToClose
        <4>1. PICK v : v = UpValue(uv)
          OBVIOUS
        <4>2. upvalue'[uv] = v /\ ~upisopen(uv)' /\ Settled(v)
          BY <1>0, <3>3, <4>1, GrayUpvalSettled DEF upisopen, ToClose
        <4> QED
          BY <1>1, <4>2 DEF Ok
      <3>4. CASE uv \notin ToClose /\ upisopen(uv)
        <4>1. uv \in uvhead /\ uv \notin Orphans
          BY <2>0, <3>1, <3>2, <3>4 DEF UpvalSafe, ToClose
        <4> QED
          BY <1>0, <3>4, <4>1 DEF upisopen
      <3>5. CASE uv \notin ToClose /\ ~upisopen(uv)
        <4>1. Settled(upvalue[uv])
          BY <1>0, <2>0, <3>1, <3>2, <3>5 DEF UpvalSafe, Black
        <4> QED
          BY <1>0, <1>1, <3>5, <4>1 DEF upisopen, Ok
      <3> QED
        BY <3>3, <3>4, <3>5
    <2>3. ASSUME uv \in uvhead'
          PROVE  /\ upthread'[uv] \in Thread /\ Live(upthread[uv])'
                 /\ uv \in openupval'[upthread'[uv]]
      <3>1. uv \in uvhead /\ uv \in markedopen /\ uv \notin ToClose
        BY <1>0, <2>3 DEF Orphans, ToClose
      <3>2. PICK th : th = upthread[uv]
        OBVIOUS
      <3>3. Dark(th) /\ th \in Thread /\ uv \in openupval[th] /\ upthread'[uv] = th
        BY <1>0, <2>0, <3>1, <3>2 DEF UpvalSafe
      <3>4. Live(th)'
        BY <3>3, FinishColours
      <3> QED
        BY <1>0, <3>3, <3>4 DEF Live
    <2> QED
      BY <1>0, <1>2, <2>1, <2>2, <2>3 DEF UpvalSafe, Black
  <1> QED
    BY <1>2, <1>3
\* The threads that wait for others: each is kept by its resumer, up to the main
\* thread.
LEMMA ActiveIsDark ==
  ASSUME SafeInv, atomicpc = "refs", gray = {}
  PROVE  \A th \in isactive : Dark(th)
  <1> DEFINE W == {th \in isactive : ~Dark(th)}
  <1> SUFFICES ASSUME W # {} PROVE FALSE
    OBVIOUS
  <1>0. Waiting /\ TypeInv /\ StackType /\ SchedType /\ RootsSafe /\ ColourInv /\ keepinvariant
    BY GrayAtEnd DEF SafeInv, ColourInv, TypeInv, TypeOK
  <1>1. PICK co \in W : caller[co] \notin W
    BY <1>0 DEF Waiting
  <1>2. PICK th : th = caller[co]
    OBVIOUS
  <1>3. th \in isactive \cup {MainThread} /\ th \in Thread
    BY <1>0, <1>1, <1>2, HeapAssumption DEF TypeInv, Chain, SchedType
  <1>4. Dark(th) /\ Active(th) /\ th \in heap
    BY <1>0, <1>1, <1>2, <1>3 DEF RootsSafe, Active, Dark
  <1>5. ~Black(th) /\ th \in Gclist /\ th \notin Table
    BY <1>0, <1>3, <1>4, KindTypes, HeapAssumption DEF ColourInv, ColourDiscipline, Black
  <1>6. Swept(th)
    BY <1>4, <1>5, GrayAtEnd
  <1>7. PICK i \in 1..top[th] : stack[th][i] = co
    BY <1>0, <1>1, <1>2 DEF Waiting, Waits
  <1>8. i \in Slot
    BY <1>0, <1>3, <1>7, HeapAssumption DEF StackType, Slot
  <1>9. co # Nil
    BY <1>0, <1>1, HeapAssumption, KindTypes DEF SchedType
  <1> QED
    BY <1>1, <1>6, <1>7, <1>8, <1>9 DEF Swept, Settled

LEMMA FinishSafe == SafeInv /\ AtomicFinish => SafeInv'
  <1> SUFFICES ASSUME SafeInv, AtomicFinish PROVE SafeInv'
    OBVIOUS
  <1>0. /\ atomicpc = "refs" /\ gray = {} /\ atomicpc' = "none" /\ ~keepinvariant' /\ ColourInv'
        /\ UNCHANGED <<stack, top, openupval, ref_array, mt, isactive, caller>>
        /\ uplevel' = [uv \in UpVal |-> IF uv \in ToClose THEN 0 ELSE uplevel[uv]]
        /\ UpvalType /\ Waiting /\ RootsSafe /\ keepinvariant
    BY FinishColours, GrayAtEnd
       DEF AtomicFinish, stacks, roots, sched, SafeInv, ColourInv, TypeInv, TypeOK
  <1>1. ObjectsSafe' /\ markedopen' = {}
    BY FinishTables, FinishThreads, FinishUpvals DEF ObjectsSafe
  <1>2. RootsSafe'
    <2>1. \A x : Settled(x) => Ok(x)'
      BY FinishColours DEF Settled, Ok
    <2>2. Live(MainThread)' /\ \A th \in isactive' : Live(th)'
      BY <1>0, FinishColours, ActiveIsDark DEF RootsSafe
    <2>3. \A r \in RefId : Ok(ref_array[r])'
      BY <1>0, <2>1 DEF SafeInv, RootsSafe, AtomicMarks, Ok
    <2>4. \A b \in BasicType : Ok(mt[b])'
      BY <1>0, <2>1 DEF SafeInv, AtomicMarks, Ok
    <2> QED
      BY <1>0, <2>2, <2>3, <2>4 DEF RootsSafe
  <1>3. Waiting'
    <2>1. ASSUME NEW co \in isactive PROVE Waits(co)'
      <3>1. PICK th : th = caller[co]
        OBVIOUS
      <3>2. PICK i \in 1..top[th] : stack[th][i] = co /\ \A uv \in openupval[th] : uplevel[uv] # i
        BY <1>0, <3>1 DEF Waiting, Waits
      <3>3. th \in Thread
        BY <3>1, HeapAssumption DEF SafeInv, ColourInv, TypeInv, TypeOK, SchedType, Chain
      <3>4. \A uv \in openupval[th] : uv \in UpVal
        BY <1>0, <3>3 DEF UpvalType
      <3>5. \A uv \in openupval[th] : uplevel'[uv] # i
        BY <1>0, <3>2, <3>4
      <3> QED
        BY <1>0, <3>1, <3>2, <3>5 DEF Waits
    <2> QED
      BY <1>0, <2>1 DEF Waiting
  <1>4. BitsReset' /\ AtomicMarks'
    BY <1>0, <1>1 DEF BitsReset, AtomicMarks
  <1> QED
    BY <1>0, <1>1, <1>2, <1>3, <1>4 DEF SafeInv

-----------------------------------------------------------------------------
(* The sweep: dead objects go, and no live one refers to them.               *)

\* The objects of gone are freed and the others keep their fields.
Frees(gone) ==
  /\ SafeInv /\ ~keepinvariant'
  /\ \A x : Live(x)' <=> Live(x)
  /\ heap' = heap \ gone
  /\ \A x \in gone : ~Live(x)
  /\ \A t \in Table : IF t \in gone THEN node'[t] = EmptyNodes /\ metatable'[t] = Nil
                      ELSE node'[t] = node[t] /\ metatable'[t] = metatable[t]
  /\ \A u \in Udata : metatable'[u] = IF u \in gone THEN Nil ELSE metatable[u]
  /\ \A cl \in Closure : uprefs'[cl] = IF cl \in gone THEN Nil ELSE uprefs[cl]
  /\ \A th \in Thread :
       IF th \in gone THEN stack'[th] = EmptyStack /\ openupval'[th] = {}
       ELSE stack'[th] = stack[th] /\ openupval'[th] = openupval[th] /\ top'[th] = top[th]
  /\ \A uv \in UpVal :
       IF uv \in gone THEN upthread'[uv] = Nil /\ upvalue'[uv] = Nil
       ELSE /\ upthread'[uv] = upthread[uv] /\ upvalue'[uv] = upvalue[uv]
            /\ uplevel'[uv] = uplevel[uv]
  /\ markedopen' \subseteq markedopen
  /\ UNCHANGED <<uvhead, ref_array, mt, sched>>

LEMMA FreesSafe ==
  ASSUME NEW gone, Frees(gone)
  PROVE  ObjectsSafe' /\ RootsSafe' /\ Waiting'
  <1>0. /\ SafeInv /\ ~keepinvariant' /\ heap' = heap \ gone /\ UpvalType /\ ObjectsSafe
        /\ \A x : (Live(x)' <=> Live(x)) /\ (Live(x) => x \notin gone)
        /\ \A x : Ok(x) => Ok(x)'
        /\ \A o : ~Black(o)'
    BY DEF Frees, Ok, SafeInv, ColourInv, TypeInv, TypeOK, Black
  <1>1. ASSUME NEW t \in Table PROVE TableSafe(t)'
    <2>1. TableSafe(t) /\ IF t \in gone THEN node'[t] = EmptyNodes /\ metatable'[t] = Nil
                          ELSE node'[t] = node[t] /\ metatable'[t] = metatable[t]
      BY <1>0 DEF Frees, ObjectsSafe
    <2>2. t \notin heap' => node'[t] = EmptyNodes /\ metatable'[t] = Nil
      BY <1>0, <2>1 DEF TableSafe
    <2>3. Live(t)' => /\ Ok(metatable[t])'
                      /\ \A n \in Node : node[t][n].val' # Nil =>
                           Ok(node[t][n].key)' /\ Ok(node[t][n].val)'
      BY <1>0, <2>1 DEF TableSafe, Ok
    <2> QED
      BY <1>0, <2>2, <2>3 DEF TableSafe
  <1>2. ASSUME NEW u \in Udata PROVE UdataSafe(u)'
    <2>1. UdataSafe(u) /\ metatable'[u] = IF u \in gone THEN Nil ELSE metatable[u]
      BY <1>0 DEF Frees, ObjectsSafe
    <2> QED
      BY <1>0, <2>1 DEF UdataSafe, Ok
  <1>3. ASSUME NEW cl \in Closure PROVE ClosureSafe(cl)'
    <2>1. ClosureSafe(cl) /\ uprefs'[cl] = IF cl \in gone THEN Nil ELSE uprefs[cl]
      BY <1>0 DEF Frees, ObjectsSafe
    <2> QED
      BY <1>0, <2>1 DEF ClosureSafe, Ok
  <1>4. ASSUME NEW th \in Thread PROVE ThreadSafe(th)'
    <2>1. /\ ThreadSafe(th) /\ UNCHANGED uvhead
          /\ IF th \in gone THEN stack'[th] = EmptyStack /\ openupval'[th] = {}
             ELSE stack'[th] = stack[th] /\ openupval'[th] = openupval[th]
      BY <1>0 DEF Frees, ObjectsSafe
    <2>2. th \notin heap' => stack'[th] = EmptyStack /\ openupval'[th] = {}
      BY <1>0, <2>1 DEF ThreadSafe
    <2>3. ASSUME Live(th)'
          PROVE  /\ \A i \in Slot : Ok(stack[th][i])'
                 /\ \A uv \in openupval'[th] : Live(uv)' /\ uv \in uvhead' /\ upthread'[uv] = th
      <3>1. Live(th) /\ th \notin gone
        BY <1>0, <2>3
      <3>2. \A uv \in openupval[th] : uv \in UpVal /\ Live(uv) /\ uv \in uvhead /\ upthread[uv] = th
        BY <1>0, <2>1, <3>1 DEF ThreadSafe, UpvalType
      <3>3. \A uv \in openupval[th] : upthread'[uv] = th
        BY <1>0, <3>2 DEF Frees
      <3> QED
        BY <1>0, <2>1, <3>1, <3>2, <3>3 DEF ThreadSafe, Ok
    <2> QED
      BY <1>0, <2>2, <2>3 DEF ThreadSafe
  <1>5. ASSUME NEW uv \in UpVal PROVE UpvalSafe(uv)'
    <2>1. /\ UpvalSafe(uv) /\ UNCHANGED uvhead /\ markedopen' \subseteq markedopen
          /\ IF uv \in gone THEN upthread'[uv] = Nil /\ upvalue'[uv] = Nil
             ELSE upthread'[uv] = upthread[uv] /\ upvalue'[uv] = upvalue[uv]
      BY <1>0 DEF Frees, ObjectsSafe
    <2>2. uv \notin heap' => upthread'[uv] = Nil /\ upvalue'[uv] = Nil
      BY <1>0, <2>1 DEF UpvalSafe
    <2>3. Live(uv)' => IF upisopen(uv)' THEN uv \in uvhead' ELSE Ok(upvalue[uv])'
      BY <1>0, <2>1 DEF UpvalSafe, upisopen, Ok
    <2>4. ASSUME uv \in uvhead'
          PROVE  /\ upthread'[uv] \in Thread /\ Live(upthread[uv])'
                 /\ uv \in openupval'[upthread'[uv]]
      <3>1. PICK th : th = upthread[uv]
        OBVIOUS
      <3>2. th \in Thread /\ Live(th) /\ uv \in openupval[th]
        BY <2>1, <2>4, <3>1 DEF UpvalSafe
      <3>3. Live(uv) /\ upthread'[uv] = th
        BY <1>0, <2>1, <3>1, <3>2 DEF ObjectsSafe, ThreadSafe
      <3>4. openupval'[th] = openupval[th] /\ Live(th)'
        BY <1>0, <3>2 DEF Frees
      <3> QED
        BY <3>2, <3>3, <3>4 DEF Live
    <2>5. uv \in markedopen' => uv \in uvhead'
      BY <2>1 DEF UpvalSafe
    <2> QED
      BY <1>0, <2>2, <2>3, <2>4, <2>5 DEF UpvalSafe
  <1>6. RootsSafe'
    <2>1. RootsSafe /\ UNCHANGED <<ref_array, mt, isactive>>
      BY <1>0 DEF Frees, SafeInv, sched
    <2>2. \A r \in RefId : Ok(ref_array[r])'
      BY <1>0, <2>1 DEF RootsSafe, Ok
    <2>3. \A b \in BasicType : Ok(mt[b])'
      BY <1>0, <2>1 DEF RootsSafe, Ok
    <2> QED
      BY <1>0, <2>1, <2>2, <2>3 DEF RootsSafe
  <1>7. Waiting'
    <2>0. TypeInv /\ Waiting /\ RootsSafe /\ UNCHANGED sched
      BY <1>0 DEF Frees, SafeInv, ColourInv
    <2>1. ASSUME NEW th \in (isactive \cup {MainThread}) \ {run}
          PROVE  /\ top'[th] = top[th] /\ openupval'[th] = openupval[th]
                 /\ \A uv \in openupval[th] : uplevel'[uv] = uplevel[uv]
                 /\ stack'[th] = stack[th]
      <3>1. th \in Thread /\ Live(th) /\ th \notin gone
        BY <1>0, <2>0, HeapAssumption DEF RootsSafe, TypeInv, TypeOK, SchedType
      <3>2. \A uv \in openupval[th] : uv \in UpVal /\ uv \notin gone
        BY <1>0, <3>1 DEF ObjectsSafe, ThreadSafe, UpvalType
      <3> QED
        BY <3>1, <3>2 DEF Frees
    <2> QED
      BY <2>0, <2>1, WaitingStays
  <1> QED
    BY <1>1, <1>2, <1>3, <1>4, <1>5, <1>6, <1>7 DEF ObjectsSafe
LEMMA SweepSafe == SafeInv /\ GcSweep => SafeInv'
  <1> SUFFICES ASSUME SafeInv, GcSweep PROVE SafeInv'
    OBVIOUS
  <1> USE WhiteDistinct
  <1>1. PICK p \in sweepgcopage :
          LET swept == {o \in heap \ {MainThread} : PageOf[o] = p}
              dead == {o \in swept : isdead(o)}
              last == sweepgcopage = {p}
          IN /\ freeobj(dead)
             /\ colour' = [o \in Obj |->
                             IF o \in dead THEN "free"
                             ELSE IF o \in swept \/ (last /\ o = MainThread)
                                  THEN currentwhite ELSE colour[o]]
             /\ gcstate' = IF last THEN "pause" ELSE "sweep"
             /\ fullgc' = IF last /\ fullgc = "cycle" THEN "none" ELSE fullgc
    BY DEF GcSweep
  <1> DEFINE swept == {o \in heap \ {MainThread} : PageOf[o] = p}
             dead == {o \in swept : isdead(o)}
             last == sweepgcopage = {p}
  <1>2. /\ gcstate = "sweep" /\ ColourInv' /\ atomicpc' = atomicpc
        /\ UNCHANGED <<currentwhite, uvhead, ref_array, mt, sched>>
    BY CollectorColours DEF GcSweep, SafeInv, GcStep, roots
  <1>3. /\ ColourInv /\ TypeInv /\ TableType /\ StackType /\ UpvalType
        /\ currentwhite \in White /\ otherwhite \in White /\ otherwhite # currentwhite
        /\ MainThread \in heap /\ atomicpc = "none"
    BY <1>2 DEF SafeInv, RootsSafe, Live, ColourInv, TypeInv, TypeOK, PhaseType, otherwhite,
       AtomicPhase
  <1>4. /\ \A o \in Obj : colour'[o] = IF o \in dead THEN "free"
                              ELSE IF o \in swept \/ (last /\ o = MainThread)
                                   THEN currentwhite ELSE colour[o]
        /\ freeobj(dead)
    BY <1>1
  <1>5. dead \subseteq heap /\ swept \subseteq heap /\ heap \subseteq Obj /\ MainThread \notin dead
    BY DEF heap
  <1>6. \A o \in dead : isdead(o)
    OBVIOUS
  <1>7. otherwhite' = otherwhite /\ ~keepinvariant /\ ~keepinvariant'
    BY <1>1, <1>2 DEF otherwhite, keepinvariant
  <1>8. (fullgc' # "sweep" => fullgc # "sweep") /\ markedopen' \subseteq markedopen
    BY <1>1 DEF freeobj
  <1> HIDE DEF swept, dead, last
  <1>9. heap' = heap \ dead
    BY <1>3, <1>4, <1>5 DEF heap
  <1>10. ASSUME NEW x PROVE Live(x)' <=> Live(x)
    <2>1. x \notin heap => ~Live(x)' /\ ~Live(x)
      BY <1>9 DEF Live
    <2>2. x \in dead => ~Live(x)' /\ ~Live(x)
      BY <1>6, <1>9 DEF Live
    <2>3. ASSUME x \in heap, x \notin dead PROVE Live(x)' <=> Live(x)
      <3>1. x \in heap' /\ x \in Obj
        BY <1>5, <1>9, <2>3
      <3>2. x # MainThread => (colour'[x] = otherwhite <=> colour[x] = otherwhite)
        <4> SUFFICES ASSUME x # MainThread PROVE colour'[x] = otherwhite <=> colour[x] = otherwhite
          OBVIOUS
        <4>1. CASE x \in swept
          BY <1>3, <1>4, <2>3, <3>1, <4>1 DEF dead, isdead
        <4>2. CASE x \notin swept
          BY <1>4, <2>3, <3>1, <4>2
        <4> QED
          BY <4>1, <4>2
      <3> QED
        BY <1>7, <2>3, <3>1, <3>2 DEF Live, isdead
    <2> QED
      BY <2>1, <2>2, <2>3
  <1>11. /\ \A t \in Table : IF t \in dead THEN node'[t] = EmptyNodes /\ metatable'[t] = Nil
                             ELSE node'[t] = node[t] /\ metatable'[t] = metatable[t]
         /\ \A u \in Udata : metatable'[u] = IF u \in dead THEN Nil ELSE metatable[u]
    BY <1>3, <1>4 DEF freeobj, Keep, TableType
  <1>12. \A cl \in Closure : uprefs'[cl] = IF cl \in dead THEN Nil ELSE uprefs[cl]
    BY <1>3, <1>4 DEF freeobj, Keep, UpvalType
  <1>13. \A th \in Thread :
           IF th \in dead THEN stack'[th] = EmptyStack /\ openupval'[th] = {}
           ELSE stack'[th] = stack[th] /\ openupval'[th] = openupval[th] /\ top'[th] = top[th]
    BY <1>3, <1>4 DEF freeobj, Keep, StackType, UpvalType
  <1>14. \A uv \in UpVal :
           IF uv \in dead THEN upthread'[uv] = Nil /\ upvalue'[uv] = Nil
           ELSE /\ upthread'[uv] = upthread[uv] /\ upvalue'[uv] = upvalue[uv]
                /\ uplevel'[uv] = uplevel[uv]
    BY <1>3, <1>4 DEF freeobj, Keep, UpvalType
  <1>15. Frees(dead)
    BY <1>2, <1>6, <1>7, <1>8, <1>9, <1>10, <1>11, <1>12, <1>13, <1>14 DEF Frees, Live
  <1>16. BitsReset' /\ AtomicMarks'
    BY <1>2, <1>3, <1>7, <1>8 DEF SafeInv, BitsReset, AtomicMarks
  <1> QED
    BY <1>2, <1>15, <1>16, FreesSafe DEF SafeInv

\* No object is freed: the end of the sweep of an empty heap, and the start of a
\* full collection, which sweeps without having flipped the whites.
LEMMA KeepsAllSafe == SafeInv /\ (GcSweepNothing \/ FullGc) => SafeInv'
  <1> SUFFICES ASSUME SafeInv, GcSweepNothing \/ FullGc PROVE SafeInv'
    OBVIOUS
  <1> USE WhiteDistinct
  <1>1. /\ ColourInv /\ ColourInv' /\ colour \in [Obj -> Colour] /\ currentwhite \in White
        /\ otherwhite # currentwhite /\ MainThread \in Obj /\ Live(MainThread)
    BY CollectorColours, HeapAssumption, KindTypes
       DEF SafeInv, RootsSafe, GcStep, ColourInv, TypeInv, TypeOK, ColourType, PhaseType, otherwhite
  <1>2. /\ UNCHANGED <<currentwhite, node, metatable, stack, top, openupval, uvhead, upthread,
                       uplevel, upvalue, markedopen, uprefs, ref_array, mt, sched>>
        /\ atomicpc' = "none"
        /\ \A x \in Obj : x # MainThread => colour'[x] = colour[x]
        /\ colour'[MainThread] # "free"
    BY <1>1 DEF GcSweepNothing, FullGc, tables, stacks, upvals, roots, SafeInv, ColourInv,
       AtomicPhase, Live, heap
  <1>3. otherwhite' = otherwhite
    BY <1>2 DEF otherwhite
  <1>4. heap' = heap
    BY <1>1, <1>2 DEF heap, Live
  <1>5. \A x : Live(x)' <=> Live(x)
    BY <1>2, <1>3, <1>4 DEF Live, isdead, heap
  <1>6. ~keepinvariant' /\ BitsReset'
    <2>1. CASE GcSweepNothing
      <3>1. gcstate = "sweep" /\ gcstate' = "pause" /\ (fullgc' # "sweep" => fullgc # "sweep")
        BY <2>1 DEF GcSweepNothing
      <3> QED
        BY <1>2, <3>1 DEF SafeInv, BitsReset, keepinvariant
    <2>2. CASE FullGc
      <3>1. fullgc' = "sweep" /\ (IF keepinvariant THEN gcstate' = "sweep" ELSE gcstate' = gcstate)
        BY <2>2 DEF FullGc
      <3> QED
        BY <3>1 DEF BitsReset, keepinvariant
    <2> QED
      BY <2>1, <2>2
  <1>7. Frees({})
    BY <1>2, <1>4, <1>5, <1>6 DEF Frees
  <1>8. AtomicMarks'
    BY <1>2 DEF AtomicMarks
  <1> QED
    BY <1>1, <1>6, <1>7, <1>8, FreesSafe DEF SafeInv

-----------------------------------------------------------------------------
(* The theorems.                                                             *)

LEMMA InitSafe == Init => SafeInv
  <1> SUFFICES ASSUME Init PROVE SafeInv
    OBVIOUS
  <1> USE WhiteDistinct DEF Init
  <1>1. ColourInv /\ ~keepinvariant /\ MainThread \in Thread /\ MainThread \in Obj
    BY InitColours, HeapAssumption, KindTypes DEF keepinvariant
  <1>2. \A o : ~Black(o)
    BY <1>1 DEF Black
  <1>3. Live(MainThread)
    BY <1>1 DEF Live, heap, isdead
  <1>4. \A t \in Table : TableSafe(t)
    BY <1>2, NewFields DEF TableSafe, Ok
  <1>5. (\A u \in Udata : UdataSafe(u)) /\ (\A cl \in Closure : ClosureSafe(cl))
    BY <1>2 DEF UdataSafe, ClosureSafe, Ok
  <1>6. \A th \in Thread : ThreadSafe(th)
    BY <1>2, NewFields DEF ThreadSafe, Ok
  <1>7. \A uv \in UpVal : UpvalSafe(uv)
    BY <1>2 DEF UpvalSafe, upisopen, Ok
  <1>8. RootsSafe
    BY <1>1, <1>3 DEF RootsSafe, Ok
  <1> QED
    BY <1>1, <1>4, <1>5, <1>6, <1>7, <1>8
       DEF SafeInv, ObjectsSafe, BitsReset, Waiting, AtomicMarks

LEMMA StutterSafe == SafeInv /\ ColourInv' /\ UNCHANGED vars => SafeInv'
  <1> SUFFICES ASSUME SafeInv, ColourInv', UNCHANGED vars PROVE SafeInv'
    OBVIOUS
  <1> USE DEF vars, lists, phase, tables, stacks, upvals, roots, sched, heap, isdead, otherwhite,
      keepinvariant, upisopen, Live, Ok, Dark, Settled, Black, IsWhite
  <1>1. ObjectsSafe'
    BY DEF SafeInv, ObjectsSafe, TableSafe, UdataSafe, ClosureSafe, ThreadSafe, UpvalSafe, Shared
  <1>2. RootsSafe' /\ BitsReset' /\ Waiting'
    BY DEF SafeInv, RootsSafe, BitsReset, Waiting, Waits
  <1>3. AtomicMarks'
    BY DEF SafeInv, AtomicMarks, Swept, UpValue
  <1> QED
    BY <1>1, <1>2, <1>3 DEF SafeInv

LEMMA SafeInductive == Spec => []SafeInv
  <1>1. SafeInv /\ [Next]_vars => SafeInv'
    <2> SUFFICES ASSUME SafeInv, [Next]_vars PROVE SafeInv'
      OBVIOUS
    <2>1. CASE Mutate
      BY <2>1, MutatorSafe
    <2>2. CASE GcStep \/ FullGc
      BY <2>2, RootSafe, PropagateSafe, AtomicSafe, FinishSafe, SweepSafe, KeepsAllSafe DEF GcStep
    <2>3. CASE UNCHANGED vars
      <3>1. TypeInv'
        BY <2>3 DEF SafeInv, ColourInv, vars, TypeInv, TypeOK, lists, phase, tables, stacks, upvals,
           roots, sched, ColourType, PhaseType, TableType, StackType, UpvalType,
           RootType, SchedType, Chain
      <3>2. ColourInv'
        BY <2>3, <3>1 DEF SafeInv, ColourInv, vars, lists, phase, upvals, sched, AtomicPhase,
           SweptIsWhite, DeadOnlyInSweep, ColourDiscipline, GrayLists, keepinvariant,
           heap, isdead, otherwhite, upisopen, Active
      <3> QED
        BY <2>3, <3>2, StutterSafe
    <2> QED
      BY <2>1, <2>2, <2>3 DEF Next
  <1> QED
    BY InitSafe, <1>1, PTL DEF Spec

\* No live object and no root refers to an object that was freed or is about to
\* be: for every heap, every program and every interleaving of its instructions
\* with the steps of the collector, nothing that is still in use is freed.
THEOREM NoDanglingAlways == Spec => []NoDangling
  <1>1. ASSUME SafeInv PROVE NoDangling
    <2>1. \A o \in Roots \ {Nil} : Live(o)
      BY <1>1, RunFacts DEF SafeInv, RootsSafe, Roots, Pool, BasicMt, Ok
    <2>2. ASSUME NEW o \in heap, Live(o) PROVE \A r \in Refs(o) \ {Nil} : Live(r)
      <3>1. CASE o \in Table
        <4>1. TableSafe(o)
          BY <1>1, <3>1 DEF SafeInv, ObjectsSafe
        <4>2. \A r \in Fields(o) : Ok(r)
          BY <2>2, <4>1 DEF Fields, Used, TableSafe
        <4> QED
          BY <2>2, <3>1, <4>1, <4>2 DEF Refs, TableSafe, Ok
      <3>2. CASE o \in Thread
        <4>1. ThreadSafe(o) /\ o \notin Table
          BY <1>1, <3>2, HeapAssumption DEF SafeInv, ObjectsSafe
        <4> QED
          BY <2>2, <3>2, <4>1 DEF Refs, ThreadSafe, Ok
      <3>3. CASE o \in Closure
        <4>1. ClosureSafe(o) /\ o \notin Table /\ o \notin Thread
          BY <1>1, <3>3, HeapAssumption DEF SafeInv, ObjectsSafe
        <4> QED
          BY <2>2, <3>3, <4>1 DEF Refs, ClosureSafe, Ok
      <3>4. CASE o \in Udata
        <4>1. UdataSafe(o) /\ o \notin Table /\ o \notin Thread /\ o \notin Closure
          BY <1>1, <3>4, HeapAssumption DEF SafeInv, ObjectsSafe, Gclist
        <4> QED
          BY <2>2, <3>4, <4>1 DEF Refs, UdataSafe, Ok
      <3>5. CASE o \in UpVal
        <4>1. Ok(UpValue(o)) /\ o \notin Gclist /\ o \notin Udata
          BY <1>1, <2>2, <3>5, UpValueOk, KindsApart
        <4> QED
          BY <3>5, <4>1, KindTypes DEF Refs, Ok
      <3>6. CASE o \notin Gclist \cup Udata \cup UpVal
        BY <3>6, KindTypes DEF Refs
      <3> QED
        BY <3>1, <3>2, <3>3, <3>4, <3>5, <3>6 DEF Gclist
    <2> QED
      BY <2>1, <2>2 DEF NoDangling
  <1> QED
    BY SafeInductive, <1>1, PTL

\* While marking, no black object refers to a white one but through the slot of
\* an open upvalue: whatever is written and however the writes interleave with
\* marking, the barriers (and their omission where the code omits them) suffice.
THEOREM BlackNeverToWhiteAlways == Spec => []BlackNeverToWhite
  <1>1. ASSUME SafeInv PROVE BlackNeverToWhite
    <2> SUFFICES ASSUME keepinvariant, NEW o \in heap, colour[o] = "black"
                 PROVE  IF o \in Thread
                        THEN /\ \A i \in 1..top[o] : \/ stack[o][i] = Nil
                                                     \/ ~IsWhite(colour, stack[o][i])
                                                     \/ Shared(o, i)
                             /\ \A uv \in openupval[o] : ~IsWhite(colour, uv)
                        ELSE \A r \in Refs(o) \ {Nil} : ~IsWhite(colour, r)
      BY DEF BlackNeverToWhite
    <2>0. Black(o) /\ \A x : Settled(x) => x = Nil \/ ~IsWhite(colour, x)
      BY DEF Black, Settled, Dark
    <2>1. CASE o \in Table
      <3>1. TableSafe(o) /\ o \notin Thread /\ TableType
        BY <1>1, <2>1, HeapAssumption DEF SafeInv, ObjectsSafe, ColourInv, TypeInv, TypeOK
      <3>2. ASSUME NEW n \in Used(o) PROVE Settled(node[o][n].key) /\ Settled(node[o][n].val)
        <4>1. n \in Node /\ node[o][n].key # DeadKey
          BY <2>1, <3>1 DEF Used, TableType, Entries
        <4> QED
          BY <2>0, <3>1, <4>1 DEF TableSafe
      <3>3. \A r \in Fields(o) : Settled(r)
        BY <3>2 DEF Fields
      <3> QED
        BY <2>0, <2>1, <3>1, <3>3 DEF Refs, TableSafe
    <2>2. CASE o \in Thread
      <3>1. ThreadSafe(o) /\ 1..top[o] \subseteq Slot
        BY <1>1, <2>2, HeapAssumption
           DEF SafeInv, ObjectsSafe, ColourInv, TypeInv, TypeOK, StackType, Slot
      <3> QED
        BY <2>0, <2>2, <3>1 DEF ThreadSafe, Dark
    <2>3. CASE o \in Closure
      <3>1. ClosureSafe(o) /\ o \notin Table /\ o \notin Thread
        BY <1>1, <2>3, HeapAssumption DEF SafeInv, ObjectsSafe
      <3> QED
        BY <2>0, <2>3, <3>1 DEF Refs, ClosureSafe
    <2>4. CASE o \in Udata
      <3>1. UdataSafe(o) /\ o \notin Table /\ o \notin Thread /\ o \notin Closure
        BY <1>1, <2>4, HeapAssumption DEF SafeInv, ObjectsSafe, Gclist
      <3> QED
        BY <2>0, <2>4, <3>1 DEF Refs, UdataSafe
    <2>5. CASE o \in UpVal
      <3>1. UpvalSafe(o) /\ o \notin Gclist /\ o \notin Udata /\ ~upisopen(o)
        BY <1>1, <2>5, KindsApart DEF SafeInv, ObjectsSafe, ColourInv, ColourDiscipline
      <3> QED
        BY <2>0, <2>5, <3>1, KindTypes DEF Refs, UpvalSafe, UpValue
    <2>6. CASE o \notin Gclist \cup Udata \cup UpVal
      BY <2>6, KindTypes DEF Refs
    <2> QED
      BY <2>1, <2>2, <2>3, <2>4, <2>5, <2>6 DEF Gclist
  <1> QED
    BY SafeInductive, <1>1, PTL

\* The list of open upvalues is the union of the lists of the live threads, and
\* an upvalue on it is open on the thread it points into: closing, sweeping and
\* clearing upvalues never leaves one that points into a freed stack.
THEOREM OpenUpvalsAlways == Spec => []OpenUpvals
  <1>1. ASSUME SafeInv PROVE OpenUpvals
    <2>0. uvhead \subseteq UpVal
      BY <1>1 DEF SafeInv, ColourInv, TypeInv, TypeOK, UpvalType
    <2>1. ASSUME NEW uv \in uvhead
          PROVE  /\ upthread[uv] \in {t \in heap \cap Thread : ~isdead(t)}
                 /\ uv \in openupval[upthread[uv]]
      BY <1>1, <2>0 DEF SafeInv, ObjectsSafe, UpvalSafe, Live
    <2>2. ASSUME NEW th \in {t \in heap \cap Thread : ~isdead(t)}, NEW uv \in openupval[th]
          PROVE  uv \in uvhead
      BY <1>1 DEF SafeInv, ObjectsSafe, ThreadSafe, Live
    <2>3. uvhead = UNION {openupval[th] : th \in {t \in heap \cap Thread : ~isdead(t)}}
      BY <2>1, <2>2
    <2> QED
      BY <2>1, <2>3 DEF OpenUpvals
  <1> QED
    BY SafeInductive, <1>1, PTL

=============================================================================
