--------------------------- MODULE GCColourProofs ---------------------------
(* Type correctness of GarbageCollection, and the discipline of colours and   *)
(* gray lists, for every heap.                                                *)
EXTENDS GarbageCollection, TLAPS

-----------------------------------------------------------------------------
(* Types.                                                                    *)

\* The threads that are active resumed one another in a chain that starts at the
\* main thread and ends at the running one.
Chain ==
  /\ MainThread \notin isactive
  /\ run \in isactive \cup {MainThread}
  /\ \A th \in isactive : caller[th] \in (isactive \cup {MainThread}) \ {run}
  /\ \A a, b \in isactive : caller[a] = caller[b] => a = b

TypeInv == TypeOK /\ Chain

LEMMA MarkedType ==
  ASSUME NEW c \in [Obj -> Colour], NEW M
  PROVE  Marked(c, M) \in [Obj -> Colour]
  BY DEF Marked, Colour

LEMMA KindTypes ==
  /\ Thread \subseteq Obj /\ Table \subseteq Obj /\ Closure \subseteq Obj
  /\ UpVal \subseteq Obj /\ Udata \subseteq Obj /\ Value \subseteq Obj
  /\ Str \subseteq Obj /\ Leaf \subseteq Obj /\ Gclist \subseteq Obj
  /\ Thread \subseteq Value /\ Table \subseteq Value /\ Closure \subseteq Value
  /\ Udata \subseteq Value /\ Str \subseteq Value /\ Leaf \subseteq Value
  /\ Thread \subseteq Gclist /\ Table \subseteq Gclist /\ Closure \subseteq Gclist
  BY DEF Obj, Value, Gclist

LEMMA UpValueType ==
  ASSUME StackType, UpvalType, NEW uv \in UpVal
  PROVE  UpValue(uv) \in Value \cup {Nil}
  BY HeapAssumption DEF StackType, UpvalType, UpValue, upisopen

LEMMA OtherWhite == otherwhite \in White
  BY DEF otherwhite, White

LEMMA InitType == Init => TypeInv
  <1> SUFFICES ASSUME Init PROVE TypeInv
    OBVIOUS
  <1>1. ColourType
    BY HeapAssumption DEF Init, ColourType, Colour, White
  <1>2. PhaseType
    BY DEF Init, PhaseType, White
  <1>3. TableType
    BY HeapAssumption DEF Init, TableType, EmptyNodes, Entries
  <1>4. StackType
    BY HeapAssumption DEF Init, StackType, EmptyStack
  <1>5. UpvalType
    BY HeapAssumption DEF Init, UpvalType
  <1>6. RootType
    BY DEF Init, RootType
  <1>7. SchedType /\ Chain
    BY HeapAssumption DEF Init, SchedType, Chain
  <1> QED
    BY <1>1, <1>2, <1>3, <1>4, <1>5, <1>6, <1>7 DEF TypeInv, TypeOK

\* The lists and the colours after any of the write barriers.
BarrierTyped ==
  /\ colour' \in [Obj -> Colour]
  /\ gray' \subseteq Gclist /\ grayagain' \subseteq Gclist

LEMMA MarkNowType ==
  ASSUME ColourType, NEW c \in [Obj -> Colour], NEW S, MarkNow(c, S)
  PROVE  BarrierTyped
  BY MarkedType DEF MarkNow, ColourType, BarrierTyped

LEMMA BarrierType ==
  ASSUME ColourType, PhaseType, NEW o \in Obj, NEW S, luaC_barrier(o, S)
  PROVE  BarrierTyped
  <1>1. CASE NoBarrier
    BY <1>1 DEF NoBarrier, ColourType, BarrierTyped
  <1>2. CASE luaC_barrierf(o, S)
    BY <1>2, MarkNowType DEF luaC_barrierf, ColourType, PhaseType, Colour,
       BarrierTyped
  <1> QED BY <1>1, <1>2 DEF luaC_barrier

LEMMA BackBarrierType ==
  ASSUME ColourType, NEW o \in Table \cup Thread, NEW S,
         luaC_barriert(o, S) \/ luaC_barrierfast(o)
  PROVE  BarrierTyped
  <1>1. CASE NoBarrier
    BY <1>1 DEF NoBarrier, ColourType, BarrierTyped
  <1>2. CASE luaC_barrierback(o)
    BY <1>2, KindTypes DEF luaC_barrierback, ColourType, Colour, BarrierTyped
  <1>3. CASE MarkNow(colour, S)
    BY <1>3, MarkNowType DEF ColourType
  <1> QED
    BY <1>1, <1>2, <1>3 DEF luaC_barriert, luaC_barrierfast

LEMMA SetRegisterType ==
  ASSUME StackType, SchedType, NEW i \in Register, NEW v \in Value \cup {Nil},
         SetRegister(i, v)
  PROVE  stack' \in [Thread -> [Slot -> Value \cup {Nil}]]
  BY HeapAssumption DEF StackType, SchedType, Register, Slot, SetRegister

LEMMA HeldType ==
  ASSUME StackType, SchedType
  PROVE  Held \subseteq Value \cup {Nil} /\ Register \subseteq Slot
  BY HeapAssumption DEF StackType, SchedType, Register, Slot, Held

\* What an instruction loads is a value: never an upvalue or a dead key.
LEMMA FieldsType ==
  ASSUME TableType, NEW t \in Table
  PROVE  Fields(t) \subseteq Value \cup {Nil}
  <1> SUFFICES ASSUME NEW n \in Used(t)
               PROVE  /\ node[t][n].key \in Value \cup {Nil}
                      /\ node[t][n].val \in Value \cup {Nil}
    BY DEF Fields
  <1>1. node[t][n] \in Entries /\ node[t][n].val # Nil
    BY DEF TableType, Used
  <1> QED
    BY <1>1, HeapAssumption DEF Entries

LEMMA CapturedType ==
  ASSUME StackType, UpvalType, NEW cl \in Closure
  PROVE  Captured(cl) \in Value \cup {Nil}
  BY UpValueType DEF Captured, UpvalType, Obj

LEMMA LoadableType ==
  ASSUME TypeOK
  PROVE  Loadable \subseteq Value \cup {Nil}
  <1>1. Held \subseteq Value \cup {Nil}
    BY HeldType DEF TypeOK
  <1>2. \A b \in BasicType : mt[b] \in Value \cup {Nil}
    BY KindTypes DEF TypeOK, RootType
  <1>3. \A t \in Table : Fields(t) \subseteq Value \cup {Nil}
    BY FieldsType DEF TypeOK
  <1>4. \A o \in Table \cup Udata : metatable[o] \in Value \cup {Nil}
    BY KindTypes DEF TypeOK, TableType
  <1>5. \A cl \in Closure : Captured(cl) \in Value \cup {Nil}
    BY CapturedType DEF TypeOK
  <1>6. \A r \in RefId : ref_array[r] \in Value \cup {Nil}
    BY DEF TypeOK, RootType
  <1> QED
    <2> SUFFICES ASSUME NEW v \in Loadable PROVE v \in Value \cup {Nil}
      OBVIOUS
    <2>1. \/ v = Nil \/ v \in Held
          \/ \E b \in BasicType : v = mt[b]
          \/ \E t \in Held \cap Table : v \in Fields(t)
          \/ \E o \in Held \cap (Table \cup Udata) : v = metatable[o]
          \/ \E cl \in Held \cap Closure : v = Captured(cl)
          \/ \E r \in RefId : v = ref_array[r]
      BY DEF Loadable
    <2> QED
      BY <1>1, <1>2, <1>3, <1>4, <1>5, <1>6, <2>1

LEMMA InitColourType ==
  ASSUME ColourType, PhaseType, NEW new, luaC_init(new)
  PROVE  colour' \in [Obj -> Colour]
  BY DEF ColourType, PhaseType, luaC_init, Colour

LEMMA CloseType ==
  ASSUME ColourType, PhaseType, StackType, UpvalType, NEW th \in Thread,
         NEW level, luaF_close(th, level), uprefs' = uprefs
  PROVE  UpvalType' /\ BarrierTyped
  <1>1. openupval' \in [Thread -> SUBSET UpVal] /\ uvhead' \subseteq UpVal
        /\ markedopen' \subseteq UpVal
    BY DEF luaF_close, UpvalType
  <1>2. upthread' \in [UpVal -> Thread \cup {Nil}]
        /\ uplevel' \in [UpVal -> 0..StackSize]
        /\ \A uv \in UpVal : upthread'[uv] # Nil => uplevel'[uv] \in Slot
    BY HeapAssumption DEF luaF_close, UpvalType
  <1>3. upvalue' \in [UpVal -> Value \cup {Nil}]
    BY UpValueType DEF luaF_close, UpvalType
  <1>4. BarrierTyped
    <2> DEFINE M == {uv \in {u \in openupval[th] : uplevel[u] >= level} :
                        colour[uv] = "gray"}
               rec(x) == [o \in Obj |-> IF o \in M THEN x ELSE colour[o]]
    <2>1. /\ rec("black") \in [Obj -> Colour]
          /\ rec(currentwhite) \in [Obj -> Colour]
      BY DEF ColourType, PhaseType, Colour
    <2>2. CASE MarkNow(rec("black"), {UpValue(uv) : uv \in M})
      BY <2>1, <2>2, MarkNowType
    <2>3. CASE colour' = rec(currentwhite) /\ UNCHANGED <<gray, grayagain>>
      BY <2>1, <2>3 DEF BarrierTyped, ColourType
    <2> QED
      BY <2>2, <2>3 DEF luaF_close
  <1> QED
    BY <1>1, <1>2, <1>3, <1>4 DEF UpvalType

LEMMA MutatorType == TypeInv /\ Mutate => TypeInv'
  <1> SUFFICES ASSUME TypeInv, Mutate PROVE TypeInv'
    OBVIOUS
  <1> USE DEF TypeInv, TypeOK, lists, phase, tables, stacks, upvals, roots, sched
  <1>load. ASSUME NEW i \in Slot, Load(i) PROVE TypeInv'
    <2>1. stack' \in [Thread -> [Slot -> Value \cup {Nil}]]
      BY <1>load, LoadableType, SetRegisterType DEF Load
    <2> QED
      BY <1>load, <2>1 DEF Load, ColourType, PhaseType, TableType, StackType, UpvalType,
         RootType, SchedType, Chain
  <1>call. ASSUME NEW n \in 0..StackSize, Call(n) \/ Return(n) PROVE TypeInv'
    <2>1. StackType'
      BY <1>call, HeapAssumption DEF Call, Return, StackType, SchedType
    <2> QED
      BY <1>call, <2>1 DEF Call, Return, ColourType, PhaseType, TableType, StackType, UpvalType,
         RootType, SchedType, Chain
  <1>object. ASSUME NEW o, NEW i, NewObject(o, i) PROVE TypeInv'
    <2>1. colour' \in [Obj -> Colour]
      BY <1>object, InitColourType DEF NewObject
    <2>2. stack' \in [Thread -> [Slot -> Value \cup {Nil}]]
      BY <1>object, SetRegisterType, KindTypes DEF NewObject
    <2> QED
      BY <1>object, <2>1, <2>2 DEF NewObject, ColourType, PhaseType, TableType, StackType, UpvalType,
         RootType, SchedType, Chain
  <1>string. ASSUME NEW s \in Str, NEW i, NewString(s, i) PROVE TypeInv'
    <2>1. colour' \in [Obj -> Colour]
      BY <1>string, InitColourType DEF NewString, luaS_newlstr, ColourType
    <2>2. stack' \in [Thread -> [Slot -> Value \cup {Nil}]]
      BY <1>string, SetRegisterType, KindTypes DEF NewString
    <2> QED
      BY <1>string, <2>1, <2>2 DEF NewString, ColourType, PhaseType, TableType, StackType, UpvalType,
         RootType, SchedType, Chain
  <1>closure. ASSUME NEW cl \in Closure, NEW v, NEW i, NewClosure(cl, v, i)
              PROVE TypeInv'
    <2>1. colour' \in [Obj -> Colour]
      BY <1>closure, InitColourType DEF NewClosure
    <2>2. stack' \in [Thread -> [Slot -> Value \cup {Nil}]]
      BY <1>closure, SetRegisterType, KindTypes DEF NewClosure
    <2>3. v \in Obj \cup {Nil}
      <3>1. CASE v \in {stack'[run][j] : j \in Register}
        <4>1. PICK j \in Register : v = stack'[run][j]
          BY <3>1
        <4>2. run \in Thread /\ j \in Slot
          BY <4>1, HeldType DEF SchedType
        <4> QED
          BY <2>2, <4>1, <4>2, KindTypes
      <3>2. CASE v \in {uprefs[c] : c \in Held \cap Closure}
        BY <3>2 DEF UpvalType
      <3> QED
        BY <1>closure, <3>1, <3>2 DEF NewClosure
    <2>4. uprefs' \in [Closure -> Obj \cup {Nil}]
      BY <1>closure, <2>3 DEF NewClosure, UpvalType
    <2> QED
      BY <1>closure, <2>1, <2>2, <2>4 DEF NewClosure, ColourType, PhaseType, TableType, StackType, UpvalType,
         RootType, SchedType, Chain
  <1>capture. ASSUME NEW cl \in Closure, NEW uv \in UpVal, NEW l, NEW i,
                     CaptureRef(cl, uv, l, i)
              PROVE TypeInv'
    <2>1. colour' \in [Obj -> Colour]
      BY <1>capture, InitColourType DEF CaptureRef
    <2>2. stack' \in [Thread -> [Slot -> Value \cup {Nil}]]
      BY <1>capture, SetRegisterType, KindTypes DEF CaptureRef
    <2>3. uprefs' \in [Closure -> Obj \cup {Nil}]
      BY <1>capture, KindTypes DEF CaptureRef, UpvalType
    <2>4. l \in Slot
      BY <1>capture, HeldType DEF CaptureRef
    <2>5. UpvalType'
      BY <1>capture, <2>3, <2>4, HeapAssumption
         DEF CaptureRef, UpvalType, SchedType, Slot
    <2> QED
      BY <1>capture, <2>1, <2>2, <2>5 DEF CaptureRef, ColourType, PhaseType, TableType, StackType, UpvalType,
         RootType, SchedType, Chain
  <1>settable. ASSUME NEW t \in Table, NEW n \in Node, NEW k, NEW v,
                      SetTable(t, n, k, v) \/ SetList(t, n, v)
               PROVE TypeInv'
    <2>1. v \in Value \cup {Nil}
      BY <1>settable, HeldType DEF SetTable, SetList
    <2>2. BarrierTyped
      BY <1>settable, BackBarrierType DEF SetTable, SetList
    <2>3. /\ [key |-> Nil, val |-> v] \in Entries
          /\ k \in Key \cup {Nil} => [key |-> k, val |-> v] \in Entries
      BY <2>1, HeapAssumption, KindTypes DEF Entries
    <2>4. /\ \E e \in Entries : node' = [node EXCEPT ![t][n] = e]
          /\ UNCHANGED <<metatable, mode>>
      BY <1>settable, <2>3 DEF SetTable, SetList
    <2>5. TableType'
      BY <2>4 DEF TableType
    <2> QED
      BY <1>settable, <2>2, <2>5 DEF SetTable, SetList, BarrierTyped, ColourType, PhaseType, TableType, StackType, UpvalType,
         RootType, SchedType, Chain
  <1>setmeta. ASSUME NEW o, NEW m, SetMetatable(o, m) PROVE TypeInv'
    <2>1. o \in Table \cup Udata /\ m \in Table \cup {Nil}
      BY <1>setmeta, HeapAssumption DEF SetMetatable
    <2>2. BarrierTyped
      BY <1>setmeta, <2>1, BarrierType, KindTypes DEF SetMetatable
    <2> QED
      BY <1>setmeta, <2>1, <2>2 DEF SetMetatable, BarrierTyped, ColourType, PhaseType, TableType, StackType, UpvalType,
         RootType, SchedType, Chain
  <1>setmode. ASSUME NEW m \in Meta, NEW md \in Mode, SetMode(m, md) PROVE TypeInv'
    BY <1>setmode DEF SetMode, ColourType, PhaseType, TableType, StackType, UpvalType,
         RootType, SchedType, Chain
  <1>setmt. ASSUME NEW b \in BasicType, NEW m, SetBasicMt(b, m) PROVE TypeInv'
    BY <1>setmt, HeapAssumption DEF SetBasicMt, ColourType, PhaseType, TableType, StackType, UpvalType,
         RootType, SchedType, Chain
  <1>setupval. ASSUME NEW cl \in Closure, NEW v, SetUpval(cl, v) PROVE TypeInv'
    <2> DEFINE uv == uprefs[cl]
    <2>1. v \in Value \cup {Nil} /\ uv \in UpVal
      BY <1>setupval, HeldType DEF SetUpval
    <2>2. BarrierTyped
      BY <1>setupval, <2>1, BarrierType, KindTypes DEF SetUpval
    <2>3. stack' \in [Thread -> [Slot -> Value \cup {Nil}]]
      BY <1>setupval, <2>1 DEF SetUpval, WriteUpval, StackType
    <2>4. upvalue' \in [UpVal -> Value \cup {Nil}]
      BY <1>setupval, <2>1 DEF SetUpval, WriteUpval, UpvalType
    <2> QED
      BY <1>setupval, <2>2, <2>3, <2>4 DEF SetUpval, BarrierTyped, ColourType, PhaseType, TableType, StackType, UpvalType,
         RootType, SchedType, Chain
  <1>setupvalue. ASSUME NEW cl \in Closure, NEW v, lua_setupvalue(cl, v)
                 PROVE TypeInv'
    <2>1. v \in Obj \cup {Nil}
      BY <1>setupvalue, HeldType, KindTypes DEF lua_setupvalue
    <2>2. BarrierTyped
      BY <1>setupvalue, BarrierType, KindTypes DEF lua_setupvalue
    <2> QED
      BY <1>setupvalue, <2>1, <2>2 DEF lua_setupvalue, BarrierTyped, ColourType, PhaseType, TableType, StackType, UpvalType,
         RootType, SchedType, Chain
  <1>close. ASSUME NEW l, CloseUpvals(l) PROVE TypeInv'
    <2>1. UpvalType' /\ BarrierTyped
      BY <1>close, CloseType DEF CloseUpvals, SchedType
    <2> QED
      BY <1>close, <2>1 DEF CloseUpvals, BarrierTyped, ColourType, PhaseType,
         TableType, StackType, RootType, SchedType, Chain
  <1>resume. ASSUME NEW co, Resume(co) PROVE TypeInv'
    <2>1. co \in Thread \ (isactive \cup {MainThread})
      BY <1>resume DEF Resume, Suspended
    <2>2. BarrierTyped
      BY <1>resume, <2>1, BackBarrierType DEF Resume
    <2>3. Chain' /\ SchedType'
      BY <1>resume, <2>1, HeapAssumption DEF Resume, SchedType, Chain
    <2> QED
      BY <1>resume, <2>2, <2>3 DEF Resume, BarrierTyped, ColourType, PhaseType, TableType, StackType, UpvalType,
         RootType, SchedType, Chain
  <1>yield. ASSUME Yield PROVE TypeInv'
    <2>1. Chain' /\ SchedType'
      BY <1>yield, HeapAssumption DEF Yield, SchedType, Chain
    <2> QED
      BY <1>yield, <2>1 DEF Yield, ColourType, PhaseType, TableType, StackType, UpvalType,
         RootType, SchedType, Chain
  <1>xpush. ASSUME NEW co, NEW v, XPush(co, v) PROVE TypeInv'
    <2>1. co \in Thread /\ v \in Value \cup {Nil}
      BY <1>xpush, HeldType DEF XPush, Suspended
    <2>2. BarrierTyped
      BY <1>xpush, <2>1, BackBarrierType DEF XPush
    <2>3. StackType'
      BY <1>xpush, <2>1, HeapAssumption DEF XPush, StackType, Slot
    <2> QED
      BY <1>xpush, <2>2, <2>3 DEF XPush, BarrierTyped, ColourType, PhaseType, TableType, StackType, UpvalType,
         RootType, SchedType, Chain
  <1>xpop. ASSUME NEW co, NEW i, XPop(co, i) PROVE TypeInv'
    <2>1. co \in Thread
      BY <1>xpop DEF XPop, Suspended
    <2>2. stack[co][top[co]] \in Value \cup {Nil}
      BY <1>xpop, <2>1, HeapAssumption DEF XPop, StackType, Slot
    <2>3. stack' \in [Thread -> [Slot -> Value \cup {Nil}]]
      BY <1>xpop, <2>2, SetRegisterType DEF XPop
    <2>4. top' \in [Thread -> 0..StackSize]
      BY <1>xpop, <2>1, HeapAssumption DEF XPop, StackType
    <2> QED
      BY <1>xpop, <2>3, <2>4 DEF XPop, ColourType, PhaseType, TableType, StackType, UpvalType,
         RootType, SchedType, Chain
  <1>reset. ASSUME NEW co, ResetThread(co) PROVE TypeInv'
    <2>1. co \in Thread
      BY <1>reset DEF ResetThread, Suspended
    <2>2. UpvalType' /\ BarrierTyped
      BY <1>reset, <2>1, CloseType DEF ResetThread
    <2>3. StackType'
      BY <1>reset, <2>1, HeapAssumption DEF ResetThread, StackType, EmptyStack
    <2> QED
      BY <1>reset, <2>2, <2>3 DEF ResetThread, BarrierTyped, ColourType, PhaseType,
         TableType, RootType, SchedType, Chain
  <1>ref. ASSUME NEW r \in RefId, NEW v \in Value, Ref(r, v) \/ Unref(r) PROVE TypeInv'
    <2>1. RootType'
      BY <1>ref DEF Ref, Unref, RootType
    <2> QED
      BY <1>ref, <2>1 DEF Ref, Unref, ColourType, PhaseType, TableType, StackType, UpvalType,
         RootType, SchedType, Chain
  <1>unref. ASSUME NEW r \in RefId, Unref(r) PROVE TypeInv'
    <2>1. RootType'
      BY <1>unref DEF Ref, Unref, RootType
    <2> QED
      BY <1>unref, <2>1 DEF Ref, Unref, ColourType, PhaseType, TableType, StackType, UpvalType,
         RootType, SchedType, Chain
  <1> HIDE DEF TypeInv, TypeOK
  <1> QED
    BY <1>load, <1>call, <1>object, <1>string, <1>closure, <1>capture,
       <1>settable, <1>setmeta, <1>setmode, <1>setmt, <1>setupval,
       <1>setupvalue, <1>close, <1>resume, <1>yield, <1>xpush, <1>xpop,
       <1>reset, <1>ref, <1>unref, HeapAssumption DEF Mutate, Slot

LEMMA ReachedType ==
  ASSUME NEW c, NEW S
  PROVE  Reached(c, S) \subseteq Obj
  BY DEF Reached

\* One call of propagatemark.
LEMMA PropagateType ==
  ASSUME TypeInv, NEW o \in gray, propagatemark(o)
  PROVE  /\ colour' \in [Obj -> Colour] /\ weak' \subseteq Table
         /\ GrayAfter(o) \subseteq Gclist /\ GrayagainAfter(o) \subseteq Gclist
         /\ TableType' /\ StackType' /\ UpvalType' /\ SchedType' /\ Chain'
  <1> USE DEF TypeInv, TypeOK, sched
  <1>1. o \in Gclist /\ o \in Obj
    BY KindTypes DEF ColourType
  <1>2. colour' \in [Obj -> Colour]
    BY <1>1, MarkedType DEF propagatemark, ColourAfter, ColourType, Colour
  <1>3. /\ weak' \subseteq Table /\ GrayAfter(o) \subseteq Gclist
        /\ GrayagainAfter(o) \subseteq Gclist
    BY <1>1 DEF propagatemark, WeakAfter, GrayAfter, GrayagainAfter, ColourType, Gclist
  <1>4. \A e \in Entries : e.val = Nil => RemoveEntry(e) \in Entries
    BY HeapAssumption DEF Entries, RemoveEntry
  <1>5. node' \in [Table -> [Node -> Entries]]
    BY <1>4 DEF propagatemark, NodeAfter, TableType, Used
  <1>6. stack' \in [Thread -> [Slot -> Value \cup {Nil}]]
    BY DEF propagatemark, StackAfter, StackType
  <1>7. markedopen' \subseteq UpVal
    BY DEF propagatemark, MarkedopenAfter, UpvalType
  <1> QED
    BY <1>2, <1>3, <1>5, <1>6, <1>7
       DEF propagatemark, TableType, StackType, UpvalType, SchedType, Chain

LEMMA KeepType ==
  ASSUME NEW D, NEW R, NEW f \in [D -> R], NEW gone, NEW fresh \in R
  PROVE  Keep(f, gone, fresh) \in [D -> R]
  BY DEF Keep

LEMMA FreeType ==
  ASSUME TypeInv, NEW gone, freeobj(gone), UNCHANGED uvhead
  PROVE  TableType' /\ StackType' /\ UpvalType'
  <1> USE DEF TypeInv, TypeOK
  <1>1. TableType'
    <2>1. EmptyNodes \in [Node -> Entries]
      BY HeapAssumption DEF EmptyNodes, Entries
    <2> QED
      BY <2>1, KeepType, HeapAssumption DEF freeobj, TableType
  <1>2. StackType'
    <2>1. EmptyStack \in [Slot -> Value \cup {Nil}] /\ 0 \in 0..StackSize
      BY HeapAssumption DEF EmptyStack
    <2> QED
      BY <2>1, KeepType DEF freeobj, StackType
  <1>3. UpvalType'
    <2>1. openupval' \in [Thread -> SUBSET UpVal]
      BY KeepType DEF freeobj, UpvalType
    <2>2. upthread' \in [UpVal -> Thread \cup {Nil}]
      BY KeepType DEF freeobj, UpvalType
    <2>3. uplevel' \in [UpVal -> 0..StackSize]
      BY HeapAssumption DEF freeobj, UpvalType, Keep
    <2>4. \A uv \in UpVal : upthread'[uv] # Nil => uplevel'[uv] \in Slot
      BY DEF freeobj, UpvalType, Keep
    <2>5. upvalue' \in [UpVal -> Value \cup {Nil}]
      BY KeepType DEF freeobj, UpvalType
    <2>6. uprefs' \in [Closure -> Obj \cup {Nil}]
      BY KeepType DEF freeobj, UpvalType
    <2> QED
      BY <2>1, <2>2, <2>3, <2>4, <2>5, <2>6 DEF freeobj, UpvalType
  <1> QED
    BY <1>1, <1>2, <1>3

LEMMA CollectorType == TypeInv /\ (GcStep \/ FullGc) => TypeInv'
  <1> SUFFICES ASSUME TypeInv, GcStep \/ FullGc PROVE TypeInv'
    OBVIOUS
  <1> USE DEF TypeInv, TypeOK, lists, phase, tables, stacks, upvals, roots, sched
  <1>root. ASSUME GcPause \/ FullGcMark PROVE TypeInv'
    <2>1. markroot
      BY <1>root DEF GcPause, FullGcMark
    <2>2. ColourType'
      BY <2>1, MarkedType DEF markroot, ColourType
    <2>3. markedopen' \subseteq UpVal /\ fullgc' \in {"none", "sweep", "cycle"}
      BY <1>root DEF GcPause, FullGcMark, UpvalType, PhaseType
    <2> QED
      BY <2>1, <2>2, <2>3 DEF markroot, ColourType, PhaseType, TableType, StackType, UpvalType,
         RootType, SchedType, Chain
  <1>propagate. ASSUME GcPropagate \/ GcPropagateagain \/ AtomicPropagate
                PROVE TypeInv'
    <2>1. PICK o \in gray :
            /\ propagatemark(o)
            /\ gray' \in {GrayAfter(o), GrayagainAfter(o)}
            /\ grayagain' \in {GrayagainAfter(o), {}}
      BY <1>propagate DEF GcPropagate, GcPropagateagain, AtomicPropagate
    <2>2. ColourType' /\ TableType' /\ StackType' /\ UpvalType' /\ SchedType' /\ Chain'
      BY <2>1, PropagateType DEF ColourType
    <2>3. PhaseType'
      BY <1>propagate DEF GcPropagate, GcPropagateagain, AtomicPropagate, PhaseType
    <2>4. RootType'
      BY <1>propagate, <2>1 DEF propagatemark, GcPropagate, GcPropagateagain, AtomicPropagate,
         RootType
    <2> QED
      BY <2>2, <2>3, <2>4
  <1>atomic. ASSUME AtomicUpvals \/ AtomicWeak \/ AtomicGrayagain \/ AtomicRefs
             PROVE TypeInv'
    <2>1. PICK M : AtomicMark(M)
      BY <1>atomic DEF AtomicUpvals, AtomicWeak, AtomicGrayagain, AtomicRefs
    <2>2. colour' \in [Obj -> Colour]
      BY <2>1, MarkedType DEF AtomicMark, ColourType
    <2>3. ColourType'
      BY <1>atomic, <2>2, KindTypes DEF ColourType, AtomicUpvals, AtomicWeak,
         AtomicGrayagain, AtomicRefs
    <2>4. PhaseType'
      BY <1>atomic, <2>1 DEF PhaseType, AtomicMark, AtomicUpvals, AtomicWeak,
         AtomicGrayagain, AtomicRefs
    <2>5. RootType'
      BY <1>atomic, <2>1 DEF RootType, AtomicMark, AtomicUpvals, AtomicWeak,
         AtomicGrayagain, AtomicRefs
    <2> QED
      BY <2>1, <2>3, <2>4, <2>5 DEF AtomicMark, TableType, StackType, UpvalType,
         SchedType, Chain
  <1>finish. ASSUME AtomicFinish PROVE TypeInv'
    <2>1. colour' \in [Obj -> Colour]
      <3> DEFINE closed == [o \in Obj |-> IF o \in ToClose \cup WeakStrings THEN "black"
                                          ELSE colour[o]]
      <3>1. closed \in [Obj -> Colour]
        BY DEF ColourType, Colour
      <3> QED
        BY <1>finish, <3>1, MarkedType DEF AtomicFinish
    <2>2. ColourType'
      BY <1>finish, <2>1 DEF AtomicFinish, ColourType
    <2>3. PhaseType'
      <3>1. {PageOf[o] : o \in heap \ {MainThread}} \subseteq Page
        BY HeapAssumption DEF heap
      <3> QED
        BY <1>finish, <3>1, OtherWhite DEF AtomicFinish, PhaseType
    <2>4. TableType'
      <3>1. \A e \in Entries : RemoveEntry([e EXCEPT !.val = Nil]) \in Entries
        BY HeapAssumption DEF Entries, RemoveEntry
      <3> QED
        BY <1>finish, <3>1 DEF AtomicFinish, cleartable, TableType
    <2>5. UpvalType'
      <3>1. upvalue' \in [UpVal -> Value \cup {Nil}]
        BY <1>finish, UpValueType DEF AtomicFinish, UpvalType
      <3>2. /\ upthread' \in [UpVal -> Thread \cup {Nil}]
            /\ uplevel' \in [UpVal -> 0..StackSize]
            /\ \A uv \in UpVal : upthread'[uv] # Nil => uplevel'[uv] \in Slot
        BY <1>finish, HeapAssumption DEF AtomicFinish, UpvalType
      <3> QED
        BY <1>finish, <3>1, <3>2 DEF AtomicFinish, UpvalType
    <2> QED
      BY <1>finish, <2>2, <2>3, <2>4, <2>5 DEF AtomicFinish, StackType, RootType,
         SchedType, Chain
  <1>sweep. ASSUME GcSweep PROVE TypeInv'
    <2>1. PICK p \in sweepgcopage, gone \in SUBSET Obj :
             /\ freeobj(gone)
             /\ \A o \in Obj : colour'[o] \in {"free", currentwhite, colour[o]}
             /\ colour' = [o \in Obj |-> colour'[o]]
             /\ sweepgcopage' = sweepgcopage \ {p}
             /\ gcstate' \in {"pause", "sweep"}
             /\ fullgc' \in {"none", fullgc}
             /\ UNCHANGED <<lists, currentwhite, atomicpc, uvhead, roots, sched>>
      BY <1>sweep DEF GcSweep, heap
    <2>2. ColourType'
      BY <2>1 DEF ColourType, PhaseType, Colour
    <2>3. TableType' /\ StackType' /\ UpvalType'
      BY <2>1, FreeType
    <2>4. PhaseType'
      BY <2>1 DEF PhaseType
    <2> QED
      BY <2>1, <2>2, <2>3, <2>4 DEF RootType, SchedType, Chain
  <1>nothing. ASSUME GcSweepNothing PROVE TypeInv'
    <2>1. ColourType'
      BY <1>nothing DEF GcSweepNothing, ColourType, PhaseType, Colour
    <2> QED
      BY <1>nothing, <2>1 DEF GcSweepNothing, ColourType, PhaseType, TableType, StackType, UpvalType,
         RootType, SchedType, Chain
  <1>full. ASSUME FullGc PROVE TypeInv'
    <2>1. PhaseType'
      <3>1. {PageOf[o] : o \in heap \ {MainThread}} \subseteq Page
        BY HeapAssumption DEF heap
      <3> QED
        BY <1>full, <3>1 DEF FullGc, PhaseType
    <2>2. ColourType'
      BY <1>full DEF FullGc, ColourType
    <2> QED
      BY <1>full, <2>1, <2>2 DEF FullGc, TableType, StackType, UpvalType,
         RootType, SchedType, Chain
  <1> QED
    BY <1>root, <1>propagate, <1>atomic, <1>finish, <1>sweep, <1>nothing,
       <1>full DEF GcStep

\* Every variable keeps its type: no action stores an upvalue where a script
\* would find it, lets a stack grow past its end or returns to no thread.
THEOREM TypeCorrect == Spec => []TypeOK
  <1>1. Init => TypeInv
    BY InitType
  <1>2. TypeInv /\ [Next]_vars => TypeInv'
    <2> SUFFICES ASSUME TypeInv, [Next]_vars PROVE TypeInv'
      OBVIOUS
    <2>1. CASE Next
      BY <2>1, MutatorType, CollectorType DEF Next
    <2>2. CASE UNCHANGED vars
      BY <2>2 DEF vars, TypeInv, TypeOK, lists, phase, tables, stacks, upvals,
         roots, sched, ColourType, PhaseType, TableType, StackType, UpvalType,
         RootType, SchedType, Chain
    <2> QED
      BY <2>1, <2>2
  <1>3. TypeInv => TypeOK
    BY DEF TypeInv
  <1> QED
    BY <1>1, <1>2, <1>3, PTL DEF Spec

-----------------------------------------------------------------------------
(* Colours and lists.                                                      *)

\* What the sweep has left behind is white, and atomic() is on its way only in
\* the state GCSatomic.
SweptIsWhite ==
  gcstate = "sweep" =>
    \A o \in heap \ {MainThread} :
      PageOf[o] \notin sweepgcopage => colour[o] = currentwhite

AtomicPhase == atomicpc # "none" => gcstate = "atomic"

ColourInv ==
  /\ TypeInv /\ AtomicPhase /\ SweptIsWhite
  /\ DeadOnlyInSweep /\ ColourDiscipline /\ GrayLists

-----------------------------------------------------------------------------
(* What an operation of the program does to one object.                      *)

SameLists(o) ==
  (o \in gray' <=> o \in gray) /\ (o \in grayagain' <=> o \in grayagain)

\* Left alone; new, brought back or given up; marked by a barrier; caught by a
\* backward barrier; an upvalue closed after it was marked.
Turn(o) ==
  \/ colour'[o] = colour[o] /\ SameLists(o)
  \/ /\ colour'[o] = currentwhite /\ SameLists(o)
     /\ keepinvariant => colour[o] = "free"
     /\ IsWhite(colour, o) => o \in Str
  \/ /\ keepinvariant /\ IsWhite(colour, o) /\ o \notin UpVal
     /\ (o \in grayagain' <=> o \in grayagain)
     /\ IF o \in Gclist THEN colour'[o] = "gray" /\ o \in gray'
        ELSE colour'[o] = "black" /\ (o \in gray' <=> o \in gray)
  \/ /\ colour[o] = "black" /\ colour'[o] = "gray" /\ o \in Gclist
     /\ (o \in gray' <=> o \in gray) /\ o \in grayagain'
  \/ /\ colour[o] = "gray" /\ colour'[o] = "black" /\ o \in UpVal
     /\ upthread'[o] = Nil /\ SameLists(o)

AllTurn == \A o \in Obj : Turn(o)

LEMMA WhiteDistinct ==
  /\ White0 # White1 /\ White = {White0, White1}
  /\ \A w \in White : w \notin {"gray", "black", "free"}
  BY HeapAssumption DEF White

LEMMA KindsApart ==
  /\ UpVal \cap Value = {} /\ Gclist \cap (Str \cup Leaf \cup Udata) = {}
  /\ UpVal \cap (Str \cup Leaf \cup Udata) = {} /\ UpVal \cap Gclist = {}
  /\ Nil \notin Obj /\ DeadKey \notin Obj
  BY HeapAssumption DEF Obj, Value, Gclist

\* The three facts about the phases and the lists follow from the turn of each
\* object alone.
LEMMA TurnKeepsLists ==
  ASSUME ColourInv, TypeInv', AllTurn, UNCHANGED <<phase, weak>>
  PROVE  AtomicPhase' /\ SweptIsWhite' /\ DeadOnlyInSweep' /\ GrayLists'
  <1> USE WhiteDistinct DEF ColourInv, phase
  <1>0. colour \in [Obj -> Colour] /\ currentwhite \in White
        /\ gcstate \in {"pause", "propagate", "propagateagain", "atomic", "sweep"}
    BY DEF TypeInv, TypeOK, ColourType, PhaseType
  <1>1. AtomicPhase'
    BY DEF AtomicPhase
  <1>2. SweptIsWhite'
    <2> SUFFICES ASSUME gcstate = "sweep", NEW o \in heap' \ {MainThread},
                        PageOf[o] \notin sweepgcopage
                 PROVE  colour'[o] = currentwhite
      BY DEF SweptIsWhite
    <2>1. o \in Obj /\ colour'[o] # "free" /\ Turn(o) /\ ~keepinvariant
      BY DEF AllTurn, heap, keepinvariant
    <2>2. CASE colour[o] = "free"
      BY <2>1, <2>2, <1>0 DEF Turn
    <2>3. CASE colour[o] = currentwhite
      BY <2>1, <2>3, <1>0 DEF Turn
    <2> QED
      BY <2>1, <2>2, <2>3 DEF SweptIsWhite, heap
  <1>3. DeadOnlyInSweep'
    <2>1. ASSUME gcstate # "sweep", NEW o \in heap'
          PROVE  ~isdead(o)'
      <3>1. o \in Obj /\ Turn(o)
        BY DEF AllTurn, heap
      <3>2. colour[o] # otherwhite \/ o = MainThread
        BY <2>1, <3>1, <1>0 DEF DeadOnlyInSweep, isdead, heap, otherwhite, White
      <3> QED
        BY <3>1, <3>2, <1>0 DEF Turn, isdead, otherwhite, White
    <2>2. ASSUME gcstate = "pause", NEW o \in heap'
          PROVE  colour'[o] = currentwhite
      <3>1. o \in Obj /\ Turn(o) /\ ~keepinvariant /\ colour'[o] # "free"
        BY <2>2 DEF AllTurn, heap, keepinvariant
      <3>2. colour[o] \in {"free", currentwhite}
        BY <2>2, <3>1 DEF DeadOnlyInSweep, heap
      <3> QED
        BY <3>1, <3>2, <1>0 DEF Turn
    <2> QED
      BY <2>1, <2>2 DEF DeadOnlyInSweep
  <1>4. GrayLists'
    <2> SUFFICES ASSUME keepinvariant PROVE GrayLists'
      BY DEF GrayLists, keepinvariant
    <2>1. \A o \in Gclist :
            /\ (colour[o] = "gray" <=> o \in gray \cup grayagain \cup weak)
            /\ ~(o \in gray /\ o \in grayagain) /\ ~(o \in gray /\ o \in weak)
            /\ ~(o \in grayagain /\ o \in weak)
      BY <1>0, KindTypes DEF GrayLists, heap
    <2>2. \A o \in Gclist :
            /\ (colour'[o] = "gray" <=> o \in gray' \cup grayagain' \cup weak)
            /\ ~(o \in gray' /\ o \in grayagain') /\ ~(o \in gray' /\ o \in weak)
            /\ ~(o \in grayagain' /\ o \in weak)
      <3> SUFFICES ASSUME NEW o \in Gclist
                   PROVE
            /\ (colour'[o] = "gray" <=> o \in gray' \cup grayagain' \cup weak)
            /\ ~(o \in gray' /\ o \in grayagain') /\ ~(o \in gray' /\ o \in weak)
            /\ ~(o \in grayagain' /\ o \in weak)
        OBVIOUS
      <3>1. Turn(o) /\ o \notin UpVal
        BY KindTypes, KindsApart DEF AllTurn
      <3>2. /\ (colour[o] = "gray" <=> o \in gray \cup grayagain \cup weak)
            /\ ~(o \in gray /\ o \in grayagain) /\ ~(o \in gray /\ o \in weak)
            /\ ~(o \in grayagain /\ o \in weak)
        BY <2>1
      <3> QED
        BY <3>1, <3>2, <1>0 DEF Turn, SameLists, IsWhite
    <2>3. gray' \subseteq Gclist /\ grayagain' \subseteq Gclist /\ weak \subseteq Gclist
      BY KindTypes DEF TypeInv, TypeOK, ColourType
    <2> QED
      BY <2>2, <2>3, KindTypes DEF GrayLists, heap
  <1> QED
    BY <1>1, <1>2, <1>3, <1>4

\* An open upvalue is not black, a closed one not gray.
UpvalColour(uv) ==
  colour[uv] # "free" => colour[uv] # (IF upisopen(uv) THEN "black" ELSE "gray")

LEMMA TurnKeepsDiscipline ==
  ASSUME ColourInv, TypeInv', AllTurn, \A uv \in UpVal : UpvalColour(uv)',
         \A th \in isactive' \ isactive : colour'[th] # "black"
  PROVE  ColourDiscipline'
  <1> USE WhiteDistinct DEF ColourInv
  <1>0. colour \in [Obj -> Colour] /\ currentwhite \in White
    BY DEF TypeInv, TypeOK, ColourType, PhaseType
  <1>1. ASSUME NEW o \in Str \cup Leaf \cup Udata, colour'[o] # "free"
        PROVE  colour'[o] # "gray"
    <2>1. o \in Obj /\ Turn(o) /\ o \notin Gclist
      BY KindTypes, KindsApart DEF AllTurn
    <2>2. colour[o] # "gray"
      BY <2>1 DEF ColourDiscipline, heap
    <2> QED
      BY <2>1, <2>2, <1>0 DEF Turn
  <1>2. ASSUME NEW th \in Thread, Active(th)'
        PROVE  colour'[th] # "black"
    <2>1. th \in Obj /\ Turn(th) /\ th \in Gclist /\ th \notin UpVal
      BY KindTypes, KindsApart DEF AllTurn
    <2>2. CASE Active(th)
      <3>1. colour[th] # "black"
        BY <2>1, <2>2 DEF ColourDiscipline, heap
      <3> QED
        BY <2>1, <3>1, <1>0 DEF Turn
    <2> QED
      BY <1>2, <2>2 DEF Active
  <1> QED
    BY <1>1, <1>2 DEF ColourDiscipline, UpvalColour, heap

LEMMA TurnUpvals ==
  ASSUME ColourInv, AllTurn, UNCHANGED upthread
  PROVE  \A uv \in UpVal : UpvalColour(uv)'
  <1> SUFFICES ASSUME NEW uv \in UpVal PROVE UpvalColour(uv)'
    OBVIOUS
  <1> USE WhiteDistinct
  <1>1. Turn(uv) /\ currentwhite \in White /\ uv \notin Gclist /\ uv \in Obj
    BY KindTypes, KindsApart DEF AllTurn, ColourInv, TypeInv, TypeOK, PhaseType
  <1>2. UpvalColour(uv)
    BY <1>1 DEF ColourInv, ColourDiscipline, heap, UpvalColour
  <1> QED
    BY <1>1, <1>2 DEF Turn, UpvalColour, upisopen

-----------------------------------------------------------------------------
(* The turns that the write barriers make.                                   *)

LEMMA ReachedFacts ==
  ASSUME TableType, NEW c, NEW S, S \cap UpVal = {}
  PROVE  \A o \in Reached(c, S) : o \in Obj \ UpVal /\ IsWhite(c, o)
  <1> DEFINE white(X) == {o \in X \cap Obj : IsWhite(c, o)}
             first == white(S)
             second == first \cup white({UpValue(uv) : uv \in first \cap UpVal})
  <1>1. second = first
    OBVIOUS
  <1>2. \A u \in Udata : metatable[u] \notin UpVal
    BY KindTypes, KindsApart, HeapAssumption DEF TableType
  <1>3. Reached(c, S) = second \cup white({metatable[u] : u \in second \cap Udata})
    BY DEF Reached
  <1> QED
    BY <1>1, <1>2, <1>3

LEMMA NoBarrierTurn == NoBarrier => AllTurn
  BY DEF NoBarrier, AllTurn, Turn, SameLists

LEMMA MarkNowTurn ==
  ASSUME TypeInv, NEW S, S \cap UpVal = {}, MarkNow(colour, S), keepinvariant
  PROVE  AllTurn
  <1> SUFFICES ASSUME NEW o \in Obj PROVE Turn(o)
    BY DEF AllTurn
  <1> DEFINE M == Reached(colour, S)
  <1>1. \A x \in M : x \in Obj \ UpVal /\ IsWhite(colour, x)
    BY ReachedFacts DEF TypeInv, TypeOK
  <1>2. /\ colour' = Marked(colour, M) /\ gray' = gray \cup (M \cap Gclist)
        /\ grayagain' = grayagain
    BY DEF MarkNow
  <1> HIDE DEF M
  <1>3. CASE o \in M
    BY <1>1, <1>2, <1>3 DEF Turn, Marked
  <1>4. CASE o \notin M
    BY <1>2, <1>4 DEF Turn, Marked, SameLists
  <1> QED
    BY <1>3, <1>4

LEMMA BarrierTurn ==
  ASSUME TypeInv, NEW o \in Obj, NEW S, S \cap UpVal = {}, luaC_barrier(o, S)
  PROVE  AllTurn
  <1>1. CASE NoBarrier
    BY <1>1, NoBarrierTurn
  <1>2. CASE luaC_barrierf(o, S) /\ keepinvariant
    BY <1>2, MarkNowTurn DEF luaC_barrierf
  <1>3. CASE luaC_barrierf(o, S) /\ ~keepinvariant /\ colour[o] = "black"
    BY <1>3, WhiteDistinct DEF luaC_barrierf, AllTurn, Turn, SameLists, IsWhite, TypeInv,
       TypeOK, ColourType
  <1> QED
    BY <1>1, <1>2, <1>3 DEF luaC_barrier

LEMMA BackTurn ==
  ASSUME TypeInv, NEW o \in Gclist, colour[o] = "black", luaC_barrierback(o)
  PROVE  AllTurn
  BY KindTypes DEF luaC_barrierback, AllTurn, Turn, SameLists, TypeInv, TypeOK,
     ColourType

LEMMA BackBarrierTurn ==
  ASSUME TypeInv, NEW o \in Gclist, NEW S, S \cap UpVal = {},
         luaC_barriert(o, S) \/ luaC_barrierfast(o)
  PROVE  AllTurn
  <1>1. CASE NoBarrier
    BY <1>1, NoBarrierTurn
  <1>2. CASE colour[o] = "black" /\ luaC_barrierback(o)
    BY <1>2, BackTurn
  <1>3. CASE gcstate = "propagateagain" /\ MarkNow(colour, S)
    BY <1>3, MarkNowTurn DEF keepinvariant
  <1> QED
    BY <1>1, <1>2, <1>3 DEF luaC_barriert, luaC_barrierfast

LEMMA InitTurn ==
  ASSUME ColourInv, NEW new, \A o \in new : o \notin heap \/ (isdead(o) /\ o \in Str),
         luaC_init(new), UNCHANGED <<gray, grayagain>>
  PROVE  AllTurn
  <1> SUFFICES ASSUME NEW o \in Obj PROVE Turn(o)
    BY DEF AllTurn
  <1>1. keepinvariant => \A x \in heap : ~isdead(x)
    BY DEF ColourInv, DeadOnlyInSweep, keepinvariant
  <1>2. CASE o \in new
    <2>1. keepinvariant => colour[o] = "free"
      BY <1>1, <1>2 DEF heap
    <2>2. IsWhite(colour, o) => o \in Str
      BY <1>2, WhiteDistinct DEF heap, IsWhite
    <2> QED
      BY <1>2, <2>1, <2>2 DEF luaC_init, Turn, SameLists
  <1>3. CASE o \notin new
    BY <1>3 DEF luaC_init, Turn, SameLists
  <1> QED
    BY <1>2, <1>3

\* luaF_close also keeps the colours of upvalues in order.
LEMMA CloseTurn ==
  ASSUME ColourInv, NEW th \in Thread, NEW level, luaF_close(th, level)
  PROVE  AllTurn /\ \A uv \in UpVal : UpvalColour(uv)'
  <1> USE DEF ColourInv, TypeInv, TypeOK
  <1> DEFINE C == {uv \in openupval[th] : uplevel[uv] >= level}
             M == {uv \in C : colour[uv] = "gray"}
             rec(x) == [o \in Obj |-> IF o \in M THEN x ELSE colour[o]]
             V == {UpValue(uv) : uv \in M}
  <1>1. C \subseteq UpVal /\ M \subseteq C
    BY DEF UpvalType
  <1>2. upthread' = [uv \in UpVal |-> IF uv \in C THEN Nil ELSE upthread[uv]]
    BY DEF luaF_close
  <1>3. IF keepinvariant THEN MarkNow(rec("black"), V)
        ELSE colour' = rec(currentwhite) /\ UNCHANGED <<gray, grayagain>>
    BY DEF luaF_close
  <1>4. V \cap UpVal = {}
    BY <1>1, UpValueType, KindsApart, KindTypes
  <1>5. \A uv \in M : upthread'[uv] = Nil /\ uv \in UpVal /\ colour[uv] = "gray"
    BY <1>1, <1>2
  <1> HIDE DEF C, M, V
  <1>6. CASE ~keepinvariant
    <2>1. AllTurn
      BY <1>3, <1>5, <1>6, WhiteDistinct DEF AllTurn, Turn, SameLists, IsWhite
    <2>2. ASSUME NEW uv \in UpVal PROVE UpvalColour(uv)'
      BY <1>1, <1>2, <1>3, <1>6, KindTypes, WhiteDistinct
         DEF UpvalColour, upisopen, ColourDiscipline, heap, M, PhaseType
    <2> QED
      BY <2>1, <2>2
  <1>7. CASE keepinvariant
    <2> DEFINE R == Reached(rec("black"), V)
    <2>1. \A x \in R : x \in Obj \ UpVal /\ IsWhite(rec("black"), x)
      BY <1>4, ReachedFacts
    <2>2. /\ colour' = Marked(rec("black"), R)
          /\ gray' = gray \cup (R \cap Gclist) /\ grayagain' = grayagain
      BY <1>3, <1>7 DEF MarkNow
    <2> HIDE DEF R
    <2>3. \A x \in R : x \in Obj \ UpVal /\ IsWhite(colour, x) /\ x \notin M
      BY <2>1, WhiteDistinct DEF IsWhite
    <2>4. ASSUME NEW o \in Obj PROVE Turn(o)
      <3>1. CASE o \in R
        BY <1>7, <2>2, <2>3, <3>1 DEF Turn, Marked
      <3>2. CASE o \in M
        BY <1>5, <2>2, <2>3, <3>2, KindsApart DEF Turn, Marked, SameLists
      <3>3. CASE o \notin R /\ o \notin M
        BY <2>2, <3>3 DEF Turn, Marked, SameLists
      <3> QED
        BY <3>1, <3>2, <3>3
    <2>5. ASSUME NEW uv \in UpVal PROVE UpvalColour(uv)'
      <3>1. colour'[uv] = IF uv \in M THEN "black" ELSE colour[uv]
        BY <2>2, <2>3, KindTypes DEF Marked
      <3>2. UpvalColour(uv)
        BY KindTypes DEF UpvalColour, ColourDiscipline, heap
      <3> QED
        BY <1>1, <1>2, <3>1, <3>2 DEF UpvalColour, upisopen, M, C, UpvalType
    <2> QED
      BY <2>4, <2>5 DEF AllTurn
  <1> QED
    BY <1>6, <1>7

-----------------------------------------------------------------------------
(* Every operation of the program makes such turns.                          *)

MutatorTurn ==
  /\ AllTurn /\ UNCHANGED <<phase, weak>>
  /\ \A uv \in UpVal : UpvalColour(uv)'
  /\ \A th \in isactive' \ isactive : colour'[th] # "black"

LEMMA HeldNoUpval ==
  ASSUME TypeInv
  PROVE  (Held \cup {Nil}) \cap UpVal = {}
  BY HeldType, KindsApart, KindTypes DEF TypeInv, TypeOK

LEMMA MutatorTurns == ColourInv /\ Mutate => MutatorTurn
  <1> SUFFICES ASSUME ColourInv, Mutate PROVE MutatorTurn
    OBVIOUS
  <1>0. TypeInv
    BY DEF ColourInv
  <1> USE <1>0 DEF lists, upvals, sched
  <1>load. ASSUME NEW i, Load(i) \/ Call(i) \/ Return(i) PROVE MutatorTurn
    <2>1. AllTurn
      BY <1>load, NoBarrierTurn DEF Load, Call, Return, NoBarrier
    <2> QED
      BY <1>load, <2>1, TurnUpvals DEF Load, Call, Return, MutatorTurn
  <1>object. ASSUME NEW o, NEW i, NewObject(o, i) PROVE MutatorTurn
    <2>1. AllTurn
      BY <1>object, InitTurn DEF NewObject
    <2> QED
      BY <1>object, <2>1, TurnUpvals DEF NewObject, MutatorTurn
  <1>string. ASSUME NEW s \in Str, NEW i, NewString(s, i) PROVE MutatorTurn
    <2>1. CASE UNCHANGED colour
      BY <1>string, <2>1, NoBarrierTurn, TurnUpvals
         DEF NewString, NoBarrier, MutatorTurn
    <2>2. CASE luaC_init({s}) /\ (s \notin heap \/ isdead(s))
      <3>1. AllTurn
        BY <1>string, <2>2, InitTurn DEF NewString
      <3> QED
        BY <1>string, <3>1, TurnUpvals DEF NewString, MutatorTurn
    <2> QED
      BY <1>string, <2>1, <2>2 DEF NewString, luaS_newlstr
  <1>closure. ASSUME NEW cl, NEW v, NEW i, NewClosure(cl, v, i) PROVE MutatorTurn
    <2>1. AllTurn
      BY <1>closure, InitTurn DEF NewClosure
    <2> QED
      BY <1>closure, <2>1, TurnUpvals DEF NewClosure, MutatorTurn
  <1>capture. ASSUME NEW cl, NEW uv \in UpVal, NEW l, NEW i, CaptureRef(cl, uv, l, i)
              PROVE MutatorTurn
    <2>1. CASE luaC_init({cl}) /\ UNCHANGED upvals
      <3>1. AllTurn
        BY <1>capture, <2>1, InitTurn DEF CaptureRef
      <3> QED
        BY <1>capture, <2>1, <3>1, TurnUpvals DEF CaptureRef, MutatorTurn
    <2>2. CASE /\ uv \in UpVal \ heap /\ luaC_init({cl, uv})
               /\ upthread' = [upthread EXCEPT ![uv] = run]
      <3>1. AllTurn
        BY <1>capture, <2>2, InitTurn DEF CaptureRef
      <3>2. ASSUME NEW u \in UpVal PROVE UpvalColour(u)'
        <4>1. cl \notin UpVal
          BY <1>capture, KindsApart, KindTypes DEF CaptureRef
        <4>2. UpvalColour(u)
          BY KindTypes DEF ColourInv, ColourDiscipline, heap, UpvalColour
        <4>3. colour'[u] = IF u = uv THEN currentwhite ELSE colour[u]
          BY <2>2, <4>1, KindTypes DEF luaC_init
        <4> QED
          BY <2>2, <4>2, <4>3, WhiteDistinct
             DEF UpvalColour, upisopen, TypeInv, TypeOK, UpvalType, PhaseType
      <3> QED
        BY <1>capture, <3>1, <3>2 DEF CaptureRef, MutatorTurn
    <2> QED
      BY <1>capture, <2>1, <2>2 DEF CaptureRef
  <1>settable. ASSUME NEW t \in Table, NEW n, NEW k \in Key \cup {Nil}, NEW v,
                      SetTable(t, n, k, v) \/ SetList(t, n, v)
               PROVE MutatorTurn
    <2>1. v \in Held \cup {Nil} /\ t \in Gclist
      BY <1>settable, KindTypes DEF SetTable, SetList
    <2>2. {v} \cap UpVal = {} /\ {k, v} \cap UpVal = {} /\ {} \cap UpVal = {}
      BY <2>1, HeldNoUpval, HeapAssumption, KindsApart, KindTypes
    <2>3. AllTurn
      BY <1>settable, <2>1, <2>2, BackBarrierTurn DEF SetTable, SetList
    <2> QED
      BY <1>settable, <2>3, TurnUpvals DEF SetTable, SetList, MutatorTurn
  <1>setmeta. ASSUME NEW o, NEW m, SetMetatable(o, m) PROVE MutatorTurn
    <2>1. o \in Obj /\ {m} \cap UpVal = {}
      BY <1>setmeta, HeldNoUpval, HeapAssumption, KindTypes, KindsApart
         DEF SetMetatable
    <2>2. AllTurn
      BY <1>setmeta, <2>1, BarrierTurn DEF SetMetatable
    <2> QED
      BY <1>setmeta, <2>2, TurnUpvals DEF SetMetatable, MutatorTurn
  <1>setmode. ASSUME NEW m, NEW md, SetMode(m, md) \/ SetBasicMt(m, md)
              PROVE MutatorTurn
    <2>1. AllTurn
      BY <1>setmode, NoBarrierTurn DEF SetMode, SetBasicMt, NoBarrier
    <2> QED
      BY <1>setmode, <2>1, TurnUpvals DEF SetMode, SetBasicMt, MutatorTurn
  <1>setupval. ASSUME NEW cl \in Closure, NEW v, SetUpval(cl, v) \/ lua_setupvalue(cl, v)
               PROVE MutatorTurn
    <2>1. cl \in Obj /\ {v} \cap UpVal = {}
      BY <1>setupval, HeldNoUpval, KindTypes, KindsApart DEF SetUpval, lua_setupvalue
    <2>2. AllTurn
      BY <1>setupval, <2>1, BarrierTurn, KindTypes DEF SetUpval, lua_setupvalue
    <2> QED
      BY <1>setupval, <2>2, TurnUpvals DEF SetUpval, lua_setupvalue, MutatorTurn
  <1>close. ASSUME NEW l, CloseUpvals(l) PROVE MutatorTurn
    BY <1>close, CloseTurn DEF CloseUpvals, MutatorTurn, TypeInv, TypeOK, SchedType
  <1>reset. ASSUME NEW co, ResetThread(co) PROVE MutatorTurn
    BY <1>reset, CloseTurn DEF ResetThread, Suspended, MutatorTurn
  <1>resume. ASSUME NEW co, Resume(co) PROVE MutatorTurn
    <2>1. co \in Thread /\ co \in Gclist /\ co \in Obj
      BY <1>resume, KindTypes DEF Resume, Suspended
    <2>2. AllTurn
      BY <1>resume, <2>1, BackBarrierTurn, KindsApart DEF Resume
    <2>3. colour'[co] # "black"
      BY <1>resume, <2>1 DEF Resume, luaC_barrierfast, luaC_barrierback, NoBarrier,
         TypeInv, TypeOK, ColourType
    <2> QED
      BY <1>resume, <2>2, <2>3, TurnUpvals DEF Resume, MutatorTurn
  <1>yield. ASSUME Yield PROVE MutatorTurn
    <2>1. AllTurn
      BY <1>yield, NoBarrierTurn DEF Yield, NoBarrier
    <2> QED
      BY <1>yield, <2>1, TurnUpvals DEF Yield, MutatorTurn
  <1>xpush. ASSUME NEW co, NEW v, XPush(co, v) PROVE MutatorTurn
    <2>1. co \in Gclist
      BY <1>xpush, KindTypes DEF XPush, Suspended
    <2>2. AllTurn
      BY <1>xpush, <2>1, {} \cap UpVal = {}, BackBarrierTurn DEF XPush
    <2> QED
      BY <1>xpush, <2>2, TurnUpvals DEF XPush, MutatorTurn
  <1>xpop. ASSUME NEW co, NEW i, XPop(co, i) PROVE MutatorTurn
    <2>1. AllTurn
      BY <1>xpop, NoBarrierTurn DEF XPop, NoBarrier
    <2> QED
      BY <1>xpop, <2>1, TurnUpvals DEF XPop, MutatorTurn
  <1>ref. ASSUME NEW r, NEW v, Ref(r, v) \/ Unref(r) PROVE MutatorTurn
    <2>1. AllTurn
      BY <1>ref, NoBarrierTurn DEF Ref, Unref, NoBarrier
    <2> QED
      BY <1>ref, <2>1, TurnUpvals DEF Ref, Unref, MutatorTurn
  <1>unref. ASSUME NEW r, Unref(r) PROVE MutatorTurn
    BY <1>unref, <1>ref
  <1> QED
    BY <1>load, <1>object, <1>string, <1>closure, <1>capture, <1>settable,
       <1>setmeta, <1>setmode, <1>setupval, <1>close, <1>reset, <1>resume,
       <1>yield, <1>xpush, <1>xpop, <1>ref, <1>unref, HeapAssumption DEF Mutate

LEMMA MutatorColours == ColourInv /\ Mutate => ColourInv'
  <1> SUFFICES ASSUME ColourInv, Mutate PROVE ColourInv'
    OBVIOUS
  <1>1. MutatorTurn /\ TypeInv'
    BY MutatorTurns, MutatorType DEF ColourInv
  <1>2. ColourDiscipline'
    BY <1>1, TurnKeepsDiscipline DEF MutatorTurn
  <1>3. AtomicPhase' /\ SweptIsWhite' /\ DeadOnlyInSweep' /\ GrayLists'
    BY <1>1, TurnKeepsLists DEF MutatorTurn
  <1> QED
    BY <1>1, <1>2, <1>3 DEF ColourInv

-----------------------------------------------------------------------------
(* The steps of the collector.                                               *)

LEMMA ReachedWhite ==
  ASSUME NEW c, NEW S
  PROVE  \A o \in Reached(c, S) : o \in Obj /\ IsWhite(c, o)
  BY DEF Reached

\* One part of marking: the objects of M, white before, are marked.
LEMMA MarkedColours ==
  ASSUME ColourInv, NEW M, \A o \in M : o \in Obj /\ IsWhite(colour, o),
         colour' = Marked(colour, M), UNCHANGED <<currentwhite, upthread, isactive>>
  PROVE  /\ ColourDiscipline'
         /\ gcstate # "sweep" => \A o \in heap' : ~isdead(o)'
         /\ \A o \in Gclist : colour'[o] = "gray" <=> colour[o] = "gray" \/ o \in M
  <1> USE WhiteDistinct, KindTypes, KindsApart DEF ColourInv
  <1>0. colour \in [Obj -> Colour] /\ currentwhite \in White
    BY DEF TypeInv, TypeOK, ColourType, PhaseType
  <1>1. ColourDiscipline'
    <2>1. ASSUME NEW o \in Str \cup Leaf \cup Udata, o \in heap'
          PROVE  colour'[o] # "gray"
      BY <2>1, <1>0 DEF ColourDiscipline, heap, Marked
    <2>2. ASSUME NEW uv \in UpVal, uv \in heap'
          PROVE  colour'[uv] # (IF upisopen(uv)' THEN "black" ELSE "gray")
      <3>1. CASE uv \in M
        BY <3>1 DEF Marked, upisopen
      <3>2. CASE uv \notin M
        BY <2>2, <3>2 DEF Marked, upisopen, ColourDiscipline, heap
      <3> QED
        BY <3>1, <3>2
    <2>3. ASSUME NEW th \in Thread, th \in heap', Active(th)'
          PROVE  colour'[th] # "black"
      BY <2>3, <1>0 DEF ColourDiscipline, heap, Marked, Active
    <2> QED
      BY <2>1, <2>2, <2>3 DEF ColourDiscipline
  <1>2. ASSUME gcstate # "sweep", NEW o \in heap' PROVE ~isdead(o)'
    <2>1. o \in Obj
      BY DEF heap
    <2>2. CASE o \in M
      BY <2>1, <2>2, <1>0 DEF isdead, Marked, otherwhite, White
    <2>3. CASE o \notin M
      BY <1>2, <2>1, <2>3, <1>0 DEF isdead, Marked, otherwhite, heap, DeadOnlyInSweep
    <2> QED
      BY <2>2, <2>3
  <1>3. ASSUME NEW o \in Gclist
        PROVE  colour'[o] = "gray" <=> colour[o] = "gray" \/ o \in M
    BY <1>0 DEF Marked
  <1> QED
    BY <1>1, <1>2, <1>3

\* GrayLists, told object by object.
Listed(o) ==
  /\ colour[o] = "gray" <=> o \in gray \/ o \in grayagain \/ o \in weak
  /\ ~(o \in gray /\ o \in grayagain) /\ ~(o \in gray /\ o \in weak)
  /\ ~(o \in grayagain /\ o \in weak)

LEMMA GrayListsListed ==
  ASSUME TypeInv
  PROVE  GrayLists <=> (keepinvariant => \A o \in Gclist : Listed(o))
  <1>1. gray \subseteq Gclist /\ grayagain \subseteq Gclist /\ weak \subseteq Gclist
    BY KindTypes DEF TypeInv, TypeOK, ColourType
  <1> QED
    BY <1>1, KindTypes DEF GrayLists, Listed, heap

LEMMA GrayListsListedNext ==
  ASSUME TypeInv'
  PROVE  GrayLists' <=> (keepinvariant' => \A o \in Gclist : Listed(o)')
  <1>1. gray' \subseteq Gclist /\ grayagain' \subseteq Gclist /\ weak' \subseteq Gclist
    BY KindTypes DEF TypeInv, TypeOK, ColourType
  <1> QED
    BY <1>1, KindTypes DEF GrayLists, Listed, heap

LEMMA CollectorColours == ColourInv /\ (GcStep \/ FullGc) => ColourInv'
  <1> SUFFICES ASSUME ColourInv, GcStep \/ FullGc PROVE ColourInv'
    OBVIOUS
  <1>0. /\ TypeInv /\ TypeInv' /\ colour \in [Obj -> Colour] /\ currentwhite \in White
        /\ gray \subseteq Gclist /\ grayagain \subseteq Gclist /\ weak \subseteq Table
    BY CollectorType DEF ColourInv, TypeInv, TypeOK, ColourType, PhaseType
  <1> USE WhiteDistinct DEF lists, phase, tables, stacks, upvals, roots, sched
  <1>root. ASSUME GcPause \/ FullGcMark PROVE ColourInv'
    <2> DEFINE M == Reached(colour, {MainThread} \cup Pool \cup BasicMt)
    <2>1. markroot /\ gcstate = "pause" /\ atomicpc = "none"
      BY <1>root DEF GcPause, FullGcMark, ColourInv, AtomicPhase
    <2>2. /\ colour' = Marked(colour, M) /\ gray' = M \cap Gclist /\ grayagain' = {}
          /\ weak' = {} /\ gcstate' = "propagate" /\ atomicpc' = "none"
          /\ UNCHANGED <<currentwhite, upthread, isactive>>
      BY <2>1 DEF markroot
    <2>3. \A o \in M : o \in Obj /\ IsWhite(colour, o)
      BY ReachedWhite
    <2> HIDE DEF M
    <2>4. /\ ColourDiscipline' /\ \A o \in heap' : ~isdead(o)'
          /\ \A o \in Gclist : colour'[o] = "gray" <=> colour[o] = "gray" \/ o \in M
      BY <2>1, <2>2, <2>3, MarkedColours
    <2>5. \A o \in Gclist : colour[o] # "gray"
      BY <1>0, <2>1, KindTypes DEF ColourInv, DeadOnlyInSweep, heap
    <2>6. GrayLists'
      BY <1>0, <2>2, <2>4, <2>5, GrayListsListedNext DEF Listed
    <2> QED
      BY <1>0, <2>2, <2>4, <2>6 DEF ColourInv, AtomicPhase, SweptIsWhite, DeadOnlyInSweep
  <1>propagate. ASSUME GcPropagate \/ GcPropagateagain \/ AtomicPropagate
                PROVE ColourInv'
    <2>1. keepinvariant /\ keepinvariant' /\ AtomicPhase'
      BY <1>propagate DEF GcPropagate, GcPropagateagain, AtomicPropagate, ColourInv,
         AtomicPhase, keepinvariant
    <2>2. PICK o \in gray :
            /\ propagatemark(o)
            /\ \/ gray' = GrayAfter(o) /\ grayagain' = GrayagainAfter(o)
               \/ /\ GrayAfter(o) = {}
                  /\ gray' = GrayagainAfter(o) /\ grayagain' = {}
      BY <1>propagate DEF GcPropagate, GcPropagateagain, AtomicPropagate
    <2> DEFINE M == NewlyMarked(o)
    <2>3. o \in Gclist /\ o \in Obj
      BY <1>0, KindTypes
    <2>4. \A x \in M : x \in Obj /\ IsWhite(colour, x) /\ x # o
      <3>1. \A x \in M : x \in Obj /\ IsWhite([colour EXCEPT ![o] = "black"], x)
        BY ReachedWhite DEF NewlyMarked
      <3> QED
        BY <1>0, <2>3, <3>1 DEF IsWhite
    <2>5. /\ colour' = [Marked(colour, M) EXCEPT ![o] =
                          IF StaysGray(o) THEN "gray" ELSE "black"]
          /\ GrayAfter(o) = (gray \ {o}) \cup (M \cap Gclist)
          /\ weak' = IF o \in Table /\ TableMode(o) # {} THEN weak \cup {o} ELSE weak
          /\ GrayagainAfter(o) = IF o \in Thread /\ Active(o) THEN grayagain \cup {o}
                                 ELSE grayagain
          /\ UNCHANGED <<upthread, isactive>>
      BY <2>2 DEF propagatemark, ColourAfter, GrayAfter, GrayagainAfter, WeakAfter
    <2> HIDE DEF M
    <2>6. UNCHANGED currentwhite
      BY <1>propagate DEF GcPropagate, GcPropagateagain, AtomicPropagate
    <2>7. \A x \in Obj : colour'[x] = IF x = o THEN IF StaysGray(o) THEN "gray" ELSE "black"
                                      ELSE Marked(colour, M)[x]
      BY <2>3, <2>5 DEF Marked
    <2>8. DeadOnlyInSweep'
      <3>1. \A x \in heap' : ~isdead(x)'
        <4> SUFFICES ASSUME NEW x \in heap' PROVE ~isdead(x)'
          OBVIOUS
        <4>1. x \in Obj /\ (colour[x] = otherwhite => x = MainThread \/ colour[x] = "free")
          BY <2>1 DEF heap, ColourInv, DeadOnlyInSweep, isdead, keepinvariant
        <4> QED
          BY <1>0, <2>6, <2>7, <4>1 DEF isdead, otherwhite, Marked, White
      <3> QED
        BY <2>1, <3>1 DEF DeadOnlyInSweep, keepinvariant
    <2>9. ColourDiscipline'
      <3>1. ASSUME NEW x \in Str \cup Leaf \cup Udata, x \in heap'
            PROVE  colour'[x] # "gray"
        BY <3>1, <1>0, <2>3, <2>4, <2>7, KindTypes, KindsApart
           DEF ColourInv, ColourDiscipline, heap, Marked, IsWhite
      <3>2. ASSUME NEW uv \in UpVal, uv \in heap'
            PROVE  colour'[uv] # (IF upisopen(uv)' THEN "black" ELSE "gray")
        <4>1. uv # o /\ uv \in Obj /\ uv \notin Gclist
          BY <2>3, KindTypes, KindsApart
        <4>2. CASE uv \in M
          BY <2>5, <2>7, <4>1, <4>2 DEF Marked, upisopen
        <4>3. CASE uv \notin M
          BY <3>2, <2>5, <2>7, <4>1, <4>3
             DEF Marked, upisopen, ColourInv, ColourDiscipline, heap
        <4> QED
          BY <4>2, <4>3
      <3>3. ASSUME NEW th \in Thread, th \in heap', Active(th)'
            PROVE  colour'[th] # "black"
        BY <3>3, <1>0, <2>4, <2>5, <2>7, KindTypes
           DEF ColourInv, ColourDiscipline, heap, Marked, Active, StaysGray
      <3> QED
        BY <3>1, <3>2, <3>3 DEF ColourDiscipline
    <2>10. GrayLists'
      <3> SUFFICES ASSUME NEW x \in Gclist PROVE Listed(x)'
        BY <1>0, GrayListsListedNext
      <3>1. Listed(x) /\ x \in Obj
        BY <1>0, <2>1, GrayListsListed, KindTypes DEF ColourInv
      <3>2. Listed(o)
        BY <1>0, <2>1, <2>3, GrayListsListed DEF ColourInv
      <3>3. CASE x = o
        <4>1. ~(o \in Table /\ o \in Thread) /\ o \notin M
          BY <2>4, HeapAssumption
        <4> QED
          BY <2>2, <2>3, <2>5, <2>7, <3>2, <3>3, <4>1 DEF Listed, StaysGray
      <3>4. CASE x # o /\ x \in M
        <4>1. colour[x] # "gray" /\ colour'[x] = "gray"
          BY <2>4, <2>7, <3>1, <3>4 DEF IsWhite, Marked
        <4> QED
          BY <2>2, <2>5, <3>1, <3>4, <4>1 DEF Listed
      <3>5. CASE x # o /\ x \notin M
        <4>1. colour'[x] = colour[x]
          BY <2>7, <3>1, <3>5 DEF Marked
        <4> QED
          BY <2>2, <2>5, <3>1, <3>5, <4>1 DEF Listed
      <3> QED
        BY <3>3, <3>4, <3>5
    <2> QED
      BY <1>0, <2>1, <2>8, <2>9, <2>10 DEF ColourInv, SweptIsWhite, keepinvariant
  <1>atomic. ASSUME AtomicUpvals \/ AtomicWeak \/ AtomicGrayagain \/ AtomicRefs
             PROVE ColourInv'
    <2>1. gcstate = "atomic" /\ gcstate' = "atomic" /\ keepinvariant
      BY <1>atomic DEF AtomicUpvals, AtomicWeak, AtomicGrayagain, AtomicRefs, AtomicMark,
         ColourInv, AtomicPhase, keepinvariant
    <2>2. PICK M : /\ AtomicMark(M)
                   /\ \A x \in M : x \in Obj /\ IsWhite(colour, x)
                   /\ \/ /\ gray' = gray \cup (M \cap Gclist)
                         /\ UNCHANGED <<grayagain, weak>>
                      \/ /\ gray = {} /\ gray' = weak \cup (M \cap Gclist)
                         /\ weak' = {} /\ UNCHANGED grayagain
                      \/ /\ gray = {} /\ M = {} /\ gray' = grayagain
                         /\ grayagain' = {} /\ UNCHANGED weak
      <3>1. CASE AtomicUpvals
        BY <3>1, ReachedWhite DEF AtomicUpvals
      <3>2. CASE AtomicWeak
        BY <3>2, ReachedWhite DEF AtomicWeak
      <3>3. CASE AtomicGrayagain
        BY <3>3 DEF AtomicGrayagain
      <3>4. CASE AtomicRefs
        <4>1. CASE gc_ref_gray
          BY <3>4, <4>1, ReachedWhite DEF AtomicRefs
        <4>2. CASE ~gc_ref_gray
          BY <3>4, <4>2 DEF AtomicRefs
        <4> QED
          BY <4>1, <4>2
      <3> QED
        BY <1>atomic, <3>1, <3>2, <3>3, <3>4
    <2>3. /\ ColourDiscipline' /\ \A x \in heap' : ~isdead(x)'
          /\ \A x \in Gclist : colour'[x] = "gray" <=> colour[x] = "gray" \/ x \in M
      BY <2>1, <2>2, MarkedColours DEF AtomicMark
    <2>4. GrayLists'
      <3> SUFFICES ASSUME NEW x \in Gclist PROVE Listed(x)'
        BY <1>0, GrayListsListedNext
      <3>1. Listed(x)
        BY <1>0, <2>1, GrayListsListed DEF ColourInv
      <3>2. x \in M => colour[x] # "gray"
        BY <2>2 DEF IsWhite
      <3> QED
        BY <2>2, <2>3, <3>1, <3>2 DEF Listed
    <2> QED
      BY <1>0, <2>1, <2>3, <2>4 DEF ColourInv, AtomicPhase, SweptIsWhite, DeadOnlyInSweep
  <1>finish. ASSUME AtomicFinish PROVE ColourInv'
    <2> DEFINE closed == [o \in Obj |-> IF o \in ToClose \cup WeakStrings THEN "black"
                                        ELSE colour[o]]
               V == {UpValue(uv) : uv \in ToClose}
               M == Reached(closed, V)
    <2>1. /\ colour' = Marked(closed, M) /\ gcstate' = "sweep" /\ atomicpc' = "none"
          /\ upthread' = [uv \in UpVal |-> IF uv \in ToClose THEN Nil ELSE upthread[uv]]
          /\ sweepgcopage' = {PageOf[o] : o \in heap \ {MainThread}}
          /\ UNCHANGED isactive
      BY <1>finish DEF AtomicFinish
    <2>2. ToClose \subseteq UpVal \cap heap /\ WeakStrings \subseteq Str \cap heap
      BY <1>0, KindTypes DEF ToClose, Orphans, WeakStrings, heap, TypeInv, TypeOK, UpvalType
    <2>3. V \cap UpVal = {}
      BY <1>0, <2>2, UpValueType, KindsApart, KindTypes DEF TypeInv, TypeOK
    <2>4. \A o \in M : o \in Obj \ UpVal /\ IsWhite(closed, o)
      BY <1>0, <2>3, ReachedFacts DEF TypeInv, TypeOK
    <2>5. \A o \in M : o \in Obj \ UpVal /\ IsWhite(colour, o) /\ closed[o] = colour[o]
      BY <2>4 DEF IsWhite
    <2>6. \A o \in Obj : colour'[o] = IF o \in M THEN IF o \in Gclist THEN "gray" ELSE "black"
                                      ELSE closed[o]
      BY <2>1, <2>5 DEF Marked
    <2> HIDE DEF M, V
    <2>7. \A o \in Obj : colour'[o] # "free" => colour[o] # "free"
      BY <2>2, <2>5, <2>6 DEF heap, IsWhite
    <2>8. SweptIsWhite'
      BY <2>1, <2>7 DEF SweptIsWhite, heap
    <2>9. ColourDiscipline'
      <3>1. ASSUME NEW x \in Str \cup Leaf \cup Udata, x \in heap'
            PROVE  colour'[x] # "gray"
        <4>1. x \in Obj /\ x \notin Gclist /\ colour[x] # "gray"
          BY <3>1, <2>7, KindTypes, KindsApart DEF heap, ColourInv, ColourDiscipline
        <4> QED
          BY <2>6, <4>1
      <3>2. ASSUME NEW uv \in UpVal, uv \in heap'
            PROVE  colour'[uv] # (IF upisopen(uv)' THEN "black" ELSE "gray")
        <4>1. uv \in Obj /\ uv \notin M /\ uv \notin WeakStrings
          BY <2>2, <2>5, KindTypes, KindsApart
        <4>2. colour[uv] # (IF upisopen(uv) THEN "black" ELSE "gray")
          BY <3>2, <2>7, <4>1 DEF heap, ColourInv, ColourDiscipline
        <4>3. CASE uv \in ToClose
          BY <2>1, <2>6, <4>1, <4>3 DEF upisopen
        <4>4. CASE uv \notin ToClose
          BY <2>1, <2>6, <4>1, <4>2, <4>4 DEF upisopen
        <4> QED
          BY <4>3, <4>4
      <3>3. ASSUME NEW th \in Thread, th \in heap', Active(th)'
            PROVE  colour'[th] # "black"
        <4>1. th \in Gclist /\ th \in Obj /\ th \notin ToClose \cup WeakStrings
          BY <2>2, KindTypes, KindsApart
        <4>2. colour[th] # "black"
          BY <3>3, <2>1, <2>7, <4>1 DEF heap, ColourInv, ColourDiscipline, Active
        <4> QED
          BY <2>6, <4>1, <4>2
      <3> QED
        BY <3>1, <3>2, <3>3 DEF ColourDiscipline
    <2> QED
      BY <1>0, <2>1, <2>8, <2>9 DEF ColourInv, AtomicPhase, DeadOnlyInSweep, GrayLists,
         keepinvariant
  <1>sweep. ASSUME GcSweep PROVE ColourInv'
    <2>1. PICK p \in sweepgcopage :
            LET swept == {o \in heap \ {MainThread} : PageOf[o] = p}
                dead == {o \in swept : isdead(o)}
                last == sweepgcopage = {p}
            IN /\ freeobj(dead)
               /\ colour' = [o \in Obj |->
                               IF o \in dead THEN "free"
                               ELSE IF o \in swept \/ (last /\ o = MainThread)
                                    THEN currentwhite ELSE colour[o]]
               /\ sweepgcopage' = sweepgcopage \ {p}
               /\ gcstate' = IF last THEN "pause" ELSE "sweep"
      BY <1>sweep DEF GcSweep
    <2> DEFINE swept == {o \in heap \ {MainThread} : PageOf[o] = p}
               dead == {o \in swept : isdead(o)}
               last == sweepgcopage = {p}
    <2>2. gcstate = "sweep" /\ UNCHANGED <<currentwhite, atomicpc, isactive>>
      BY <1>sweep DEF GcSweep
    <2>3. \A o \in Obj : colour'[o] = IF o \in dead THEN "free"
                                      ELSE IF o \in swept \/ (last /\ o = MainThread)
                                           THEN currentwhite ELSE colour[o]
      BY <2>1
    <2>4. \A o \in heap' : o \notin dead /\ (o \in heap \/ colour'[o] = currentwhite)
      BY <1>0, <2>3 DEF heap
    <2>5. AtomicPhase'
      BY <2>2 DEF ColourInv, AtomicPhase
    <2>6. \A o \in heap' \ {MainThread} :
            PageOf[o] \notin sweepgcopage \ {p} => colour'[o] = currentwhite
      BY <2>2, <2>3, <2>4 DEF ColourInv, SweptIsWhite, heap
    <2>7. SweptIsWhite'
      BY <2>1, <2>2, <2>6 DEF SweptIsWhite
    <2>8. DeadOnlyInSweep'
      <3> SUFFICES ASSUME last PROVE DeadOnlyInSweep'
        BY <2>1 DEF DeadOnlyInSweep
      <3>1. \A o \in heap' : colour'[o] = currentwhite
        BY <2>3, <2>4, <2>6 DEF heap
      <3> QED
        BY <1>0, <2>2, <3>1 DEF DeadOnlyInSweep, isdead, otherwhite, White
    <2>9. ColourDiscipline'
      <3>1. \A o \in heap' : \/ colour'[o] = currentwhite
                             \/ o \in heap /\ colour'[o] = colour[o]
        BY <2>3, <2>4 DEF heap
      <3>2. \A uv \in UpVal : uv \notin dead => upthread'[uv] = upthread[uv]
        BY <1>0, <2>1 DEF freeobj, Keep, TypeInv, TypeOK, UpvalType
      <3>3. \A uv \in UpVal \cap heap' : upisopen(uv)' <=> upisopen(uv)
        BY <2>4, <3>2 DEF upisopen
      <3> QED
        BY <1>0, <2>2, <3>1, <3>3 DEF ColourInv, ColourDiscipline, Active
    <2> QED
      BY <1>0, <2>1, <2>5, <2>7, <2>8, <2>9 DEF ColourInv, GrayLists, keepinvariant
  <1>nothing. ASSUME GcSweepNothing PROVE ColourInv'
    <2>1. /\ gcstate = "sweep" /\ sweepgcopage = {} /\ gcstate' = "pause"
          /\ colour' = [colour EXCEPT ![MainThread] = currentwhite]
          /\ UNCHANGED <<currentwhite, atomicpc, upthread, isactive>>
      BY <1>nothing DEF GcSweepNothing
    <2>2. MainThread \in Obj
      BY HeapAssumption, KindTypes
    <2>3. \A o \in heap' : colour'[o] = currentwhite
      BY <1>0, <2>1, <2>2 DEF ColourInv, SweptIsWhite, heap
    <2>4. DeadOnlyInSweep' /\ ColourDiscipline'
      BY <1>0, <2>1, <2>3 DEF DeadOnlyInSweep, ColourDiscipline, isdead, otherwhite, White
    <2> QED
      BY <1>0, <2>1, <2>4 DEF ColourInv, AtomicPhase, SweptIsWhite, GrayLists, keepinvariant
  <1>full. ASSUME FullGc PROVE ColourInv'
    <2>1. /\ atomicpc = "none"
          /\ UNCHANGED <<colour, currentwhite, atomicpc, upthread, isactive>>
      BY <1>full DEF FullGc
    <2>2. ColourDiscipline' /\ AtomicPhase'
      BY <2>1 DEF ColourInv, ColourDiscipline, AtomicPhase, heap, upisopen, Active
    <2>3. CASE keepinvariant
      <3>1. gcstate' = "sweep" /\ sweepgcopage' = {PageOf[o] : o \in heap \ {MainThread}}
        BY <1>full, <2>3 DEF FullGc
      <3> QED
        BY <1>0, <2>1, <2>2, <3>1 DEF ColourInv, SweptIsWhite, DeadOnlyInSweep, GrayLists,
           keepinvariant, heap
    <2>4. CASE ~keepinvariant
      <3>1. UNCHANGED <<gcstate, sweepgcopage>>
        BY <1>full, <2>4 DEF FullGc
      <3> QED
        BY <1>0, <2>1, <2>2, <2>4, <3>1 DEF ColourInv, SweptIsWhite, DeadOnlyInSweep,
           GrayLists, keepinvariant, heap, isdead, otherwhite
    <2> QED
      BY <2>3, <2>4
  <1> QED
    BY <1>root, <1>propagate, <1>atomic, <1>finish, <1>sweep, <1>nothing, <1>full
       DEF GcStep

-----------------------------------------------------------------------------
(* The theorems.                                                             *)

LEMMA InitColours == Init => ColourInv
  <1> SUFFICES ASSUME Init PROVE ColourInv
    OBVIOUS
  <1> USE WhiteDistinct DEF Init
  <1>1. TypeInv
    BY InitType
  <1>2. \A o \in heap : o = MainThread /\ colour[o] = currentwhite
    BY DEF heap
  <1>3. MainThread \in Thread /\ MainThread \in Obj
    BY HeapAssumption, KindTypes
  <1>4. DeadOnlyInSweep
    BY <1>2 DEF DeadOnlyInSweep, isdead
  <1>5. ColourDiscipline
    BY <1>2 DEF ColourDiscipline, White
  <1> QED
    BY <1>1, <1>4, <1>5 DEF ColourInv, AtomicPhase, SweptIsWhite, GrayLists, keepinvariant

LEMMA ColourInductive == Spec => []ColourInv
  <1>1. ColourInv /\ [Next]_vars => ColourInv'
    <2> SUFFICES ASSUME ColourInv, [Next]_vars PROVE ColourInv'
      OBVIOUS
    <2>1. CASE Next
      BY <2>1, MutatorColours, CollectorColours DEF Next
    <2>2. CASE UNCHANGED vars
      <3>1. TypeInv'
        BY <2>2 DEF ColourInv, vars, TypeInv, TypeOK, lists, phase, tables, stacks, upvals,
           roots, sched, ColourType, PhaseType, TableType, StackType, UpvalType,
           RootType, SchedType, Chain
      <3> QED
        BY <2>2, <3>1 DEF ColourInv, vars, lists, phase, upvals, sched, AtomicPhase,
           SweptIsWhite, DeadOnlyInSweep, ColourDiscipline, GrayLists, keepinvariant,
           heap, isdead, otherwhite, upisopen, Active
    <2> QED
      BY <2>1, <2>2
  <1> QED
    BY InitColours, <1>1, PTL DEF Spec

\* Dead objects exist only while sweeping, and a cycle starts from a heap that is
\* all of the current white: no sweep leaves an object behind, and no object is
\* allocated, caught or brought back in a colour that the next flip would kill.
THEOREM DeadOnlyInSweepAlways == Spec => []DeadOnlyInSweep
  BY ColourInductive, PTL DEF ColourInv

\* Leaf objects are never gray, open upvalues never black and closed ones never
\* gray, a running thread never black, whatever the order of barriers, closing,
\* resumption and collection steps.
THEOREM ColourDisciplineAlways == Spec => []ColourDiscipline
  BY ColourInductive, PTL DEF ColourInv

\* While marking, the gray objects are exactly those in the three lists, each in
\* one of them: propagation never loses an object and never links it twice.
THEOREM GrayListsAlways == Spec => []GrayLists
  BY ColourInductive, PTL DEF ColourInv

=============================================================================
