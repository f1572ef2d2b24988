-------------------------------- MODULE Heap --------------------------------
(* The collected heap of the Luwu virtual machine: the objects, what they    *)
(* refer to, their colours, and the marking primitive every part of the      *)
(* collector and of the write barriers is built from (VM/src/lgc.h,          *)
(* VM/src/lgc.cpp, VM/src/lobject.h, VM/src/lstate.h).                       *)
EXTENDS Integers, FiniteSets

CONSTANTS
  Thread,      \* coroutines (LUA_TTHREAD)
  MainThread,  \* global_State.mainthread, the one fixed object
  Table,       \* LUA_TTABLE
  Closure,     \* LUA_TFUNCTION
  UpVal,       \* LUA_TUPVAL
  Udata,       \* LUA_TUSERDATA
  Str,         \* LUA_TSTRING, interned
  Leaf,        \* LUA_TBUFFER and LUA_TVECTOR
  Holder,      \* the tables that programs store entries or a metatable in
  Meta,        \* the tables that programs use as metatables
  Mode,        \* the values of __mode that programs assign
  Key,         \* the objects that programs use as keys
  Page,        \* pages of collectable blocks (lua_Page)
  PageOf,      \* the page an object's block lies in
  StackSize,   \* slots of a thread's stack
  Frame,       \* the heights of the stack that calls and returns lead to
  NodeCount,   \* entries of a table
  BasicType,   \* types whose values share one metatable
  Collects,    \* the threads whose program asks for a full collection
  White0,      \* the colours WHITE0BIT and WHITE1BIT stand for
  White1,
  RefId,       \* slots of the reference pool
  Nil,         \* a value that is not collectable
  DeadKey      \* LUA_TDEADKEY

Gclist == Thread \cup Table \cup Closure   \* the kinds with a gclist field
Value == Gclist \cup Udata \cup Str \cup Leaf  \* what a script can hold
Obj == Value \cup UpVal
Slot == 1..StackSize
Node == 1..NodeCount
White == {White0, White1}
Colour == White \cup {"gray", "black", "free"}

\* Every kind of object is a set of its own, the main thread is a thread, and
\* the two special values are no objects.
ASSUME HeapAssumption ==
  /\ MainThread \in Thread
  /\ Table \cap (Thread \cup Closure) = {} /\ Thread \cap Closure = {}
  /\ Udata \cap Gclist = {} /\ Str \cap (Gclist \cup Udata) = {}
  /\ Leaf \cap (Gclist \cup Udata \cup Str) = {}
  /\ UpVal \cap Value = {}
  /\ Holder \subseteq Table /\ Meta \subseteq Table /\ Key \subseteq Value
  /\ White0 # White1 /\ White \cap {"gray", "black", "free"} = {}
  /\ Collects \subseteq Thread
  /\ Nil \notin Obj /\ DeadKey \notin Obj /\ Nil # DeadKey
  /\ PageOf \in [Obj \ {MainThread} -> Page]
  /\ StackSize \in Nat \ {0} /\ Frame \subseteq 0..StackSize
  /\ NodeCount \in Nat
  /\ {} \in Mode /\ Mode \subseteq SUBSET {"k", "v"}

VARIABLES
  colour,        \* GCheader.marked, "free" for a block that is no object
  currentwhite,  \* g->currentwhite
  gcstate,       \* g->gcstate
  gray,          \* g->gray, g->grayagain and g->weak, linked through gclist
  grayagain,
  weak,
  sweepgcopage,  \* the pages the sweep has still to visit
  atomicpc,      \* how far atomic() has come; "none" outside it
  fullgc,        \* how far luaC_fullgc has come; "none" outside it
  node,          \* LuaNode key and value of each entry of a table
  metatable,     \* of tables and userdata
  mode,          \* the __mode field of a table
  stack,         \* lua_State.stack, the slots above top included
  top,           \* lua_State.top
  openupval,     \* lua_State.openupval
  uvhead,        \* the list of open upvalues at g->uvhead
  upthread,      \* the thread UpVal.v points into, Nil once it is closed
  uplevel,       \* and the slot of its stack, 0 once it is closed
  upvalue,       \* UpVal.u.value of a closed upvalue
  markedopen,    \* upvalues whose markedopen bit is set
  uprefs,        \* what a closure has captured
  ref_array,     \* the values of the reference pool
  gc_ref_gray,   \* the pool was written since its values were marked
  mt,            \* g->mt, the metatables of the basic types
  isactive,      \* threads with isactive set
  run,           \* the thread that runs now
  caller         \* the thread that resumed a thread

lists == <<gray, grayagain, weak>>
phase == <<currentwhite, gcstate, sweepgcopage, atomicpc, fullgc>>
tables == <<node, metatable, mode>>
stacks == <<stack, top>>
upvals == <<openupval, uvhead, upthread, uplevel, upvalue, markedopen>>
roots == <<ref_array, gc_ref_gray, mt>>
sched == <<isactive, run, caller>>
vars == <<colour, lists, phase, tables, stacks, upvals, uprefs, roots,
          sched>>

EmptyNodes == [n \in Node |-> [key |-> Nil, val |-> Nil]]
EmptyStack == [i \in Slot |-> Nil]

-----------------------------------------------------------------------------
(* Colours: iswhite, isblack, isgray, otherwhite, isdead and keepinvariant.  *)

heap == {o \in Obj : colour[o] # "free"}
IsWhite(c, o) == c[o] \in White
otherwhite == IF currentwhite = White0 THEN White1 ELSE White0
isdeadNoThread(o) == o \notin Thread /\ colour[o] = otherwhite
isdead(o) == o # MainThread /\ colour[o] = otherwhite
keepinvariant == gcstate \in {"propagate", "propagateagain", "atomic"}

upisopen(uv) == upthread[uv] # Nil

\* The value behind an upvalue: a stack slot while it is open.
UpValue(uv) ==
  IF upisopen(uv) THEN stack[upthread[uv]][uplevel[uv]] ELSE upvalue[uv]

\* What one call of reallymarkobject for each white object of S leaves marked:
\* an upvalue marks its value and a userdata its metatable on the spot, every
\* other kind waits in the gray list, so the recursion is three deep at most.
Reached(c, S) ==
  LET white(X) == {o \in X \cap Obj : IsWhite(c, o)}
      first == white(S)
      second == first \cup white({UpValue(uv) : uv \in first \cap UpVal})
  IN second \cup white({metatable[u] : u \in second \cap Udata})

\* The colours after the objects of M were marked: an object that waits in the
\* gray list and an open upvalue are gray, everything else is black.
Marked(c, M) ==
  [o \in Obj |-> IF o \notin M THEN c[o]
                 ELSE IF o \in Gclist \/ (o \in UpVal /\ upisopen(o))
                      THEN "gray" ELSE "black"]

\* A thread whose stack changes without barriers (propagatemark).
Active(th) == th \in isactive \/ th = MainThread

\* The entries of a table that hold a value.
Used(t) == {n \in Node : node[t][n].val # Nil}

\* gettablemode: the weakness a table's metatable asks for.
TableMode(t) == IF metatable[t] = Nil THEN {} ELSE mode[metatable[t]]

-----------------------------------------------------------------------------
(* lua_newstate: an empty heap but for the main thread, between two cycles.  *)

Init ==
  /\ colour = [o \in Obj |-> IF o = MainThread THEN White0 ELSE "free"]
  /\ currentwhite = White0
  /\ gcstate = "pause"
  /\ gray = {} /\ grayagain = {} /\ weak = {}
  /\ sweepgcopage = {}
  /\ atomicpc = "none"
  /\ fullgc = "none"
  /\ node = [t \in Table |-> EmptyNodes]
  /\ metatable = [o \in Table \cup Udata |-> Nil]
  /\ mode = [t \in Table |-> {}]
  /\ stack = [th \in Thread |-> EmptyStack]
  /\ top = [th \in Thread |-> 0]
  /\ openupval = [th \in Thread |-> {}]
  /\ uvhead = {}
  /\ upthread = [uv \in UpVal |-> Nil]
  /\ uplevel = [uv \in UpVal |-> 0]
  /\ upvalue = [uv \in UpVal |-> Nil]
  /\ markedopen = {}
  /\ uprefs = [cl \in Closure |-> Nil]
  /\ ref_array = [r \in RefId |-> Nil]
  /\ gc_ref_gray = FALSE
  /\ mt = [b \in BasicType |-> Nil]
  /\ isactive = {}
  /\ run = MainThread
  /\ caller = [th \in Thread |-> Nil]

-----------------------------------------------------------------------------
(* Types, one part for each group of variables.                              *)

ColourType ==
  /\ colour \in [Obj -> Colour]
  /\ gray \subseteq Gclist /\ grayagain \subseteq Gclist /\ weak \subseteq Table

PhaseType ==
  /\ currentwhite \in White
  /\ gcstate \in {"pause", "propagate", "propagateagain", "atomic", "sweep"}
  /\ sweepgcopage \subseteq Page
  /\ atomicpc \in {"none", "upvals", "weak", "again", "refs"}
  /\ fullgc \in {"none", "sweep", "cycle"}

\* An entry with a dead key has no value (traversetable asserts it).
Entries == {e \in [key : Key \cup {Nil, DeadKey}, val : Value \cup {Nil}] :
              e.key = DeadKey => e.val = Nil}

TableType ==
  /\ node \in [Table -> [Node -> Entries]]
  /\ metatable \in [Table \cup Udata -> Table \cup {Nil}]
  /\ mode \in [Table -> Mode]

StackType ==
  /\ stack \in [Thread -> [Slot -> Value \cup {Nil}]]
  /\ top \in [Thread -> 0..StackSize]

UpvalType ==
  /\ openupval \in [Thread -> SUBSET UpVal]
  /\ uvhead \subseteq UpVal
  /\ upthread \in [UpVal -> Thread \cup {Nil}]
  /\ uplevel \in [UpVal -> 0..StackSize]
  /\ \A uv \in UpVal : upthread[uv] # Nil => uplevel[uv] \in Slot
  /\ upvalue \in [UpVal -> Value \cup {Nil}]
  /\ markedopen \subseteq UpVal
  /\ uprefs \in [Closure -> Obj \cup {Nil}]

RootType ==
  /\ ref_array \in [RefId -> Value \cup {Nil}]
  /\ gc_ref_gray \in BOOLEAN
  /\ mt \in [BasicType -> Table \cup {Nil}]

SchedType ==
  /\ isactive \subseteq Thread
  /\ run \in Thread
  /\ caller \in [Thread -> Thread \cup {Nil}]

TypeOK ==
  /\ ColourType /\ PhaseType /\ TableType /\ StackType
  /\ UpvalType /\ RootType /\ SchedType
=============================================================================
