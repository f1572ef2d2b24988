------------------------------- MODULE Memory -------------------------------
(* Strings and buffers in memory (lstring.cpp, lbuffer.cpp, lmem.cpp) under    *)
(* the sweep of the collector (lgc.cpp): interned strings, strings being       *)
(* built, strings and buffers whose data lies in memory of the host. What the  *)
(* mark phase finds is a set of objects that includes all the host can reach.  *)
EXTENDS PageAllocator

CONSTANTS
  Content,            \* what strings can say
  Long,               \* the contents too long for a size class
  Hash,               \* luaS_hash
  Memory,             \* pieces of memory of the host
  MaxObjects,         \* bound: objects at a time
  MaxBuilding,        \* bound: strings under construction at a time
  LUA_MINSTRTABSIZE   \* the least size of the string table

ASSUME MemoryAssumption ==
  /\ Long \subseteq Content /\ Hash \in [Content -> Nat]
  /\ LUA_MINSTRTABSIZE \in Nat \ {0} /\ MaxObjects \in Nat /\ MaxBuilding \in Nat
  /\ None \notin Content \cup Memory

VARIABLES
  heap,           \* the pages and their objects
  strt,           \* the string table: the strings of each bucket, and their number
  mem,            \* who has each piece of memory of the host
  held,           \* the objects the host and the stacks refer to
  gcstate,        \* mark (any state before the sweep), sweep or closed
  currentwhite,   \* 0 or 1
  sweepgcopage    \* the next page to sweep
vars == <<heap, strt, mem, held, gcstate, currentwhite, sweepgcopage>>
collector == <<gcstate, currentwhite, sweepgcopage>>

INT_MAX == 2147483647
NewTable(size) == [hash |-> [i \in 0..size-1 |-> {}], nuse |-> 0, size |-> size]

Init ==
  /\ heap = EmptyHeap
  /\ strt = NewTable(LUA_MINSTRTABSIZE)
  /\ mem = [m \in Memory |-> "host"]
  /\ held = {}
  /\ gcstate = "mark" /\ currentwhite = 0 /\ sweepgcopage = None

Object(h, at) == h.page[at[1]].data[at[2]]
Places(h) == UNION {{<<p, b>> : b \in DOMAIN h.page[p].data} : p \in Allocated(h)}
Objects(h) == {at \in Places(h) : Object(h, at) # Nil}

isdead(o) == o.marked = 1 - currentwhite

\* A string under construction has no content and no place in the table.
String(c, m, large) ==
  [tt |-> "string", content |-> c, ext |-> m, large |-> large, marked |-> currentwhite]
Buffer(m) ==
  [tt |-> "buffer", content |-> None, ext |-> m, large |-> FALSE, marked |-> currentwhite]
Orphan(o) == o.tt = "string" /\ o.content = None

\* The host's callback gives the memory back, to be used again. Memory that the
\* host has already is released twice.
free_cb(memory, m) == [memory EXCEPT ![m] = IF @ = "vm" THEN "host" ELSE "twice"]

\* A new object, within the bound.
New(o) ==
  {new \in luaM_newgco(heap, o, o.large) : Cardinality(Objects(heap)) < MaxObjects}

-----------------------------------------------------------------------------
(* The string table.                                                          *)

hashof(h, at) == LET c == Object(h, at).content IN IF c = None THEN 0 ELSE Hash[c]
Bucket(tb, hash) == hash % tb.size
Chained(tb) == UNION {tb.hash[i] : i \in DOMAIN tb.hash}

\* The string of content c that the search of its bucket finds, if any.
Found(c) == {at \in strt.hash[Bucket(strt, Hash[c])] : Object(heap, at).content = c}

\* Every string is put into its new bucket. The order within a bucket, which
\* only the time of a search depends on, is left out.
luaS_resize(h, tb, newsize) ==
  [tb EXCEPT !.hash = [i \in 0..newsize-1 |-> {at \in Chained(tb) : hashof(h, at) % newsize = i}],
             !.size = newsize]

Chain(h, tb, at) ==
  [tb EXCEPT !.hash[Bucket(tb, hashof(h, at))] = @ \cup {at}, !.nuse = @ + 1]
TooCrowded(tb) == tb.nuse > tb.size /\ tb.size <= INT_MAX \div 2

unlinkstr(h, tb, at) ==
  LET i == Bucket(tb, hashof(h, at))
  IN IF at \in tb.hash[i] THEN [tb EXCEPT !.hash[i] = @ \ {at}, !.nuse = @ - 1] ELSE tb

\* The string at a place of heap h enters the table. A crowded table grows; when
\* there is no memory for that the string stays in the table and nobody gets it.
Link(h, at) ==
  LET tb == Chain(h, strt, at)
  IN \/ /\ strt' = IF TooCrowded(tb) THEN luaS_resize(h, tb, 2 * tb.size) ELSE tb
        /\ held' = held \cup {at}
     \/ /\ TooCrowded(tb)
        /\ strt' = tb
        /\ held' = held \ {at}

\* A string that is found may be dead: it gets the current white again.
ReviveNothing(at) == heap' = heap
Revive(at) ==
  heap' = IF isdead(Object(heap, at))
          THEN [heap EXCEPT !.page[at[1]].data[at[2]].marked = 1 - @]
          ELSE heap

-----------------------------------------------------------------------------
(* Operations of the host and of the interpreter.                             *)

luaS_newlstr(c) ==
  /\ gcstate # "closed"
  /\ \/ \E at \in Found(c) :
          /\ Revive(at)
          /\ held' = held \cup {at}
          /\ UNCHANGED strt
     \/ /\ Found(c) = {}
        /\ \E new \in New(String(c, None, c \in Long)) :
             /\ heap' = new.heap
             /\ Link(new.heap, new.at)
  /\ UNCHANGED <<mem, collector>>

luaS_bufstart(large) ==
  /\ gcstate # "closed"
  /\ Cardinality({at \in held : Orphan(Object(heap, at))}) < MaxBuilding
  /\ \E new \in New(String(None, None, large)) :
       /\ heap' = new.heap
       /\ held' = held \cup {new.at}
  /\ UNCHANGED <<strt, mem, collector>>

\* The string under construction is finished with content c, or given up for
\* the equal string that exists already.
luaS_buffinishUnsearched(ts, c) ==
  /\ ts \in held /\ Orphan(Object(heap, ts))
  /\ Object(heap, ts).large = (c \in Long)
  /\ LET h == [heap EXCEPT !.page[ts[1]].data[ts[2]].content = c]
     IN heap' = h /\ Link(h, ts)
  /\ UNCHANGED <<mem, collector>>
luaS_buffinish(ts, c) ==
  /\ ts \in held /\ Orphan(Object(heap, ts))
  /\ Object(heap, ts).large = (c \in Long)
  /\ \/ \E at \in Found(c) :
          /\ Revive(at)
          /\ held' = (held \ {ts}) \cup {at}
          /\ UNCHANGED strt
     \/ /\ Found(c) = {}
        /\ LET h == [heap EXCEPT !.page[ts[1]].data[ts[2]].content = c]
           IN heap' = h /\ Link(h, ts)
  /\ UNCHANGED <<mem, collector>>

\* The memory is released at once when it is too long, when an equal string
\* exists and when there is no memory for the header.
ExternalRefused(m) ==
  /\ mem[m] = "host" /\ gcstate # "closed"
  /\ mem' = free_cb([mem EXCEPT ![m] = "vm"], m)
  /\ UNCHANGED <<heap, strt, held, collector>>

luaS_newexternallstrResizeFrees(c, m) ==
  /\ mem[m] = "host" /\ gcstate # "closed"
  /\ LET given == [mem EXCEPT ![m] = "vm"]
     IN \/ \E at \in Found(c) :
             /\ Revive(at)
             /\ held' = held \cup {at}
             /\ mem' = free_cb(given, m)
             /\ UNCHANGED strt
        \/ /\ Found(c) = {}
           /\ \E new \in New(String(c, m, FALSE)) :
                /\ heap' = new.heap
                /\ Link(new.heap, new.at)
                /\ mem' = IF new.at \in held' THEN given ELSE free_cb(given, m)
  /\ UNCHANGED collector
luaS_newexternallstr(c, m) ==
  /\ mem[m] = "host" /\ gcstate # "closed"
  /\ LET given == [mem EXCEPT ![m] = "vm"]
     IN \/ \E at \in Found(c) :
             /\ Revive(at)
             /\ held' = held \cup {at}
             /\ mem' = free_cb(given, m)
             /\ UNCHANGED strt
        \/ /\ Found(c) = {}
           /\ \E new \in New(String(c, m, FALSE)) :
                /\ heap' = new.heap
                /\ Link(new.heap, new.at)
           /\ mem' = given
  /\ UNCHANGED collector

luaB_newexternalbuffer(m) ==
  /\ mem[m] = "host" /\ gcstate # "closed"
  /\ \E new \in New(Buffer(m)) :
       /\ heap' = new.heap
       /\ held' = held \cup {new.at}
  /\ mem' = [mem EXCEPT ![m] = "vm"]
  /\ UNCHANGED <<strt, collector>>

\* The last reference to an object goes.
Drop(at) ==
  /\ held' = held \ {at}
  /\ UNCHANGED <<heap, strt, mem, collector>>

-----------------------------------------------------------------------------
(* The sweep. S is what freeing an object changes.                            *)

luaS_free(S, p, b) ==
  LET o == Object(S.heap, <<p, b>>)
  IN [heap |-> luaM_freegco(S.heap, p, b, o.large),
      strt |-> unlinkstr(S.heap, S.strt, <<p, b>>),
      mem |-> IF o.ext = None THEN S.mem ELSE free_cb(S.mem, o.ext)]

luaB_freebuffer(S, p, b) ==
  [S EXCEPT !.heap = luaM_freegco(@, p, b, FALSE),
            !.mem = free_cb(@, Object(S.heap, <<p, b>>).ext)]

freeobj(S, p, b) ==
  IF Object(S.heap, <<p, b>>).tt = "string" THEN luaS_free(S, p, b) ELSE luaB_freebuffer(S, p, b)

\* One block of a page is visited, unless the page is gone: w has what the walk
\* changes and how many busy blocks it has still to meet.
VisitBlock(w, p, b, dead, white) ==
  LET o == w.S.heap.page[p].data[b]
  IN IF w.busy = 0 \/ o = Nil THEN w
     ELSE IF o.marked \in dead THEN [S |-> freeobj(w.S, p, b), busy |-> w.busy - 1]
     ELSE [w EXCEPT !.S.heap.page[p].data[b].marked = white]

\* The blocks of a page from the first ever used; the walk ends when the last
\* busy one is freed, for then the page is gone. Objects whose mark is in dead are
\* freed, the others become white.
VisitPage(S, p, dead, white) ==
  LET info == luaM_getpagewalkinfo(S.heap.page[p])
      walk[b \in info.start..info.end] ==
        IF b = info.start THEN [S |-> S, busy |-> info.busyBlocks]
        ELSE VisitBlock(walk[b - 1], p, b - 1, dead, white)
  IN walk[info.end].S

\* The pages from one on, each page's successor read before the page is visited.
VisitNext(v, dead, white) ==
  IF v.curr = None THEN v
  ELSE [S |-> VisitPage(v.S, v.curr, dead, white), curr |-> v.S.heap.page[v.curr].listnext]
VisitFrom(S, first, dead, white) ==
  LET visit[n \in 0..Cardinality(Page)] ==
        IF n = 0 THEN [S |-> S, curr |-> first] ELSE VisitNext(visit[n - 1], dead, white)
  IN visit[Cardinality(Page)].S

Now == [heap |-> heap, strt |-> strt, mem |-> mem]
Becomes(S) == heap' = S.heap /\ strt' = S.strt /\ mem' = S.mem

\* shrinkbuffers halves a table that is mostly empty, when there is memory.
MostlyEmpty(tb, size) == tb.nuse < size \div 4 /\ size > 2 * LUA_MINSTRTABSIZE
Resized(S, size) == [S EXCEPT !.strt = luaS_resize(S.heap, @, size)]
shrinkbuffers(S) ==
  {S} \cup IF MostlyEmpty(S.strt, S.strt.size) THEN {Resized(S, S.strt.size \div 2)} ELSE {}

\* shrinkbuffersfull halves the size until the table is not mostly empty, and
\* resizes once.
shrinkbuffersfull(S) ==
  LET Half(k) == S.strt.size \div 2^k
      reached == {n \in 1..S.strt.size : \E k \in 0..30 :
                    /\ n = Half(k) /\ ~MostlyEmpty(S.strt, n)
                    /\ \A j \in 0..k-1 : MostlyEmpty(S.strt, Half(j))}
  IN {S} \cup {Resized(S, n) : n \in reached}

\* The mark phase ends: every object in black is marked, the whites change roles.
Blacken(h, black) ==
  [h EXCEPT !.page = [p \in Page |-> [@[p] EXCEPT !.data = [b \in DOMAIN @ |->
      IF <<p, b>> \in black THEN [@[b] EXCEPT !.marked = 2] ELSE @[b]]]]]

atomic ==
  /\ gcstate = "mark"
  /\ \E black \in SUBSET Objects(heap) :
       /\ held \subseteq black
       /\ heap' = Blacken(heap, black)
  /\ gcstate' = "sweep" /\ currentwhite' = 1 - currentwhite
  /\ sweepgcopage' = heap.allgcopages
  /\ UNCHANGED <<strt, mem, held>>

\* One page is swept; after the last one the cycle ends.
SweepStepReadsAfter ==
  /\ gcstate = "sweep"
  /\ LET swept == IF sweepgcopage = None THEN Now
                  ELSE VisitPage(Now, sweepgcopage, {1 - currentwhite}, currentwhite)
         next == IF sweepgcopage = None THEN None
                 ELSE swept.heap.page[sweepgcopage].listnext
     IN /\ sweepgcopage' = next
        /\ IF next = None
           THEN gcstate' = "mark" /\ \E S \in shrinkbuffers(swept) : Becomes(S)
           ELSE gcstate' = gcstate /\ Becomes(swept)
  /\ UNCHANGED <<held, currentwhite>>
SweepStep ==
  /\ gcstate = "sweep"
  /\ LET next == IF sweepgcopage = None THEN None ELSE heap.page[sweepgcopage].listnext
         swept == IF sweepgcopage = None THEN Now
                  ELSE VisitPage(Now, sweepgcopage, {1 - currentwhite}, currentwhite)
     IN /\ sweepgcopage' = next
        /\ IF next = None
           THEN gcstate' = "mark" /\ \E S \in shrinkbuffers(swept) : Becomes(S)
           ELSE gcstate' = gcstate /\ Becomes(swept)
  /\ UNCHANGED <<held, currentwhite>>

\* A full collection ends the sweep under way (or makes everything white), then
\* marks, sweeps all pages and shrinks the table as far as possible.
luaC_fullgc ==
  /\ gcstate # "closed"
  /\ LET first == IF gcstate = "sweep" THEN sweepgcopage ELSE heap.allgcopages
     IN \E S1 \in shrinkbuffers(VisitFrom(Now, first, {1 - currentwhite}, currentwhite)) :
          LET marked == [S1 EXCEPT !.heap = Blacken(@, held)]
          IN \E S2 \in shrinkbuffers(VisitFrom(marked, marked.heap.allgcopages,
                                               {currentwhite}, 1 - currentwhite)) :
               \E S3 \in shrinkbuffersfull(S2) : Becomes(S3)
  /\ gcstate' = "mark" /\ currentwhite' = 1 - currentwhite /\ sweepgcopage' = None
  /\ UNCHANGED held

luaC_freeall ==
  /\ gcstate # "closed"
  /\ gcstate' = "closed"
  /\ Becomes(VisitFrom(Now, heap.allgcopages, 0..2, currentwhite))
  /\ held' = {} /\ sweepgcopage' = None
  /\ UNCHANGED currentwhite

Next ==
  \/ \E c \in Content : luaS_newlstr(c)
  \/ \E large \in BOOLEAN : luaS_bufstart(large)
  \/ \E ts \in held, c \in Content : luaS_buffinish(ts, c)
  \/ \E m \in Memory : ExternalRefused(m)
  \/ \E m \in Memory, c \in Content : luaS_newexternallstr(c, m)
  \/ \E m \in Memory : luaB_newexternalbuffer(m)
  \/ \E at \in held : Drop(at)
  \/ atomic
  \/ SweepStep
  \/ luaC_fullgc
  \/ luaC_freeall

Spec == Init /\ [][Next]_vars

-----------------------------------------------------------------------------
(* Properties.                                                                *)

\* Every block of a page is never used, on the page's free list once, or holds an
\* object, busyBlocks counts the last kind, and a page without an object is
\* freed (lmem.cpp: newgcoblock, freegcoblock): no block is given out twice or
\* lost, whatever was freed in the middle of a walk. What the host holds is
\* still there, and after luaC_freeall there is no page left.
BlocksAccounted ==
  /\ \A p \in Allocated(heap) :
       LET pg == heap.page[p]
           untouched == 0..pg.freeNext
           free == {pg.freeList[i] : i \in DOMAIN pg.freeList}
           busy == {b \in DOMAIN pg.data : pg.data[b] # Nil}
       IN /\ untouched \cap free = {} /\ busy \cap (untouched \cup free) = {}
          /\ untouched \cup free \cup busy = DOMAIN pg.data
          /\ \A i, j \in DOMAIN pg.freeList : pg.freeList[i] = pg.freeList[j] => i = j
          /\ Cardinality(busy) = pg.busyBlocks /\ busy # {}
  /\ held \subseteq Objects(heap)
  /\ gcstate = "closed" => Allocated(heap) = {}

\* The pages of a list: the fewest that have the first and what follows each.
Followed(first, next) ==
  {p \in Page : \A S \in SUBSET Page :
                  first \in S \cup {None} /\ (\A q \in S : next[q] \in S \cup {None}) => p \in S}
listnext(h) == [p \in Page |-> h.page[p].listnext]
classnext(h) == [p \in Page |-> h.page[p].next]

\* The list of all pages holds every page, the list of the size class exactly
\* the class's pages with a free block, backward links agree with forward ones,
\* and every dead object lies on a page the sweep has still to reach: it never
\* follows a freed page and never misses one (lmem.cpp: freepage,
\* freeclasspage; lgc.cpp: GCSsweep reads the next page before it sweeps one).
PageLists ==
  /\ Followed(heap.allgcopages, listnext(heap)) = Allocated(heap)
  /\ Followed(heap.freegcopages, classnext(heap)) = {p \in Allocated(heap) : HasFree(heap.page[p])}
  /\ \A p \in Allocated(heap) :
       LET pg == heap.page[p]
       IN /\ pg.listprev = None <=> heap.allgcopages = p
          /\ pg.listnext # None => heap.page[pg.listnext].listprev = p
          /\ pg.prev = None <=> heap.freegcopages = p \/ ~HasFree(pg)
          /\ pg.next # None => heap.page[pg.next].prev = p
  /\ \A p \in Allocated(heap) \ Followed(sweepgcopage, listnext(heap)) :
       \A b \in DOMAIN heap.page[p].data :
         heap.page[p].data[b] # Nil => ~isdead(heap.page[p].data[b])

\* Equal strings are one object, so that comparing pointers compares contents
\* (lstring.cpp): the finished strings are exactly the ones in the table, each
\* in the bucket of its hash at the table's present size, no two of the same
\* content, and nuse is their number. No string the host holds is dead.
Interned ==
  LET strings == {at \in Objects(heap) : Object(heap, at).tt = "string"
                                          /\ ~Orphan(Object(heap, at))}
  IN /\ DOMAIN strt.hash = 0..strt.size-1
     /\ \A i \in DOMAIN strt.hash :
          strt.hash[i] = {at \in strings : Bucket(strt, hashof(heap, at)) = i}
     /\ strt.nuse = Cardinality(strings)
     /\ \A at, other \in strings :
          Object(heap, at).content = Object(heap, other).content => at = other
     /\ \A at \in held : ~isdead(Object(heap, at))

\* Memory of the host is released exactly once (lstring.cpp:
\* luaS_newexternallstr, luaS_free; lbuffer.cpp): what the machine has is the
\* data of exactly one object, what it released is the data of none.
ReleasedOnce ==
  \A m \in Memory :
    LET owners == {at \in Objects(heap) : Object(heap, at).ext = m}
    IN /\ mem[m] # "twice"
       /\ Cardinality(owners) = (IF mem[m] = "vm" THEN 1 ELSE 0)
=============================================================================
