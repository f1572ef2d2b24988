--------------------------- MODULE PageAllocator ---------------------------
(* The pages of garbage collected objects (lmem.cpp): every page is on the    *)
(* list of all pages, which the sweep follows, and a page of the size class    *)
(* with a free block is on the class's list. Both lists are doubly linked.     *)
(* An object too large for a class has a page of its own. The operators take   *)
(* and return a heap: the pages and the heads of the two lists.                *)
EXTENDS Integers, Sequences, FiniteSets

CONSTANTS
  Page,     \* where frealloc can put a page
  Blocks,   \* blocks in a page of the size class
  None      \* a null pointer

ASSUME PageAssumption == IsFiniteSet(Page) /\ Blocks \in Nat \ {0} /\ None \notin Page

\* A block that holds no object: its type is LUA_TNIL.
Nil == [tt |-> "nil"]

\* A page that is not allocated.
NoPage == [count |-> 0, data |-> <<>>, freeList |-> <<>>, freeNext |-> -1, busyBlocks |-> 0,
           next |-> None, prev |-> None, listnext |-> None, listprev |-> None]
EmptyHeap == [page |-> [p \in Page |-> NoPage], allgcopages |-> None, freegcopages |-> None]

Allocated(heap) == {p \in Page : heap.page[p].count > 0}
HasFree(pg) == pg.freeList # <<>> \/ pg.freeNext >= 0

\* if (q) q->field = v
SetLink(page, q, field, v) == IF q = None THEN page ELSE [page EXCEPT ![q][field] = v]

-----------------------------------------------------------------------------
newpage(heap, p, count) ==
  LET fresh == [NoPage EXCEPT !.count = count, !.freeNext = count - 1,
                              !.data = [b \in 0..count - 1 |-> Nil],
                              !.listnext = heap.allgcopages]
  IN [heap EXCEPT !.page = SetLink([@ EXCEPT ![p] = fresh], heap.allgcopages, "listprev", p),
                  !.allgcopages = p]

newclasspage(heap, p) == [newpage(heap, p, Blocks) EXCEPT !.freegcopages = p]

freepage(heap, p) ==
  LET pg == heap.page[p]
      unlinked == SetLink(SetLink(heap.page, pg.listnext, "listprev", pg.listprev),
                          pg.listprev, "listnext", pg.listnext)
  IN [heap EXCEPT !.page = [unlinked EXCEPT ![p] = NoPage],
                  !.allgcopages = IF pg.listprev = None /\ @ = p THEN pg.listnext ELSE @]

freeclasspage(heap, p) ==
  LET pg == heap.page[p]
  IN freepage([heap EXCEPT
       !.page = SetLink(SetLink(@, pg.next, "prev", pg.prev), pg.prev, "next", pg.next),
       !.freegcopages = IF pg.prev = None /\ @ = p THEN pg.next ELSE @], p)

\* The block taken from a page: one never used before, from the last downward,
\* or the one freed last.
TakenBlock(pg) == IF pg.freeNext >= 0 THEN pg.freeNext ELSE Head(pg.freeList)
TakeBlock(pg) ==
  IF pg.freeNext >= 0 THEN [pg EXCEPT !.freeNext = @ - 1, !.busyBlocks = @ + 1]
                      ELSE [pg EXCEPT !.freeList = Tail(@), !.busyBlocks = @ + 1]

\* A page that gives its last block leaves the list of pages with free blocks.
UnlinkFull(heap, p) ==
  LET pg == heap.page[p]
  IN IF HasFree(pg) THEN heap
     ELSE [heap EXCEPT !.freegcopages = pg.next,
                       !.page = [SetLink(@, pg.next, "prev", None) EXCEPT ![p].next = None]]

newgcoblock(heap) ==
  LET p == heap.freegcopages
  IN UnlinkFull([heap EXCEPT !.page[p] = TakeBlock(@)], p)

\* The results of luaM_newgco for an object o, small or large, with the page of
\* the new object: frealloc chooses a fresh page, and there may be none.
luaM_newgco(heap, o, large) ==
  LET class == IF heap.freegcopages # None THEN {heap}
               ELSE {newclasspage(heap, p) : p \in Page \ Allocated(heap)}
      Put(h, p, b) == [heap |-> [h EXCEPT !.page[p].data[b] = o], at |-> <<p, b>>]
  IN IF large
     THEN {Put([newpage(heap, p, 1) EXCEPT !.page[p] = TakeBlock(@)], p, 0) :
             p \in Page \ Allocated(heap)}
     ELSE {Put(newgcoblock(h), h.freegcopages, TakenBlock(h.page[h.freegcopages])) : h \in class}

\* A full page that gets a block back is put at the head of the list of pages
\* with free blocks; a page without a busy block is freed.
LinkFreed(heap, p) ==
  LET head == heap.freegcopages
  IN IF HasFree(heap.page[p]) THEN heap
     ELSE [heap EXCEPT !.page = SetLink([@ EXCEPT ![p].next = head], head, "prev", p),
                       !.freegcopages = p]

freegcoblock(heap, p, b) ==
  LET freed == [LinkFreed(heap, p) EXCEPT !.page[p].freeList = <<b>> \o @,
                                          !.page[p].busyBlocks = @ - 1]
  IN IF freed.page[p].busyBlocks = 0 THEN freeclasspage(freed, p) ELSE freed

luaM_freegco(heap, p, b, large) ==
  IF large THEN freepage(heap, p)
           ELSE freegcoblock([heap EXCEPT !.page[p].data[b] = Nil], p, b)

\* The blocks of a page that were ever used lie above freeNext.
luaM_getpagewalkinfo(pg) ==
  [start |-> pg.freeNext + 1, end |-> pg.count, busyBlocks |-> pg.busyBlocks]
=============================================================================
