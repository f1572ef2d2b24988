----------------------------- MODULE BuildQueue -----------------------------
(* Frontend::checkQueuedModules (Analysis/src/Frontend.cpp): modules are       *)
(* checked by a pool of threads, each after the modules it requires.  The      *)
(* pool is the TaskScheduler of the analysis tool (CLI/src/Analyze.cpp).       *)
(* Shared state is only touched under a lock, so a critical section is one     *)
(* action; the wait for a condition variable is a step of its own.             *)
EXTENDS Integers, Sequences, FiniteSets

CONSTANTS
  N,        \* size of the build queue
  Worker,   \* threads of the pool
  Outcome,  \* how a check may end: "ok", "exception" or "cancelled"
  Aborts,   \* whether the progress callback may return false
  Gone      \* the modules that may require one whose file was deleted

Item == 1..N
None == 0   \* no item; in the task queue, the empty function that ends a worker

ASSUME BuildQueueAssumption ==
  /\ N \in Nat \ {0} /\ Worker # {} /\ IsFiniteSet(Worker)
  /\ "ok" \in Outcome /\ Outcome \subseteq {"ok", "exception", "cancelled"}
  /\ Aborts \in BOOLEAN /\ Gone \subseteq Item

VARIABLES
  requires,           \* SourceNode.requireSet, among the items of the queue
  gone,               \* items that require a module whose file was deleted
  dirty,              \* SourceNode.dirtyModule
  outcome,            \* what the check of an item ended with
  sent,               \* BuildQueueItem.processing
  dirtyDependencies,  \* BuildQueueItem.dirtyDependencies
  readyQueueItems,    \* BuildQueueWorkState
  processing,
  remaining,
  nextItems,          \* locals of checkQueuedModules
  itemWithException,
  cancelled,
  outbox,             \* tasks that executeTasks has still to push
  result,             \* how the call ended
  pc,                 \* where the calling thread is
  tasks,              \* TaskScheduler.tasks
  stops,              \* empty functions the destructor has pushed
  wpc,                \* where each worker is
  job                 \* and the item it has taken

graph == <<requires, gone>>
items == <<sent, dirtyDependencies, dirty>>
work == <<readyQueueItems, processing, remaining>>
locals == <<nextItems, itemWithException, cancelled, outbox, result>>
pool == <<tasks, wpc, job>>
vars == <<graph, items, outcome, work, locals, pc, pool, stops>>

-----------------------------------------------------------------------------
(* The graph of the modules.                                                 *)

\* Whether j is i or is required by it, over any number of steps.
Reaches(r, i, j) ==
  LET R[n \in 0..N] == IF n = 0 THEN {i}
                       ELSE LET S == R[n - 1] IN S \cup UNION {r[k] : k \in S}
  IN j \in R[N]

\* parseGraph lists a module after the modules it requires, but for the edges
\* that close a cycle.
PostOrder(r) ==
  \A i \in Item : \A j \in r[i] : j >= i => Reaches(r, j, i)

\* How many ends of the items in S an item waits for.  A module without a file
\* is in no slot of the queue, but moduleNameToQueue[dep] makes it the first one.
WaitsFor(i, S) ==
  Cardinality(requires[i] \cap S) + (IF i \in gone /\ 1 \in S THEN 1 ELSE 0)

Init ==
  /\ requires \in [Item -> SUBSET Item] /\ PostOrder(requires)
  /\ gone \in SUBSET Gone
  /\ dirty = Item
  /\ outcome = [i \in Item |-> "none"]
  /\ sent = {}
  /\ dirtyDependencies = [i \in Item |-> WaitsFor(i, Item)]
  /\ readyQueueItems = <<>>
  /\ processing = 0 /\ remaining = N
  /\ nextItems = {} /\ itemWithException = None /\ cancelled = FALSE
  /\ outbox = {} /\ result = "none"
  /\ pc = "start"
  /\ tasks = <<>> /\ stops = 0
  /\ wpc = [w \in Worker |-> "pop"]
  /\ job = [w \in Worker |-> None]

-----------------------------------------------------------------------------
(* The calling thread.                                                       *)

\* sendQueueItemTasks: executeTasks is handed the tasks and pushes them.
sendQueueItemTasks(S) ==
  /\ sent' = sent \cup S
  /\ processing' = processing + Cardinality(S)
  /\ outbox' = S
  /\ pc' = "push"

\* sendQueueCycleItemTask: the first item that was not sent.
CycleItemLast == {i \in Item \ sent : \A j \in Item \ sent : j <= i}
CycleItem == {i \in Item \ sent : \A j \in Item \ sent : i <= j}

\* The first pass over the items.
Start ==
  /\ pc = "start"
  /\ LET free == {i \in Item : dirtyDependencies[i] = 0}
     IN sendQueueItemTasks(IF free # {} THEN free ELSE CycleItem)
  /\ UNCHANGED <<graph, dirtyDependencies, dirty, outcome, readyQueueItems,
                 remaining, nextItems, itemWithException, cancelled, result,
                 pool, stops>>

\* TaskScheduler::push.  Its notify_one follows the unlock; a worker that takes
\* the task in between leaves a wakeup for nothing, as Spurious does.
Push(task) ==
  /\ tasks' = Append(tasks, task)
  /\ LET asleep == {w \in Worker : wpc[w] = "sleep"}
     IN IF asleep = {} THEN UNCHANGED wpc
        ELSE \E w \in asleep : wpc' = [wpc EXCEPT ![w] = "pop"]
  /\ UNCHANGED job

PushTask ==
  /\ pc = "push"
  /\ \E i \in outbox :
       /\ Push(i)
       /\ outbox' = outbox \ {i}
       /\ pc' = IF outbox = {i} THEN "loop" ELSE "push"
  /\ UNCHANGED <<graph, items, outcome, work, nextItems, itemWithException,
                 cancelled, result, stops>>

\* The loop is left when nothing remains.
Finish ==
  /\ pc = "loop" /\ remaining = 0
  /\ result' = "modules"
  /\ pc' = "stop"
  /\ UNCHANGED <<graph, items, outcome, work, nextItems, itemWithException,
                 cancelled, outbox, pool, stops>>

\* cv.wait, which releases the lock and blocks at once.
Wait ==
  /\ pc = "loop" /\ remaining # 0 /\ readyQueueItems = <<>>
  /\ pc' = "sleep"
  /\ UNCHANGED <<graph, items, outcome, work, locals, pool, stops>>

BadOnlyException(i) == outcome[i] = "exception"
Bad(i) == outcome[i] \in {"exception", "cancelled"}

\* How many of the ready items are handled before the loop over them breaks.
Before ==
  LET bad == {k \in DOMAIN readyQueueItems : Bad(readyQueueItems[k])}
  IN IF itemWithException # None \/ cancelled THEN 0
     ELSE IF bad = {} THEN Len(readyQueueItems)
     ELSE (CHOOSE k \in bad : \A l \in bad : k <= l) - 1

\* The items of the batch are gone either way, handled or not.
RetiredOnlyHandled == Before
Retired == Len(readyQueueItems)

\* The items set free by the end of those in S.
UnlockedAgain(dd, S) ==
  {i \in Item : dd[i] = 0 /\ WaitsFor(i, S) # 0}
Unlocked(dd, S) ==
  {i \in Item \ sent : dd[i] = 0 /\ WaitsFor(i, S) # 0}

\* The results are recorded, and the modules are no longer dirty.
recordItemResult(S) == dirty' = dirty \ S

\* The batch of ready items, under the lock, and recordItemResult on each.
HandleBatch ==
  /\ pc = "loop" /\ remaining # 0 /\ readyQueueItems # <<>>
  /\ LET done == {readyQueueItems[k] : k \in 1..Before}
         dd == [i \in Item |-> dirtyDependencies[i] - WaitsFor(i, done)]
     IN /\ recordItemResult(done)
        /\ dirtyDependencies' = dd
        /\ nextItems' = Unlocked(dd, done)
  /\ IF Before < Len(readyQueueItems)
     THEN LET i == readyQueueItems[Before + 1]
          IN /\ itemWithException' = IF outcome[i] = "exception" THEN i
                                     ELSE itemWithException
             /\ cancelled' = (cancelled \/ outcome[i] = "cancelled")
     ELSE UNCHANGED <<itemWithException, cancelled>>
  /\ processing' = processing - Retired
  /\ remaining' = remaining - Retired
  /\ readyQueueItems' = <<>>
  /\ pc' = "submit"
  /\ UNCHANGED <<graph, sent, outcome, outbox, result, pool, stops>>

\* The call ends early only when no task is under way.
MayLeaveAtOnce == TRUE
MayLeave == processing = 0

\* What follows the batch, without the lock: the progress callback, the items
\* set free, an early end, or one of the items that wait for each other.
Submit ==
  /\ pc = "submit"
  /\ \E abort \in (IF Aborts THEN BOOLEAN ELSE {FALSE}) :
       /\ cancelled' = (cancelled \/ abort)
       /\ nextItems' = {}
       /\ IF nextItems # {}
          THEN sendQueueItemTasks(nextItems) /\ UNCHANGED result
          ELSE IF MayLeave /\ (cancelled' \/ itemWithException # None)
          THEN /\ result' = IF cancelled' THEN "cancelled" ELSE "threw"
               /\ pc' = "stop"
               /\ UNCHANGED <<sent, processing, outbox>>
          ELSE IF remaining # 0 /\ processing = 0
          THEN sendQueueItemTasks(CycleItem) /\ UNCHANGED result
          ELSE /\ pc' = "loop"
               /\ UNCHANGED <<sent, processing, outbox, result>>
  /\ UNCHANGED <<graph, dirtyDependencies, dirty, outcome, readyQueueItems,
                 remaining, itemWithException, pool, stops>>

\* The destructor of the pool: an empty function for each worker, then join.
PushStop ==
  /\ pc = "stop"
  /\ Push(None)
  /\ stops' = stops + 1
  /\ pc' = IF stops + 1 = Cardinality(Worker) THEN "join" ELSE "stop"
  /\ UNCHANGED <<graph, items, outcome, work, locals>>

Join ==
  /\ pc = "join" /\ \A w \in Worker : wpc[w] = "exit"
  /\ pc' = "done"
  /\ UNCHANGED <<graph, items, outcome, work, locals, pool, stops>>

Main == Start \/ PushTask \/ Finish \/ Wait \/ HandleBatch \/ Submit
          \/ PushStop \/ Join

-----------------------------------------------------------------------------
(* The workers.                                                              *)

\* TaskScheduler::pop: the next task, or sleep until there is one.
Pop(w) ==
  /\ wpc[w] = "pop"
  /\ IF tasks = <<>>
     THEN wpc' = [wpc EXCEPT ![w] = "sleep"] /\ UNCHANGED <<tasks, job>>
     ELSE /\ tasks' = Tail(tasks)
          /\ job' = [job EXCEPT ![w] = Head(tasks)]
          /\ wpc' = [wpc EXCEPT ![w] = IF Head(tasks) = None THEN "exit"
                                       ELSE "check"]
  /\ UNCHANGED <<graph, items, outcome, work, locals, pc, stops>>

\* checkBuildQueueItem, which only reports what it ended with.
Check(w) ==
  /\ wpc[w] = "check"
  /\ \E o \in Outcome : outcome' = [outcome EXCEPT ![job[w]] = o]
  /\ wpc' = [wpc EXCEPT ![w] = "post"]
  /\ UNCHANGED <<graph, items, work, locals, pc, tasks, job, stops>>

\* performQueueItemTask: the item is ready, then the caller is woken.
Post(w) ==
  /\ wpc[w] = "post"
  /\ readyQueueItems' = Append(readyQueueItems, job[w])
  /\ wpc' = [wpc EXCEPT ![w] = "notify"]
  /\ job' = [job EXCEPT ![w] = None]
  /\ UNCHANGED <<graph, items, outcome, processing, remaining, locals, pc,
                 tasks, stops>>

NotifyForgotten(w) ==
  /\ wpc[w] = "notify"
  /\ wpc' = [wpc EXCEPT ![w] = "pop"]
  /\ UNCHANGED <<graph, items, outcome, work, locals, tasks, job, stops, pc>>
Notify(w) ==
  /\ wpc[w] = "notify"
  /\ pc' = IF pc = "sleep" THEN "loop" ELSE pc
  /\ wpc' = [wpc EXCEPT ![w] = "pop"]
  /\ UNCHANGED <<graph, items, outcome, work, locals, tasks, job, stops>>

WorkerStep(w) == Pop(w) \/ Check(w) \/ Post(w) \/ Notify(w)

\* A condition variable may wake a thread for no reason.
Spurious ==
  \/ /\ pc = "sleep" /\ pc' = "loop"
     /\ UNCHANGED <<graph, items, outcome, work, locals, pool, stops>>
  \/ \E w \in Worker :
       /\ wpc[w] = "sleep" /\ wpc' = [wpc EXCEPT ![w] = "pop"]
       /\ UNCHANGED <<graph, items, outcome, work, locals, pc, tasks, job, stops>>

Ended == pc = "done" /\ UNCHANGED vars

Next == Main \/ (\E w \in Worker : WorkerStep(w)) \/ Spurious \/ Ended

Spec == Init /\ [][Next]_vars

\* Every thread gets to run; nothing is promised of spurious wakeups.
FairSpec == Spec /\ WF_vars(Main) /\ \A w \in Worker : WF_vars(WorkerStep(w))

-----------------------------------------------------------------------------
(* Properties.                                                               *)

\* The items a thread or a queue of the pool still refers to.
UnderWay ==
  outbox \cup {tasks[k] : k \in DOMAIN tasks} \cup {job[w] : w \in Worker}
         \cup {readyQueueItems[k] : k \in DOMAIN readyQueueItems}

\* The counters the scheduler decides by agree with what is under way, and no
\* counter falls below zero: it neither waits for an item nobody works on nor
\* leaves one behind (the assertions of checkQueuedModules).
Counters ==
  /\ processing = Cardinality(UnderWay \ {None})
  /\ remaining = processing + Cardinality(Item \ sent)
  /\ \A i \in Item : dirtyDependencies[i] = WaitsFor(i, dirty)

\* A module is checked once, whether it was set free or taken to break a cycle
\* (the assertion of sendQueueItemTasks).
CheckedOnce ==
  [][\A i \in Item : outcome[i] # "none" => outcome'[i] = outcome[i]]_vars

\* A module is checked after the modules it requires, but for those that require
\* it themselves (checkQueuedModules).
DependenciesFirst ==
  \A w \in Worker : wpc[w] = "check" =>
    \A j \in requires[job[w]] : j \in dirty => Reaches(requires, j, job[w])

\* When the call has ended no worker has an item in hand or will get one: items
\* and options of the caller are in scope as long as they are used.
QuietAtEnd == result # "none" => UnderWay \subseteq {None}

\* A list of modules is returned only if each of them was checked to its end and
\* recorded; an exception or a cancelled check is never taken for success.
CompleteOrNothing ==
  result = "modules" => dirty = {} /\ \A i \in Item : outcome[i] = "ok"

\* The call ends, and the pool with it, whatever cycles the modules form and
\* however their checks end.
Termination == <>(pc = "done")
=============================================================================
