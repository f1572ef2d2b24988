-------------------------- MODULE BuildQueueProofs --------------------------
(* The build queue for any number of modules and workers, any graph of        *)
(* requires and any way the checks end.                                       *)
EXTENDS BuildQueue, FiniteSetTheorems, TLAPS

-----------------------------------------------------------------------------
(* The inductive invariant.                                                  *)

Types ==
  /\ requires \in [Item -> SUBSET Item] /\ gone \in SUBSET Item
  /\ dirty \in SUBSET Item /\ sent \in SUBSET Item
  /\ outcome \in [Item -> {"none", "ok", "exception", "cancelled"}]
  /\ dirtyDependencies \in [Item -> Int]
  /\ readyQueueItems \in Seq(Item)
  /\ processing \in Int /\ remaining \in Int
  /\ nextItems \in SUBSET Item /\ outbox \in SUBSET Item
  /\ itemWithException \in Item \cup {None} /\ cancelled \in BOOLEAN
  /\ tasks \in Seq(Item \cup {None})
  /\ wpc \in [Worker -> {"pop", "sleep", "check", "post", "notify", "exit"}]
  /\ job \in [Worker -> Item \cup {None}]

\* No two places of s hold the same item.
Distinct(s) ==
  \A k, l \in DOMAIN s : s[k] = s[l] /\ s[k] # None => k = l

\* An item is in one place only: to be pushed, in the queue of the pool, in the
\* hands of a worker, or ready.
Apart ==
  /\ Distinct(tasks) /\ Distinct(job) /\ Distinct(readyQueueItems)
  /\ outbox \cap Range(tasks) = {}
  /\ outbox \cap Range(job) = {}
  /\ outbox \cap Range(readyQueueItems) = {}
  /\ Range(tasks) \cap Range(job) \subseteq {None}
  /\ Range(tasks) \cap Range(readyQueueItems) = {}
  /\ Range(job) \cap Range(readyQueueItems) = {}

Busy == UnderWay \ {None}

\* The callers of the pool: where the items are.
Placed ==
  /\ Busy \subseteq sent
  /\ \A w \in Worker : wpc[w] \in {"check", "post"} <=> job[w] # None
  /\ pc # "push" => outbox = {}
  /\ pc # "submit" => nextItems = {}
  /\ \A i \in nextItems : i \notin sent /\ dirtyDependencies[i] = 0

\* What the outcomes say of where an item is.
Judged ==
  /\ \A i \in Item \ sent : outcome[i] = "none"
  /\ \A i \in outbox \cup Range(tasks) : i # None => outcome[i] = "none"
  /\ \A w \in Worker : /\ wpc[w] = "check" => outcome[job[w]] = "none"
                       /\ wpc[w] = "post" => outcome[job[w]] # "none"
  /\ \A i \in Range(readyQueueItems) : outcome[i] # "none"
  /\ \A i \in Item \ dirty : outcome[i] = "ok"

Stopped == itemWithException # None \/ cancelled

\* Modules that are not recorded are the ones not sent and the ones under way,
\* and after a failure those that were dropped with it.
Recorded ==
  /\ (Item \ sent) \cup Busy \subseteq dirty
  /\ ~Stopped => dirty \subseteq (Item \ sent) \cup Busy

\* A module that was sent had its requires recorded, or is one of a cycle.
InOrder ==
  \A i \in sent : \A j \in requires[i] : j \in dirty => Reaches(requires, j, i)

\* The loop goes on after a failure only while an item is under way.
Going ==
  /\ pc \in {"start", "push", "loop", "sleep"} => processing > 0 \/ ~Stopped
  /\ pc = "start" => sent = {} /\ dirty = Item
  /\ result # "none" <=> pc \in {"stop", "join", "done"}
  /\ result # "none" => processing = 0
  /\ result = "modules" => dirty = {}

QueueInv ==
  /\ Types /\ PostOrder(requires) /\ Apart /\ Placed /\ Counters
  /\ Judged /\ Recorded /\ InOrder /\ Going

-----------------------------------------------------------------------------
(* Items, sequences and counts.                                              *)

LEMMA ItemFacts ==
  /\ None \notin Item /\ IsFiniteSet(Item) /\ Cardinality(Item) = N
  BY BuildQueueAssumption, FS_Interval DEF Item, None

LEMMA AppendRange ==
  ASSUME NEW S, NEW s \in Seq(S), NEW x \in S
  PROVE  /\ Append(s, x) \in Seq(S)
         /\ Range(Append(s, x)) = Range(s) \cup {x}
         /\ Distinct(s) /\ (x = None \/ x \notin Range(s)) => Distinct(Append(s, x))
  <1> DEFINE t == Append(s, x)
  <1>1. /\ t \in Seq(S) /\ DOMAIN t = 1..(Len(s) + 1) /\ Len(s) \in Nat
        /\ DOMAIN s = 1..Len(s)
        /\ \A k \in 1..Len(s) : t[k] = s[k]
        /\ t[Len(s) + 1] = x
    OBVIOUS
  <1> HIDE DEF t
  <1>2. Range(t) = Range(s) \cup {x}
    BY <1>1 DEF Range
  <1>3. ASSUME Distinct(s), x = None \/ x \notin Range(s) PROVE Distinct(t)
    <2> SUFFICES ASSUME NEW k \in DOMAIN t, NEW l \in DOMAIN t, t[k] = t[l], t[k] # None
                 PROVE  k = l
      BY DEF Distinct
    <2>1. CASE k \in 1..Len(s) /\ l \in 1..Len(s)
      BY <1>1, <1>3, <2>1 DEF Distinct
    <2>2. CASE k = Len(s) + 1 \/ l = Len(s) + 1
      BY <1>1, <1>3, <2>2 DEF Range
    <2> QED
      BY <1>1, <2>1, <2>2
  <1> QED
    BY <1>1, <1>2, <1>3 DEF t

LEMMA TailRange ==
  ASSUME NEW S, NEW s \in Seq(S), s # <<>>
  PROVE  /\ Head(s) \in S /\ Tail(s) \in Seq(S)
         /\ Range(s) = {Head(s)} \cup Range(Tail(s))
         /\ Distinct(s) => /\ Distinct(Tail(s))
                           /\ Head(s) = None \/ Head(s) \notin Range(Tail(s))
  <1> DEFINE t == Tail(s)
  <1>1. /\ t \in Seq(S) /\ DOMAIN t = 1..(Len(s) - 1) /\ Len(s) \in Nat /\ Len(s) > 0
        /\ DOMAIN s = 1..Len(s)
        /\ \A k \in 1..(Len(s) - 1) : t[k] = s[k + 1]
        /\ Head(s) = s[1] /\ s[1] \in S
    OBVIOUS
  <1> HIDE DEF t
  <1>2. Range(s) = {s[1]} \cup Range(t)
    <2>1. ASSUME NEW k \in DOMAIN s PROVE s[k] \in {s[1]} \cup Range(t)
      <3>1. CASE k = 1
        BY <3>1
      <3>2. CASE k # 1
        <4>1. k - 1 \in DOMAIN t /\ t[k - 1] = s[k]
          BY <1>1, <3>2
        <4> QED
          BY <4>1 DEF Range
      <3> QED
        BY <3>1, <3>2
    <2>2. ASSUME NEW k \in DOMAIN t PROVE t[k] \in Range(s)
      <3>1. k + 1 \in DOMAIN s /\ t[k] = s[k + 1]
        BY <1>1
      <3> QED
        BY <3>1 DEF Range
    <2>3. s[1] \in Range(s)
      BY <1>1 DEF Range
    <2> QED
      BY <2>1, <2>2, <2>3 DEF Range
  <1>3. ASSUME Distinct(s) PROVE Distinct(t) /\ (s[1] = None \/ s[1] \notin Range(t))
    <2>1. Distinct(t)
      <3> SUFFICES ASSUME NEW k \in DOMAIN t, NEW l \in DOMAIN t, t[k] = t[l], t[k] # None
                   PROVE  k = l
        BY DEF Distinct
      <3>1. /\ k + 1 \in DOMAIN s /\ l + 1 \in DOMAIN s /\ k \in Int /\ l \in Int
            /\ s[k + 1] = s[l + 1] /\ s[k + 1] # None
        BY <1>1
      <3>2. k + 1 = l + 1
        BY <1>3, <3>1 DEF Distinct
      <3> QED
        BY <3>1, <3>2
    <2>2. ASSUME s[1] # None, NEW k \in DOMAIN t, t[k] = s[1] PROVE FALSE
      <3>1. k + 1 \in DOMAIN s /\ s[k + 1] = s[1] /\ 1 \in DOMAIN s /\ k + 1 # 1
        BY <1>1, <2>2
      <3> QED
        BY <1>3, <2>2, <3>1 DEF Distinct
    <2> QED
      BY <2>1, <2>2 DEF Range
  <1> QED
    BY <1>1, <1>2, <1>3 DEF t

LEMMA RangeCount ==
  ASSUME NEW s \in Seq(Item), Distinct(s)
  PROVE  /\ Range(s) \in SUBSET Item /\ IsFiniteSet(Range(s))
         /\ Cardinality(Range(s)) = Len(s) /\ Len(s) \in Nat
  <1>1. /\ DOMAIN s = 1..Len(s) /\ Len(s) \in Nat
        /\ \A k \in 1..Len(s) : s[k] \in Item
    OBVIOUS
  <1>2. Range(s) \in SUBSET Item
    BY <1>1 DEF Range
  <1>3. \A k, l \in 1..Len(s) : s[k] = s[l] => k = l
    BY <1>1, ItemFacts DEF Distinct
  <1>4. s \in Bijection(1..Len(s), Range(s))
    <2>1. s \in [1..Len(s) -> Range(s)]
      <3>1. s = [k \in 1..Len(s) |-> s[k]]
        BY <1>1
      <3>2. \A k \in 1..Len(s) : s[k] \in Range(s)
        BY <1>1 DEF Range
      <3> QED
        BY <3>1, <3>2, Zenon
    <2>2. \A x \in Range(s) : \E k \in 1..Len(s) : s[k] = x
      BY <1>1 DEF Range
    <2> QED
      BY <1>1, <1>3, <2>1, <2>2 DEF Bijection, Injection, Surjection, IsInjective
  <1>5. Cardinality(Range(s)) = Len(s)
    BY <1>1, <1>4, FS_CountingElements DEF ExistsBijection
  <1> QED
    BY <1>1, <1>2, <1>5, ItemFacts, FS_Subset

\* A worker takes an item, or gives it away.
LEMMA JobRange ==
  ASSUME NEW f \in [Worker -> Item \cup {None}], Distinct(f), NEW w \in Worker,
         NEW x \in Item \cup {None}, x = None \/ x \notin Range(f),
         NEW g \in [Worker -> Item \cup {None}],
         g[w] = x, \A u \in Worker : u # w => g[u] = f[u]
  PROVE  /\ Distinct(g)
         /\ Range(g) \ {None} = ((Range(f) \ {f[w]}) \cup {x}) \ {None}
  <1>1. DOMAIN f = Worker /\ DOMAIN g = Worker
    OBVIOUS
  <1>2. Distinct(g)
    <2> SUFFICES ASSUME NEW k \in Worker, NEW l \in Worker, g[k] = g[l], g[k] # None
                 PROVE  k = l
      BY <1>1 DEF Distinct
    <2> QED
      BY <1>1 DEF Distinct, Range
  <1>3. Range(g) \ {None} = ((Range(f) \ {f[w]}) \cup {x}) \ {None}
    <2>1. ASSUME NEW u \in Worker, g[u] # None PROVE g[u] \in (Range(f) \ {f[w]}) \cup {x}
      BY <1>1, <2>1 DEF Distinct, Range
    <2>2. ASSUME NEW u \in Worker, f[u] # f[w] PROVE f[u] \in Range(g)
      BY <1>1, <2>2 DEF Range
    <2>3. x \in Range(g)
      BY <1>1 DEF Range
    <2> QED
      BY <1>1, <2>1, <2>2, <2>3 DEF Range
  <1> QED
    BY <1>1, <1>2, <1>3

LEMMA UnderWayIs ==
  Types => /\ UnderWay = outbox \cup Range(tasks) \cup Range(job) \cup Range(readyQueueItems)
           /\ IsFiniteSet(Busy) /\ Cardinality(Busy) \in Nat /\ Busy \in SUBSET Item
  <1> SUFFICES ASSUME Types
               PROVE  /\ UnderWay = outbox \cup Range(tasks) \cup Range(job)
                                      \cup Range(readyQueueItems)
                      /\ IsFiniteSet(Busy) /\ Cardinality(Busy) \in Nat
                      /\ Busy \in SUBSET Item
    OBVIOUS
  <1>1. UnderWay = outbox \cup Range(tasks) \cup Range(job) \cup Range(readyQueueItems)
    BY DEF UnderWay, Types, Range
  <1>2. Range(tasks) \subseteq Item \cup {None} /\ Range(job) \subseteq Item \cup {None}
        /\ Range(readyQueueItems) \subseteq Item
    BY DEF Types, Range
  <1>3. Busy \in SUBSET Item
    BY <1>1, <1>2 DEF Types, Busy
  <1> QED
    BY <1>1, <1>3, ItemFacts, FS_Subset, FS_CardinalityType

LEMMA UnderWayNext ==
  Types' => UnderWay' = outbox' \cup Range(tasks') \cup Range(job') \cup Range(readyQueueItems')
  <1>1. (Types => UnderWay = outbox \cup Range(tasks) \cup Range(job)
                                    \cup Range(readyQueueItems))'
    BY UnderWayIs, PTL
  <1> QED
    BY <1>1

\* What an item waits for goes down by what is done.
LEMMA WaitsForRest ==
  ASSUME Types, NEW i \in Item, NEW A \in SUBSET Item, NEW B \in SUBSET A
  PROVE  /\ WaitsFor(i, A \ B) = WaitsFor(i, A) - WaitsFor(i, B)
         /\ WaitsFor(i, A) \in Nat
         /\ WaitsFor(i, A) = 0 => requires[i] \cap A = {}
  <1> DEFINE R == requires[i]
  <1>1. /\ IsFiniteSet(R \cap A) /\ IsFiniteSet(R \cap B)
        /\ R \cap (A \ B) = (R \cap A) \ (R \cap B)
        /\ (R \cap A) \cap (R \cap B) = R \cap B
    <2>1. R \in SUBSET Item
      BY DEF Types
    <2> QED
      BY <2>1, ItemFacts, FS_Intersection, FS_Subset
  <1>2. /\ Cardinality(R \cap A) \in Nat /\ Cardinality(R \cap B) \in Nat
        /\ Cardinality(R \cap A) = 0 => R \cap A = {}
    BY <1>1, FS_CardinalityType, FS_EmptySet
  <1>3. Cardinality((R \cap A) \ (R \cap B)) = Cardinality(R \cap A) - Cardinality((R \cap A) \cap (R \cap B))
    BY <1>1, FS_Difference
  <1>4. Cardinality(R \cap (A \ B)) = Cardinality(R \cap A) - Cardinality(R \cap B)
    BY <1>1, <1>3, Zenon
  <1> QED
    BY <1>2, <1>4 DEF WaitsFor

LEMMA LeastNat ==
  ASSUME NEW S \in SUBSET Nat, S # {}
  PROVE  \E n \in S : \A k \in S : n <= k
  <1> DEFINE R == OpToRel(<, Nat)
  <1>1. \A k, n \in Nat : k < n => <<k, n>> \in R
    BY DEF OpToRel
  <1>2. IsWellFoundedOn(R, Nat)
    BY NatLessThanWellFounded
  <1> HIDE DEF R
  <1>3. \E n \in S : \A k \in S : ~(<<k, n>> \in R)
    BY <1>2, WFMin
  <1>4. PICK n \in S : \A k \in S : ~(<<k, n>> \in R)
    BY <1>3
  <1>5. \A k \in S : k \in Nat /\ n \in Nat /\ ~(k < n)
    BY <1>1, <1>4
  <1>6. \A k \in S : n <= k
    BY <1>5
  <1> QED
    BY <1>6

\* The items handled are the first ones that ended well; after a failure none.
LEMMA BeforeIs ==
  ASSUME Types
  PROVE  /\ Before \in 0..Len(readyQueueItems)
         /\ \A k \in 1..Before : ~Bad(readyQueueItems[k])
         /\ Before < Len(readyQueueItems) => Stopped \/ Bad(readyQueueItems[Before + 1])
  <1> DEFINE n == Len(readyQueueItems)
             bad == {k \in 1..n : Bad(readyQueueItems[k])}
  <1>1. n \in Nat /\ DOMAIN readyQueueItems = 1..n
    BY DEF Types
  <1>2. CASE Stopped
    <2>1. Before = 0
      BY <1>2 DEF Before, Stopped
    <2> QED
      BY <1>1, <1>2, <2>1
  <1>3. CASE ~Stopped /\ bad = {}
    <2>1. Before = n
      BY <1>1, <1>3 DEF Before, Stopped
    <2> QED
      BY <1>1, <1>3, <2>1
  <1>4. CASE ~Stopped /\ bad # {}
    <2> DEFINE least == CHOOSE k \in bad : \A l \in bad : k <= l
    <2>1. least \in bad /\ \A l \in bad : least <= l
      <3>1. bad \in SUBSET Nat
        BY <1>1
      <3>2. \E k \in bad : \A l \in bad : k <= l
        BY <1>4, <3>1, LeastNat
      <3> QED
        BY <3>2, Zenon
    <2>2. Before = least - 1
      BY <1>1, <1>4 DEF Before, Stopped
    <2> HIDE DEF least
    <2> QED
      BY <1>1, <2>1, <2>2
  <1> QED
    BY <1>2, <1>3, <1>4

-----------------------------------------------------------------------------
(* Steps.                                                                    *)

\* A step on which nothing is sent, recorded or finished.
LEMMA Kept ==
  ASSUME QueueInv, Types', Busy' = Busy,
         UNCHANGED <<requires, gone, sent, dirtyDependencies, dirty, processing,
                     remaining, itemWithException, cancelled>>
  PROVE  PostOrder(requires)' /\ Counters' /\ Recorded' /\ InOrder'
  <1>1. PostOrder(requires)'
    BY DEF QueueInv
  <1>2. Counters'
    BY DEF QueueInv, Counters, WaitsFor, Busy
  <1>3. Recorded'
    BY DEF QueueInv, Recorded, Stopped
  <1>4. InOrder'
    BY DEF QueueInv, InOrder
  <1> QED
    BY <1>1, <1>2, <1>3, <1>4

\* sendQueueItemTasks, for items whose requires are recorded or that are needed
\* by what they require.
LEMMA SendSound ==
  ASSUME QueueInv, pc \in {"start", "submit"}, NEW S \in SUBSET (Item \ sent),
         sendQueueItemTasks(S),
         \A i \in S : \A j \in requires[i] : j \in dirty => Reaches(requires, j, i),
         UNCHANGED <<requires, gone, dirtyDependencies, dirty, outcome, readyQueueItems,
                     remaining, itemWithException, result, tasks, wpc, job>>,
         nextItems' = {}, cancelled' \in BOOLEAN, cancelled => cancelled',
         S # {} \/ ~Stopped'
  PROVE  QueueInv'
  <1> USE DEF QueueInv, sendQueueItemTasks
  <1>1. IsFiniteSet(S) /\ Cardinality(S) \in Nat /\ (S # {} => Cardinality(S) > 0)
    <2>1. IsFiniteSet(S)
      BY ItemFacts, FS_Subset DEF Types
    <2> QED
      BY <2>1, FS_CardinalityType, FS_EmptySet
  <1>2. processing = Cardinality(Busy) /\ IsFiniteSet(Busy) /\ processing \in Nat
    BY UnderWayIs DEF Counters, Busy
  <1>3. Types'
    BY <1>1, <1>2 DEF Types
  <1>4. outbox = {} /\ result = "none" /\ Busy \subseteq sent /\ sent \in SUBSET Item
    BY DEF Placed, Going, Types
  <1>5. Busy' = Busy \cup S
    <2>1. UnderWay' = S \cup Range(tasks) \cup Range(job) \cup Range(readyQueueItems)
      BY <1>3, UnderWayNext
    <2>2. UnderWay = Range(tasks) \cup Range(job) \cup Range(readyQueueItems)
      BY <1>4, UnderWayIs
    <2> QED
      BY <2>1, <2>2, ItemFacts DEF Busy
  <1>6. Busy \cap S = {}
    BY <1>4
  <1>7. Counters'
    <2>1. processing' = Cardinality(Busy')
      <3>1. Cardinality(Busy \cup S) = Cardinality(Busy) + Cardinality(S) - Cardinality({})
        BY <1>1, <1>2, <1>6, FS_Union
      <3> QED
        BY <1>1, <1>2, <1>5, <3>1, FS_EmptySet
    <2>2. Cardinality(Item \ sent') = Cardinality(Item \ sent) - Cardinality(S)
      <3>1. Item \ sent' = (Item \ sent) \ S /\ (Item \ sent) \cap S = S
        OBVIOUS
      <3>2. IsFiniteSet(Item \ sent)
        BY ItemFacts, FS_Subset
      <3>3. Cardinality((Item \ sent) \ S)
              = Cardinality(Item \ sent) - Cardinality((Item \ sent) \cap S)
        BY <3>2, FS_Difference
      <3> QED
        BY <3>1, <3>3, Zenon
    <2>3. Cardinality(Item \ sent) \in Nat
      BY ItemFacts, FS_Subset, FS_CardinalityType
    <2>4. remaining' = processing' + Cardinality(Item \ sent')
      BY <1>1, <1>2, <2>2, <2>3 DEF Counters
    <2> QED
      BY <2>1, <2>4 DEF Counters, WaitsFor, Busy
  <1>8. Apart'
    <2>1. S \cap (Range(tasks) \cup Range(job) \cup Range(readyQueueItems)) = {}
      BY <1>4, UnderWayIs, ItemFacts DEF Busy
    <2> QED
      BY <2>1 DEF Apart
  <1>9. Placed'
    BY <1>4, <1>5 DEF Placed
  <1>10. Judged'
    BY <1>4 DEF Judged
  <1>11. Recorded'
    BY <1>4, <1>5 DEF Recorded, Stopped
  <1>12. InOrder' /\ PostOrder(requires)'
    BY DEF InOrder
  <1>13. Going'
    BY <1>1, <1>2, <1>4 DEF Going
  <1> QED
    BY <1>3, <1>7, <1>8, <1>9, <1>10, <1>11, <1>12, <1>13

\* TaskScheduler::push wakes at most one worker, which has nothing in hand.
LEMMA PushWakes ==
  ASSUME Types, NEW x \in Item \cup {None}, Push(x)
  PROVE  /\ tasks' = Append(tasks, x) /\ job' = job
         /\ wpc' \in [Worker -> {"pop", "sleep", "check", "post", "notify", "exit"}]
         /\ \A w \in Worker : wpc'[w] = wpc[w] \/ (wpc[w] = "sleep" /\ wpc'[w] = "pop")
  BY DEF Push, Types

LEMMA PushTaskSound ==
  ASSUME QueueInv, PushTask
  PROVE  QueueInv'
  <1> USE DEF QueueInv
  <1>0. PICK i \in outbox : /\ Push(i) /\ outbox' = outbox \ {i}
                            /\ pc' = IF outbox = {i} THEN "loop" ELSE "push"
    BY DEF PushTask
  <1>1. /\ pc = "push" /\ i \in Item
        /\ UNCHANGED <<requires, gone, sent, dirtyDependencies, dirty, outcome, readyQueueItems,
                       processing, remaining, nextItems, itemWithException, cancelled, result>>
    BY DEF PushTask, graph, items, work, Types
  <1>2. /\ tasks' = Append(tasks, i) /\ job' = job
        /\ wpc' \in [Worker -> {"pop", "sleep", "check", "post", "notify", "exit"}]
        /\ \A w \in Worker : wpc'[w] = wpc[w] \/ (wpc[w] = "sleep" /\ wpc'[w] = "pop")
    BY <1>0, <1>1, PushWakes
  <1>3. i \notin Range(tasks) \cup Range(job) \cup Range(readyQueueItems) /\ i # None
    BY <1>1, ItemFacts DEF Apart
  <1>4. /\ tasks' \in Seq(Item \cup {None}) /\ Range(tasks') = Range(tasks) \cup {i}
        /\ Distinct(tasks')
    BY <1>1, <1>2, <1>3, AppendRange DEF Types, Apart
  <1>5. Types'
    BY <1>0, <1>1, <1>2, <1>4 DEF Types
  <1>6. Busy' = Busy
    BY <1>0, <1>1, <1>2, <1>4, <1>5, UnderWayIs, UnderWayNext DEF Busy
  <1>7. Apart'
    BY <1>0, <1>1, <1>2, <1>3, <1>4 DEF Apart
  <1>8. Placed'
    BY <1>0, <1>1, <1>2, <1>6 DEF Placed
  <1>9. Judged'
    BY <1>0, <1>1, <1>2, <1>4 DEF Judged
  <1>10. Going'
    BY <1>0, <1>1 DEF Going, Stopped
  <1> QED
    BY <1>1, <1>5, <1>6, <1>7, <1>8, <1>9, <1>10, Kept

LEMMA PushStopSound ==
  ASSUME QueueInv, PushStop
  PROVE  QueueInv'
  <1> USE DEF QueueInv
  <1>1. /\ pc = "stop" /\ pc' \in {"stop", "join"} /\ Push(None)
        /\ UNCHANGED <<requires, gone, sent, dirtyDependencies, dirty, outcome, readyQueueItems,
                       processing, remaining, nextItems, itemWithException, cancelled, result,
                       outbox>>
    BY DEF PushStop, graph, items, work, locals
  <1>2. /\ tasks' = Append(tasks, None) /\ job' = job
        /\ wpc' \in [Worker -> {"pop", "sleep", "check", "post", "notify", "exit"}]
        /\ \A w \in Worker : wpc'[w] = wpc[w] \/ (wpc[w] = "sleep" /\ wpc'[w] = "pop")
    BY <1>1, PushWakes
  <1>3. outbox = {} /\ None \notin Range(readyQueueItems)
    BY <1>1, UnderWayIs, ItemFacts DEF Placed, Types, Range
  <1>4. /\ tasks' \in Seq(Item \cup {None}) /\ Range(tasks') = Range(tasks) \cup {None}
        /\ Distinct(tasks')
    BY <1>2, AppendRange DEF Types, Apart
  <1>5. Types'
    BY <1>1, <1>2, <1>4 DEF Types
  <1>6. Busy' = Busy
    BY <1>1, <1>2, <1>4, <1>5, UnderWayIs, UnderWayNext DEF Busy
  <1>7. Apart'
    BY <1>1, <1>2, <1>3, <1>4 DEF Apart
  <1>8. Placed'
    BY <1>1, <1>2, <1>6 DEF Placed
  <1>9. Judged'
    BY <1>1, <1>2, <1>4 DEF Judged
  <1>10. Going'
    BY <1>1 DEF Going, Stopped
  <1> QED
    BY <1>1, <1>5, <1>6, <1>7, <1>8, <1>9, <1>10, Kept

\* Steps of the caller that only move it on, and wakeups.
LEMMA CallerMoves ==
  ASSUME QueueInv, Types', Apart', Judged',
         UNCHANGED <<requires, gone, sent, dirtyDependencies, dirty, outcome, readyQueueItems,
                     processing, remaining, nextItems, itemWithException, cancelled,
                     outbox, tasks, job>>,
         \A w \in Worker : wpc'[w] \in {"check", "post"} <=> wpc[w] \in {"check", "post"},
         pc' # "push" => outbox = {}, pc' # "submit" => nextItems = {}, Going'
  PROVE  QueueInv'
  <1>1. Busy' = Busy
    BY DEF Busy, UnderWay
  <1>2. Placed'
    BY <1>1 DEF QueueInv, Placed
  <1> QED
    BY <1>1, <1>2, Kept DEF QueueInv

LEMMA PopSound ==
  ASSUME QueueInv, NEW w \in Worker, Pop(w), tasks # <<>>
  PROVE  QueueInv'
  <1> USE DEF QueueInv
  <1>0. PICK x \in Item \cup {None} : Head(tasks) = x
    BY TailRange DEF Types
  <1>1. /\ wpc[w] = "pop" /\ tasks' = Tail(tasks) /\ job' = [job EXCEPT ![w] = x]
        /\ wpc' = [wpc EXCEPT ![w] = IF x = None THEN "exit" ELSE "check"]
        /\ UNCHANGED <<requires, gone, sent, dirtyDependencies, dirty, outcome, readyQueueItems,
                       processing, remaining, nextItems, itemWithException, cancelled, result,
                       outbox, pc>>
    BY <1>0 DEF Pop, graph, items, work, locals
  <1>2. /\ Tail(tasks) \in Seq(Item \cup {None}) /\ Range(tasks) = {x} \cup Range(Tail(tasks))
        /\ Distinct(Tail(tasks)) /\ (x = None \/ x \notin Range(Tail(tasks)))
    BY <1>0, TailRange DEF Types, Apart
  <1>3. job[w] = None
    BY <1>1 DEF Placed, Types
  <1>4. x = None \/ (x \notin Range(job) /\ x \notin outbox /\ x \notin Range(readyQueueItems))
    BY <1>2 DEF Apart
  <1>5. /\ job' \in [Worker -> Item \cup {None}] /\ Distinct(job')
        /\ Range(job') \ {None} = ((Range(job) \ {None}) \cup {x}) \ {None}
    <2>1. job \in [Worker -> Item \cup {None}] /\ Distinct(job) /\ (x = None \/ x \notin Range(job))
      BY <1>4 DEF Types, Apart
    <2>2. /\ job' \in [Worker -> Item \cup {None}] /\ job'[w] = x
          /\ \A u \in Worker : u # w => job'[u] = job[u]
      BY <1>1, <2>1
    <2>3. Distinct(job') /\ Range(job') \ {None} = ((Range(job) \ {job[w]}) \cup {x}) \ {None}
      BY <2>1, <2>2, JobRange
    <2> QED
      BY <1>3, <2>2, <2>3
  <1>6. Types'
    BY <1>1, <1>2, <1>5 DEF Types
  <1>7. Busy' = Busy
    BY <1>1, <1>2, <1>5, <1>6, UnderWayIs, UnderWayNext DEF Busy
  <1>8. None \notin outbox /\ None \notin Range(readyQueueItems)
    BY ItemFacts DEF Types, Range
  <1>9. Apart'
    BY <1>1, <1>2, <1>4, <1>5, <1>8 DEF Apart
  <1>10. Placed'
    BY <1>0, <1>1, <1>7 DEF Placed, Types
  <1>11. Judged'
    BY <1>0, <1>1, <1>2 DEF Judged, Types
  <1>12. Going'
    BY <1>1 DEF Going, Stopped
  <1> QED
    BY <1>1, <1>6, <1>7, <1>9, <1>10, <1>11, <1>12, Kept

LEMMA CheckSound ==
  ASSUME QueueInv, NEW w \in Worker, Check(w)
  PROVE  QueueInv' /\ outcome[job[w]] = "none"
         /\ \A i \in Item : i # job[w] => outcome'[i] = outcome[i]
  <1> USE DEF QueueInv
  <1>0. PICK o \in Outcome : outcome' = [outcome EXCEPT ![job[w]] = o]
    BY DEF Check
  <1>1. /\ wpc[w] = "check" /\ wpc' = [wpc EXCEPT ![w] = "post"]
        /\ UNCHANGED <<requires, gone, sent, dirtyDependencies, dirty, readyQueueItems,
                       processing, remaining, nextItems, itemWithException, cancelled, result,
                       outbox, pc, tasks, job>>
    BY DEF Check, graph, items, work, locals
  <1>2. o \in {"ok", "exception", "cancelled"}
    BY BuildQueueAssumption
  <1>3. /\ job[w] # None /\ job[w] \in Item /\ job[w] \in Range(job)
        /\ job[w] \in Busy /\ outcome[job[w]] = "none"
    BY <1>1, UnderWayIs DEF Placed, Types, Judged, Range, Busy
  <1>4. \A i \in Item : outcome'[i] = IF i = job[w] THEN o ELSE outcome[i]
    BY <1>0, <1>3 DEF Types
  <1>5. Types'
    BY <1>0, <1>1, <1>2 DEF Types
  <1>6. Apart'
    BY <1>1 DEF Apart
  <1>7. Judged'
    <2>1. job[w] \in sent /\ job[w] \in dirty
      BY <1>3 DEF Placed, Recorded
    <2>2. job[w] \notin outbox \cup Range(tasks)
      BY <1>3 DEF Apart
    <2>3. \A u \in Worker : u # w => job[u] # job[w]
      BY <1>3 DEF Apart, Distinct, Types
    <2>4. Range(readyQueueItems) \subseteq Item /\ outbox \cup Range(tasks) \subseteq Item \cup {None}
      BY DEF Types, Range
    <2>5. \A u \in Worker : wpc'[u] = "check" => u # w /\ wpc[u] = "check" /\ job[u] \in Item
      BY <1>1 DEF Types, Placed
    <2>6. \A u \in Worker : wpc'[u] = "post" => u = w \/ (wpc[u] = "post" /\ job[u] \in Item)
      BY <1>1 DEF Types, Placed
    <2> QED
      BY <1>1, <1>2, <1>3, <1>4, <2>1, <2>2, <2>3, <2>4, <2>5, <2>6 DEF Judged
  <1>8. Going'
    BY <1>1 DEF Going, Stopped
  <1>9. \A u \in Worker : wpc'[u] \in {"check", "post"} <=> wpc[u] \in {"check", "post"}
    BY <1>1 DEF Types
  <1>10. nextItems # {} => pc' = "submit"
    BY <1>1 DEF Placed
  <1>11. Busy' = Busy
    BY <1>1 DEF Busy, UnderWay
  <1>12. Placed'
    BY <1>1, <1>9, <1>11 DEF Placed
  <1> QED
    BY <1>1, <1>3, <1>4, <1>5, <1>6, <1>7, <1>8, <1>11, <1>12, Kept

LEMMA PostSound ==
  ASSUME QueueInv, NEW w \in Worker, Post(w)
  PROVE  QueueInv'
  <1> USE DEF QueueInv
  <1>0. PICK x \in Item : job[w] = x
    BY DEF Post, Placed, Types
  <1>1. /\ wpc[w] = "post" /\ readyQueueItems' = Append(readyQueueItems, x)
        /\ wpc' = [wpc EXCEPT ![w] = "notify"] /\ job' = [job EXCEPT ![w] = None]
        /\ UNCHANGED <<requires, gone, sent, dirtyDependencies, dirty, outcome,
                       processing, remaining, nextItems, itemWithException, cancelled, result,
                       outbox, pc, tasks>>
    BY <1>0 DEF Post, graph, items, locals
  <1>2. x # None /\ x \in Range(job)
    BY <1>0, ItemFacts DEF Types, Range
  <1>3. x \notin outbox /\ x \notin Range(tasks) /\ x \notin Range(readyQueueItems)
    BY <1>2 DEF Apart
  <1>4. /\ readyQueueItems' \in Seq(Item) /\ Distinct(readyQueueItems')
        /\ Range(readyQueueItems') = Range(readyQueueItems) \cup {x}
    BY <1>1, <1>3, AppendRange DEF Types, Apart
  <1>5. /\ job' \in [Worker -> Item \cup {None}] /\ Distinct(job')
        /\ Range(job') \ {None} = ((Range(job) \ {x}) \cup {None}) \ {None}
    <2>1. job \in [Worker -> Item \cup {None}] /\ Distinct(job) /\ None \in Item \cup {None}
      BY DEF Types, Apart
    <2>2. /\ job' \in [Worker -> Item \cup {None}] /\ job'[w] = None
          /\ \A u \in Worker : u # w => job'[u] = job[u]
      BY <1>1, <2>1
    <2>3. Distinct(job') /\ Range(job') \ {None} = ((Range(job) \ {job[w]}) \cup {None}) \ {None}
      BY <2>1, <2>2, JobRange
    <2> QED
      BY <1>0, <2>2, <2>3
  <1>6. Types'
    BY <1>1, <1>4, <1>5 DEF Types
  <1>7. Busy' = Busy
    BY <1>1, <1>2, <1>4, <1>5, <1>6, UnderWayIs, UnderWayNext DEF Busy
  <1>8. None \notin outbox /\ None \notin Range(readyQueueItems)
    BY ItemFacts DEF Types, Range
  <1>9. Apart'
    <2>1. /\ Range(job') \subseteq Range(job) \cup {None} /\ x \notin Range(job')
          /\ None \notin Range(readyQueueItems')
      BY <1>2, <1>4, <1>5, <1>8
    <2> QED
      <3>1. Range(job') \cap Range(readyQueueItems') = {}
        BY <1>4, <2>1 DEF Apart
      <3>2. outbox \cap Range(job') = {} /\ Range(tasks) \cap Range(job') \subseteq {None}
        BY <1>8, <2>1 DEF Apart
      <3>3. /\ outbox \cap Range(readyQueueItems') = {}
            /\ Range(tasks) \cap Range(readyQueueItems') = {}
        BY <1>3, <1>4 DEF Apart
      <3> QED
        BY <1>1, <1>4, <1>5, <3>1, <3>2, <3>3 DEF Apart
  <1>10. Placed'
    BY <1>1, <1>7 DEF Placed, Types
  <1>11. Judged'
    BY <1>0, <1>1, <1>4 DEF Judged, Types
  <1>12. Going'
    BY <1>1 DEF Going, Stopped
  <1> QED
    BY <1>1, <1>6, <1>7, <1>9, <1>10, <1>11, <1>12, Kept

LEMMA HandleBatchSound ==
  ASSUME QueueInv, HandleBatch
  PROVE  QueueInv'
  <1> USE DEF QueueInv
  <1> DEFINE n == Len(readyQueueItems)
  <1>0. PICK done \in SUBSET Item, b \in 0..n :
          /\ b = Before /\ done = {readyQueueItems[k] : k \in 1..b}
    <2>1. {readyQueueItems[k] : k \in 1..Before} \in SUBSET Item
      BY BeforeIs DEF Types
    <2> QED
      BY <2>1, BeforeIs
  <1>1. /\ pc = "loop" /\ pc' = "submit"
        /\ dirty' = dirty \ done
        /\ dirtyDependencies' = [i \in Item |-> dirtyDependencies[i] - WaitsFor(i, done)]
        /\ nextItems' = Unlocked(dirtyDependencies', done)
        /\ processing' = processing - n /\ remaining' = remaining - n
        /\ readyQueueItems' = <<>>
        /\ UNCHANGED <<requires, gone, sent, outcome, outbox, result, tasks, wpc, job>>
    BY <1>0 DEF HandleBatch, recordItemResult, Retired, graph, pool
  <1>2. IF b < n
        THEN LET i == readyQueueItems[b + 1]
             IN /\ itemWithException' = IF outcome[i] = "exception" THEN i ELSE itemWithException
                /\ cancelled' = (cancelled \/ outcome[i] = "cancelled")
        ELSE UNCHANGED <<itemWithException, cancelled>>
    BY <1>0 DEF HandleBatch
  <1>3. /\ n \in Nat /\ Range(readyQueueItems) \in SUBSET Item
        /\ IsFiniteSet(Range(readyQueueItems)) /\ Cardinality(Range(readyQueueItems)) = n
        /\ DOMAIN readyQueueItems = 1..n
    BY RangeCount DEF Types, Apart
  <1>4. /\ done \subseteq Range(readyQueueItems) /\ (b = n => done = Range(readyQueueItems))
        /\ \A i \in done : outcome[i] = "ok"
    <2>1. done \subseteq Range(readyQueueItems) /\ (b = n => done = Range(readyQueueItems))
      <3>1. \A k \in 1..b : k \in DOMAIN readyQueueItems
        BY <1>3
      <3>2. b = n => 1..b = DOMAIN readyQueueItems
        BY <1>3
      <3> HIDE DEF n
      <3> QED
        BY <1>0, <3>1, <3>2 DEF Range
    <2>2. \A i \in done : ~Bad(i) /\ outcome[i] # "none"
      BY <1>0, <2>1, BeforeIs DEF Judged
    <2> QED
      BY <2>1, <2>2 DEF Bad, Types
  <1>5. /\ itemWithException' \in Item \cup {None} /\ cancelled' \in BOOLEAN
        /\ ~Stopped' => ~Stopped /\ b = n
    <2>1. CASE b < n
      <3>1. readyQueueItems[b + 1] \in Item /\ readyQueueItems[b + 1] # None
        BY <1>3, <2>1, ItemFacts DEF Types
      <3>2. Stopped \/ Bad(readyQueueItems[b + 1])
        BY <1>0, <2>1, BeforeIs
      <3> QED
        BY <1>2, <2>1, <3>1, <3>2 DEF Stopped, Bad, Types
    <2>2. CASE ~(b < n)
      <3>1. b = n
        BY <1>3, <2>2
      <3> QED
        BY <1>2, <2>2, <3>1 DEF Stopped, Types
    <2> QED
      BY <2>1, <2>2
  <1>6. \A i \in Item : WaitsFor(i, done) \in Nat
    BY WaitsForRest
  <1>7. Types'
    <2>1. dirtyDependencies' \in [Item -> Int]
      BY <1>1, <1>6 DEF Types
    <2>2. nextItems' \in SUBSET Item /\ readyQueueItems' \in Seq(Item)
      BY <1>1 DEF Unlocked
    <2> QED
      BY <1>1, <1>3, <1>5, <2>1, <2>2 DEF Types
  <1>8. Range(readyQueueItems') = {} /\ Distinct(readyQueueItems')
    BY <1>1 DEF Range, Distinct
  <1>9. /\ Busy' = Busy \ Range(readyQueueItems) /\ Range(readyQueueItems) \subseteq Busy
    <2>1. outbox = {} /\ None \notin Range(readyQueueItems)
      BY <1>1, <1>3, ItemFacts DEF Placed
    <2>2. UnderWay' = Range(tasks) \cup Range(job)
      BY <1>1, <1>7, <1>8, <2>1, UnderWayNext
    <2>3. UnderWay = Range(tasks) \cup Range(job) \cup Range(readyQueueItems)
      BY <2>1, UnderWayIs
    <2> QED
      BY <2>1, <2>2, <2>3 DEF Busy, Apart
  <1>10. Apart'
    BY <1>1, <1>8 DEF Apart
  <1>11. Placed'
    BY <1>1, <1>9 DEF Placed, Unlocked
  <1>12. Counters'
    <2>1. processing = Cardinality(Busy) /\ IsFiniteSet(Busy) /\ processing \in Nat
      BY UnderWayIs DEF Counters, Busy
    <2>2. Cardinality(Busy \ Range(readyQueueItems)) = Cardinality(Busy) - n
      <3>1. Busy \cap Range(readyQueueItems) = Range(readyQueueItems)
        BY <1>9
      <3>2. Cardinality(Busy \ Range(readyQueueItems))
              = Cardinality(Busy) - Cardinality(Busy \cap Range(readyQueueItems))
        BY <2>1, FS_Difference
      <3> QED
        BY <1>3, <3>1, <3>2, Zenon
    <2>3. processing' = Cardinality(Busy')
      BY <1>1, <1>9, <2>1, <2>2
    <2>4. remaining' = processing' + Cardinality(Item \ sent')
      <3>1. Cardinality(Item \ sent) \in Nat
        BY ItemFacts, FS_Subset, FS_CardinalityType
      <3> QED
        BY <1>1, <1>3, <2>1, <3>1 DEF Counters
    <2>5. ASSUME NEW i \in Item PROVE dirtyDependencies'[i] = WaitsFor(i, dirty \ done)
      <3>1. done \in SUBSET dirty
        BY <1>4, <1>9 DEF Recorded
      <3>2. WaitsFor(i, dirty \ done) = WaitsFor(i, dirty) - WaitsFor(i, done)
        BY <3>1, WaitsForRest DEF Types
      <3> QED
        BY <1>1, <3>2 DEF Counters
    <2>6. \A i \in Item : WaitsFor(i, dirty)' = WaitsFor(i, dirty \ done)
      BY <1>1 DEF WaitsFor
    <2> QED
      BY <2>3, <2>4, <2>5, <2>6 DEF Counters, Busy
  <1>13. Judged'
    BY <1>1, <1>4, <1>8 DEF Judged
  <1>14. Recorded'
    BY <1>1, <1>4, <1>5, <1>9 DEF Recorded, Placed
  <1>15. InOrder' /\ PostOrder(requires)'
    BY <1>1 DEF InOrder
  <1>16. Going'
    BY <1>1 DEF Going
  <1> QED
    BY <1>7, <1>10, <1>11, <1>12, <1>13, <1>14, <1>15, <1>16

\* An item of the cycle, when no other is under way.
LEMMA CycleOrdered ==
  ASSUME QueueInv, ~Stopped, processing = 0, NEW i \in CycleItem
  PROVE  \A j \in requires[i] : j \in dirty => Reaches(requires, j, i)
  <1> USE DEF QueueInv
  <1>1. Busy = {}
    BY UnderWayIs, FS_EmptySet DEF Counters, Busy
  <1> SUFFICES ASSUME NEW j \in requires[i], j \in dirty PROVE Reaches(requires, j, i)
    OBVIOUS
  <1>2. j \in Item \ sent /\ i \in Item \ sent
    BY <1>1 DEF Recorded, CycleItem
  <1>3. j >= i
    BY <1>2 DEF CycleItem, Item
  <1> QED
    BY <1>2, <1>3 DEF PostOrder

\* An item that waits for nothing.
LEMMA FreeOrdered ==
  ASSUME QueueInv, NEW i \in Item, dirtyDependencies[i] = 0
  PROVE  \A j \in requires[i] : j \in dirty => Reaches(requires, j, i)
  <1>1. WaitsFor(i, dirty) = 0
    BY DEF QueueInv, Counters
  <1>2. requires[i] \cap dirty = {}
    BY <1>1, WaitsForRest DEF QueueInv, Types
  <1> QED
    BY <1>2

LEMMA StartSound ==
  ASSUME QueueInv, Start
  PROVE  QueueInv'
  <1>1. PICK S : /\ sendQueueItemTasks(S)
                 /\ S = LET free == {i \in Item : dirtyDependencies[i] = 0}
                        IN IF free # {} THEN free ELSE CycleItem
    BY DEF Start
  <1>2. /\ pc = "start"
        /\ UNCHANGED <<requires, gone, dirtyDependencies, dirty, outcome, readyQueueItems,
                       remaining, nextItems, itemWithException, cancelled, result, tasks, wpc, job>>
    BY DEF Start, graph, pool
  <1>3. sent = {} /\ nextItems = {} /\ cancelled \in BOOLEAN
    BY <1>2 DEF QueueInv, Going, Placed, Types
  <1>4. processing = 0
    BY <1>3, UnderWayIs, FS_EmptySet DEF QueueInv, Counters, Placed, Busy
  <1>5. ~Stopped /\ ~Stopped'
    BY <1>2, <1>4 DEF QueueInv, Going, Stopped
  <1>6. S \in SUBSET (Item \ sent)
    BY <1>1, <1>3 DEF CycleItem
  <1>7. \A i \in S : \A j \in requires[i] : j \in dirty => Reaches(requires, j, i)
    BY <1>1, <1>4, <1>5, CycleOrdered, FreeOrdered
  <1> QED
    BY <1>1, <1>2, <1>3, <1>5, <1>6, <1>7, SendSound

LEMMA SubmitSound ==
  ASSUME QueueInv, Submit
  PROVE  QueueInv'
  <1> USE DEF QueueInv
  <1>1. /\ pc = "submit" /\ nextItems' = {}
        /\ UNCHANGED <<requires, gone, dirtyDependencies, dirty, outcome, readyQueueItems,
                       remaining, itemWithException, tasks, wpc, job>>
    BY DEF Submit, graph, pool
  <1>2. cancelled' \in BOOLEAN /\ (cancelled => cancelled') /\ (Stopped => Stopped')
    BY <1>1 DEF Submit, Types, Stopped
  <1>3. CASE nextItems # {} /\ sendQueueItemTasks(nextItems) /\ UNCHANGED result
    <2>1. nextItems \in SUBSET (Item \ sent)
      BY DEF Placed, Types
    <2>2. \A i \in nextItems : \A j \in requires[i] : j \in dirty => Reaches(requires, j, i)
      BY <2>1, FreeOrdered DEF Placed
    <2> QED
      BY <1>1, <1>2, <1>3, <2>1, <2>2, SendSound
  <1>4. CASE /\ processing = 0 /\ remaining # 0 /\ ~Stopped'
             /\ sendQueueItemTasks(CycleItem) /\ UNCHANGED result
    <2>1. CycleItem \in SUBSET (Item \ sent)
      BY DEF CycleItem
    <2>2. \A i \in CycleItem : \A j \in requires[i] : j \in dirty => Reaches(requires, j, i)
      BY <1>2, <1>4, CycleOrdered
    <2> QED
      BY <1>1, <1>2, <1>4, <2>1, <2>2, SendSound
  <1>5. ASSUME UNCHANGED <<sent, processing, outbox>>,
               \/ /\ processing = 0 /\ pc' = "stop" /\ result' \in {"cancelled", "threw"}
               \/ /\ pc' = "loop" /\ result' = result /\ (processing # 0 \/ ~Stopped')
        PROVE  QueueInv'
    <2>1. Types'
      BY <1>1, <1>2, <1>5 DEF Types
    <2>2. Busy' = Busy
      BY <1>1, <1>5 DEF Busy, UnderWay
    <2>3. Apart' /\ Judged' /\ Placed'
      BY <1>1, <1>5, <2>2 DEF Apart, Judged, Placed
    <2>4. Going'
      <3>1. processing \in Nat
        BY UnderWayIs DEF Counters, Busy
      <3> QED
        BY <1>1, <1>5, <3>1 DEF Going
    <2>5. Counters' /\ PostOrder(requires)' /\ InOrder'
      BY <1>1, <1>5, <2>2 DEF Counters, WaitsFor, Busy, InOrder
    <2>6. Recorded'
      BY <1>1, <1>2, <1>5, <2>2 DEF Recorded
    <2> QED
      BY <2>1, <2>3, <2>4, <2>5, <2>6
  <1>6. \/ nextItems # {} /\ sendQueueItemTasks(nextItems) /\ UNCHANGED result
        \/ /\ UNCHANGED <<sent, processing, outbox>>
           /\ processing = 0 /\ pc' = "stop" /\ result' \in {"cancelled", "threw"}
        \/ /\ processing = 0 /\ remaining # 0 /\ ~Stopped'
           /\ sendQueueItemTasks(CycleItem) /\ UNCHANGED result
        \/ /\ UNCHANGED <<sent, processing, outbox>>
           /\ pc' = "loop" /\ result' = result /\ (processing # 0 \/ ~Stopped')
    BY <1>1 DEF Submit, MayLeave, Stopped
  <1> QED
    BY <1>3, <1>4, <1>5, <1>6

-----------------------------------------------------------------------------
(* All steps.                                                                *)

LEMMA FinishSound ==
  ASSUME QueueInv, Finish
  PROVE  QueueInv'
  <1> USE DEF QueueInv
  <1>1. /\ pc = "loop" /\ remaining = 0 /\ result' = "modules" /\ pc' = "stop"
        /\ UNCHANGED <<requires, gone, sent, dirtyDependencies, dirty, outcome, readyQueueItems,
                       processing, remaining, nextItems, itemWithException, cancelled,
                       outbox, tasks, wpc, job>>
    BY DEF Finish, graph, items, work, pool
  <1>2. processing = 0 /\ Busy = {} /\ Item \ sent = {}
    <2>1. IsFiniteSet(Item \ sent) /\ Cardinality(Item \ sent) \in Nat
      BY ItemFacts, FS_Subset, FS_CardinalityType
    <2>2. processing \in Nat /\ processing = Cardinality(Busy) /\ IsFiniteSet(Busy)
      BY UnderWayIs DEF Counters, Busy
    <2>3. processing = 0 /\ Cardinality(Item \ sent) = 0
      BY <1>1, <2>1, <2>2 DEF Counters
    <2> QED
      BY <2>1, <2>2, <2>3, FS_EmptySet
  <1>3. dirty = {}
    BY <1>1, <1>2 DEF Going, Recorded
  <1>4. Types' /\ Apart' /\ Judged'
    BY <1>1 DEF Types, Apart, Judged
  <1>5. Going'
    BY <1>1, <1>2, <1>3 DEF Going
  <1>6. outbox = {} /\ nextItems = {}
    BY <1>1 DEF Placed
  <1> QED
    BY <1>1, <1>4, <1>5, <1>6, CallerMoves

\* Wait, Join, Notify and the wakeups: only pc and wpc change.
LEMMA MoveOnSound ==
  ASSUME QueueInv,
         UNCHANGED <<requires, gone, sent, dirtyDependencies, dirty, outcome, readyQueueItems,
                     processing, remaining, nextItems, itemWithException, cancelled, result,
                     outbox, tasks, job>>,
         \/ pc' = pc
         \/ pc \in {"loop", "sleep"} /\ pc' \in {"loop", "sleep"}
         \/ pc = "join" /\ pc' = "done",
         \/ wpc' = wpc
         \/ \E w \in Worker : /\ wpc[w] \in {"sleep", "notify", "pop"}
                              /\ \/ wpc' = [wpc EXCEPT ![w] = "pop"]
                                 \/ wpc' = [wpc EXCEPT ![w] = "sleep"]
  PROVE  QueueInv'
  <1> USE DEF QueueInv
  <1>1. /\ wpc' \in [Worker -> {"pop", "sleep", "check", "post", "notify", "exit"}]
        /\ \A w \in Worker : \/ wpc'[w] = wpc[w]
                             \/ /\ wpc[w] \notin {"check", "post"}
                                /\ wpc'[w] \notin {"check", "post"}
    BY DEF Types
  <1>2. Types' /\ Apart'
    BY <1>1 DEF Types, Apart
  <1>3. Judged'
    BY <1>1 DEF Judged
  <1>4. Going'
    BY DEF Going, Stopped
  <1>5. (pc' # "push" => outbox = {}) /\ (pc' # "submit" => nextItems = {})
    BY DEF Placed
  <1> QED
    BY <1>1, <1>2, <1>3, <1>4, <1>5, CallerMoves

LEMMA InitQueue == Init => QueueInv
  <1> SUFFICES ASSUME Init PROVE QueueInv
    OBVIOUS
  <1> USE DEF Init
  <1>0. N \in Nat /\ N > 0 /\ Gone \subseteq Item
    BY BuildQueueAssumption
  <1>1. /\ Range(tasks) = {} /\ Range(readyQueueItems) = {} /\ Range(job) \subseteq {None}
        /\ Distinct(tasks) /\ Distinct(readyQueueItems) /\ Distinct(job)
    BY DEF Range, Distinct
  <1>2. UnderWay \subseteq {None} /\ Busy = {}
    BY DEF UnderWay, Busy
  <1>3. \A i \in Item : WaitsFor(i, Item) \in Nat
    <2> SUFFICES ASSUME NEW i \in Item PROVE WaitsFor(i, Item) \in Nat
      OBVIOUS
    <2>1. IsFiniteSet(requires[i] \cap Item)
      BY ItemFacts, FS_Intersection
    <2>2. Cardinality(requires[i] \cap Item) \in Nat
      BY <2>1, FS_CardinalityType
    <2> QED
      BY <2>2 DEF WaitsFor
  <1>4. Types
    <2>1. dirtyDependencies \in [Item -> Int]
      BY <1>3
    <2>2. tasks \in Seq(Item \cup {None}) /\ readyQueueItems \in Seq(Item)
      OBVIOUS
    <2>3. /\ outcome \in [Item -> {"none", "ok", "exception", "cancelled"}]
          /\ wpc \in [Worker -> {"pop", "sleep", "check", "post", "notify", "exit"}]
          /\ job \in [Worker -> Item \cup {None}]
      OBVIOUS
    <2>4. processing \in Int /\ remaining \in Int
      BY <1>0
    <2>5. /\ gone \in SUBSET Item /\ dirty \in SUBSET Item /\ sent \in SUBSET Item
          /\ nextItems \in SUBSET Item /\ outbox \in SUBSET Item
      BY <1>0
    <2>6. /\ itemWithException \in Item \cup {None} /\ requires \in [Item -> SUBSET Item]
          /\ cancelled \in BOOLEAN
      BY Zenon
    <2> QED
      BY <2>1, <2>2, <2>3, <2>4, <2>5, <2>6, Zenon DEF Types
  <1>5. Apart /\ Placed
    BY <1>1, <1>2, ItemFacts DEF Apart, Placed
  <1>6. Counters
    <2>1. Cardinality(UnderWay \ {None}) = 0
      BY <1>2, FS_EmptySet DEF Busy
    <2>2. Item \ sent = Item
      OBVIOUS
    <2>3. Cardinality(Item \ sent) = N
      BY <2>2, ItemFacts, Zenon
    <2> QED
      BY <1>0, <2>1, <2>3 DEF Counters
  <1>7. Judged /\ Recorded /\ InOrder /\ Going
    BY <1>1, <1>2 DEF Judged, Recorded, InOrder, Going, Stopped
  <1> QED
    BY <1>4, <1>5, <1>6, <1>7 DEF QueueInv

LEMMA NextQueue == QueueInv /\ [Next]_vars => QueueInv'
  <1> SUFFICES ASSUME QueueInv, [Next]_vars PROVE QueueInv'
    OBVIOUS
  <1>1. CASE UNCHANGED vars
    BY <1>1, MoveOnSound DEF vars, graph, items, work, locals, pool
  <1>2. CASE Main
    <2>1. CASE Wait
      BY <2>1, MoveOnSound DEF Wait, graph, items, work, locals, pool
    <2>2. CASE Join
      BY <2>2, MoveOnSound DEF Join, graph, items, work, locals, pool
    <2> QED
      BY <1>2, <2>1, <2>2, StartSound, PushTaskSound, FinishSound, HandleBatchSound,
         SubmitSound, PushStopSound DEF Main
  <1>3. ASSUME NEW w \in Worker, WorkerStep(w) PROVE QueueInv'
    <2>1. CASE Pop(w) /\ tasks = <<>>
      <3>1. /\ wpc[w] = "pop" /\ wpc' = [wpc EXCEPT ![w] = "sleep"]
            /\ UNCHANGED <<requires, gone, sent, dirtyDependencies, dirty, outcome,
                           readyQueueItems, processing, remaining, nextItems,
                           itemWithException, cancelled, result, outbox, tasks, job, pc>>
        BY <2>1 DEF Pop, graph, items, work, locals
      <3> QED
        BY <3>1, MoveOnSound
    <2>2. CASE Notify(w)
      <3>1. /\ wpc[w] = "notify" /\ wpc' = [wpc EXCEPT ![w] = "pop"]
            /\ pc' = pc \/ (pc = "sleep" /\ pc' = "loop")
            /\ UNCHANGED <<requires, gone, sent, dirtyDependencies, dirty, outcome,
                           readyQueueItems, processing, remaining, nextItems,
                           itemWithException, cancelled, result, outbox, tasks, job>>
        BY <2>2 DEF Notify, graph, items, work, locals
      <3> QED
        BY <3>1, MoveOnSound
    <2> QED
      BY <1>3, <2>1, <2>2, PopSound, CheckSound, PostSound DEF WorkerStep
  <1>4. CASE Spurious
    <2>1. CASE pc = "sleep" /\ pc' = "loop"
               /\ UNCHANGED <<graph, items, outcome, work, locals, pool, stops>>
      BY <2>1, MoveOnSound DEF graph, items, work, locals, pool
    <2>2. ASSUME NEW w \in Worker, wpc[w] = "sleep", wpc' = [wpc EXCEPT ![w] = "pop"],
                 UNCHANGED <<graph, items, outcome, work, locals, pc, tasks, job, stops>>
          PROVE  QueueInv'
      BY <2>2, MoveOnSound DEF graph, items, work, locals
    <2> QED
      BY <1>4, <2>1, <2>2 DEF Spurious
  <1>5. CASE Ended
    BY <1>1, <1>5 DEF Ended
  <1> QED
    BY <1>1, <1>2, <1>3, <1>4, <1>5 DEF Next

LEMMA QueueAlways == Spec => []QueueInv
  BY InitQueue, NextQueue, PTL DEF Spec

-----------------------------------------------------------------------------
(* What follows.                                                             *)

\* processing and remaining agree with what is under way and not sent, and every
\* item counts the requires that are not recorded (checkQueuedModules).
THEOREM CountersAlways == Spec => []Counters
  <1>1. QueueInv => Counters
    BY DEF QueueInv
  <1> QED
    BY <1>1, QueueAlways, PTL

\* A module is checked after the modules it requires, but for those that require
\* it themselves, for every graph parseGraph can list (checkQueuedModules).
THEOREM DependenciesFirstAlways == Spec => []DependenciesFirst
  <1>1. QueueInv => DependenciesFirst
    <2> SUFFICES ASSUME QueueInv, NEW w \in Worker, wpc[w] = "check"
                 PROVE  \A j \in requires[job[w]] : j \in dirty => Reaches(requires, j, job[w])
      BY DEF DependenciesFirst
    <2>1. job[w] \in Busy
      BY UnderWayIs DEF QueueInv, Placed, Busy, UnderWay
    <2> QED
      BY <2>1 DEF QueueInv, Placed, InOrder
  <1> QED
    BY <1>1, QueueAlways, PTL

\* Once the call has its result no worker has an item in hand or will get one.
THEOREM QuietAtEndAlways == Spec => []QuietAtEnd
  <1>1. QueueInv => QuietAtEnd
    <2> SUFFICES ASSUME QueueInv, result # "none" PROVE UnderWay \subseteq {None}
      BY DEF QuietAtEnd
    <2>1. Cardinality(Busy) = 0 /\ IsFiniteSet(Busy)
      BY UnderWayIs DEF QueueInv, Going, Counters, Busy
    <2>2. Busy = {}
      BY <2>1, FS_EmptySet
    <2> QED
      BY <2>2 DEF Busy
  <1> QED
    BY <1>1, QueueAlways, PTL

\* Modules are returned only if each was checked to its end and recorded.
THEOREM CompleteOrNothingAlways == Spec => []CompleteOrNothing
  <1>1. QueueInv => CompleteOrNothing
    BY DEF QueueInv, Going, Judged, CompleteOrNothing
  <1> QED
    BY <1>1, QueueAlways, PTL

\* No module is checked twice: an outcome is there to stay (the assertion of
\* sendQueueItemTasks).
THEOREM CheckedOnceAlways == Spec => CheckedOnce
  <1>1. QueueInv /\ [Next]_vars
          => [\A i \in Item : outcome[i] # "none" => outcome'[i] = outcome[i]]_vars
    <2> SUFFICES ASSUME QueueInv, Next, NEW i \in Item, outcome[i] # "none"
                 PROVE  outcome'[i] = outcome[i]
      OBVIOUS
    <2>1. ASSUME NEW w \in Worker, Check(w) PROVE outcome'[i] = outcome[i]
      BY <2>1, CheckSound
    <2>2. ASSUME NEW w \in Worker, Pop(w) \/ Post(w) \/ Notify(w) PROVE outcome'[i] = outcome[i]
      BY <2>2 DEF Pop, Post, Notify
    <2>3. CASE Main
      BY <2>3 DEF Main, Start, PushTask, Finish, Wait, HandleBatch, Submit, PushStop, Join
    <2>4. CASE Spurious \/ Ended
      BY <2>4 DEF Spurious, Ended, vars
    <2> QED
      BY <2>1, <2>2, <2>3, <2>4 DEF Next, WorkerStep
  <1> QED
    BY <1>1, QueueAlways, PTL DEF Spec, CheckedOnce
=============================================================================
