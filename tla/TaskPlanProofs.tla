--------------------------- MODULE TaskPlanProofs ---------------------------
(***************************************************************************)
(* TaskPlan, proved.                                                       *)
(*                                                                         *)
(* The sort: what is sorted or queued is so once and behind what it needs, *)
(* and a task whose needs are sorted is sorted or queued.  An order as     *)
(* long as the plan is then all of it, and what a shorter one lacks waits  *)
(* for itself.                                                             *)
(*                                                                         *)
(* The schedule: a task that has its level is above all it needs and one   *)
(* above some of them, so no level is skipped; the batches follow the      *)
(* levels and share no task.  This is what TaskRun assumes of its batches. *)
(*                                                                         *)
(* The files: a task joins a batch only when it fits every task of it, so  *)
(* the tasks of a batch stay pairwise disjoint in their files, for every   *)
(* plan, whatever the sort and the levels did before.                      *)
(*                                                                         *)
(* The runs of one workspace come last.                                    *)
(***************************************************************************)
EXTENDS TaskPlan, FiniteSetTheorems, FunctionTheorems, TLAPS

(* A set of numbers has a least one; a bounded one has a greatest one. *)
LEMMA LeastNumber ==
  ASSUME NEW T \in SUBSET Nat, T # {}
  PROVE  \E m \in T : \A k \in T : m <= k
<1> DEFINE Less == {ss \in Nat \X Nat : ss[1] < ss[2]}
<1>1. IsWellFoundedOn(Less, Nat)
  BY NatLessThanWellFounded DEF OpToRel
<1>2. PICK m \in T : \A y \in T : ~ (<<y, m>> \in Less)
  BY <1>1, WFMin
<1>3. \A y \in T : ~ (y < m)
  BY <1>2
<1> QED
  BY <1>3

LEMMA GreatestNumber ==
  ASSUME NEW n \in Nat, NEW T \in SUBSET (0..n), T # {}
  PROVE  \E m \in T : \A k \in T : k <= m
<1> DEFINE U == {k \in 0..n : n - k \in T}
<1>1. U # {}
  <2>1. PICK k \in T : TRUE
    OBVIOUS
  <2> QED
    BY n - k \in U, n - (n - k) = k, <2>1
<1> U \in SUBSET Nat
  OBVIOUS
<1>2. PICK m \in U : \A k \in U : m <= k
  <2> HIDE DEF U
  <2> QED
    BY <1>1, LeastNumber
<1>3. \A k \in T : n - k \in 0..n /\ n - (n - k) = k
  OBVIOUS
<1>4. \A k \in T : m <= n - k
  BY <1>2, <1>3
<1>5. n - m \in T /\ m \in 0..n
  OBVIOUS
<1> QED
  BY <1>4, <1>5

(* The tasks of a plan are finitely many. *)
LEMMA TasksFinite == IsFiniteSet(Tasks) /\ Cardinality(Tasks) = Len(Listed)
<1>1. Listed \in Bijection(1..Len(Listed), Tasks)
  BY ListedAssumption, Fun_IsBij
<1>2. ExistsBijection(1..Len(Listed), Tasks)
  BY <1>1 DEF ExistsBijection
<1>3. Len(Listed) \in Nat
  BY ListedAssumption
<1> QED
  BY <1>2, <1>3, FS_CountingElements, FS_NatBijection

Sorts(s, S) ==
  /\ s \in [1..Cardinality(S) -> S]
  /\ \A i, j \in DOMAIN s : i < j => Before(s[i], s[j])

(* Every set of tasks can be put in the order of the plan. *)
LEMMA CanBeListed == \A S \in SUBSET Tasks : \E s : Sorts(s, S)
<1> DEFINE Bad == {S \in SUBSET Tasks : \A s : ~ Sorts(s, S)}
<1> SUFFICES ASSUME Bad # {}
             PROVE  FALSE
  OBVIOUS
<1>1. FiniteSubsetsOf(Tasks) = SUBSET Tasks
  BY TasksFinite, FS_FiniteSubsetsOfFinite
<1>2. IsWellFoundedOn(StrictSubsetOrdering(Tasks), SUBSET Tasks)
  BY <1>1, FS_StrictSubsetOrderingWellFounded
<1> HIDE DEF Bad
<1>a. Bad \subseteq SUBSET Tasks
  BY DEF Bad
<1>3. PICK S \in Bad : \A T \in Bad : ~ (<<T, S>> \in StrictSubsetOrdering(Tasks))
  BY <1>2, <1>a, WFMin
<1>4. S \in SUBSET Tasks /\ \A s : ~ Sorts(s, S)
  BY <1>3 DEF Bad
<1>5. IsFiniteSet(S) /\ Cardinality(S) \in Nat
  BY <1>4, TasksFinite, FS_Subset, FS_CardinalityType
<1>6. CASE S = {}
  <2>1. Cardinality(S) = 0
    BY <1>6, FS_EmptySet
  <2>2. Sorts([i \in 1..0 |-> 0], S)
    BY <2>1 DEF Sorts
  <2> QED
    BY <2>2, <1>4
<1>7. CASE S # {}
  <2> DEFINE P == {i \in 1..Len(Listed) : Listed[i] \in S}
  <2>1. P # {} /\ Len(Listed) \in Nat /\ P \in SUBSET (0..Len(Listed))
    BY <1>4, <1>7, ListedAssumption
  <2>2. PICK m \in P : \A k \in P : k <= m
    BY <2>1, GreatestNumber
  <2> DEFINE last == Listed[m]
             T == S \ {last}
  <2>3. last \in S /\ last \in Tasks
    BY <1>4
  <2>4. T \notin Bad
    <3>1. <<T, S>> \in StrictSubsetOrdering(Tasks)
      BY <1>4, <2>3 DEF StrictSubsetOrdering
    <3> QED
      BY <3>1, <1>3
  <2> T \in SUBSET Tasks
    BY <1>4
  <2> HIDE DEF T
  <2>5. PICK r : Sorts(r, T)
    BY <2>4 DEF Bad
  <2> USE DEF T
  <2>6. Cardinality(T) = Cardinality(S) - 1
    BY <1>5, <2>3, FS_RemoveElement
  <2> DEFINE n == Cardinality(S)
             s == [i \in 1..n |-> IF i = n THEN last ELSE r[i]]
  <2>6a. n \in Nat \ {0} /\ r \in [1..n - 1 -> T]
    BY <1>5, <1>7, <2>5, <2>6, FS_EmptySet DEF Sorts
  <2>6b. \A i, j \in 1..n - 1 : i < j => Before(r[i], r[j])
    BY <2>5, <2>6a DEF Sorts
  <2> HIDE DEF n
  <2>7. s \in [1..n -> S]
    BY <2>3, <2>6a
  <2>8. \A t \in T : Before(t, last)
    <3> SUFFICES ASSUME NEW t \in T
                 PROVE  Before(t, last)
      OBVIOUS
    <3>1. PICK i \in DOMAIN Listed : Listed[i] = t
      BY <1>4, ListedAssumption
    <3>2. i \in P /\ i # m
      BY <3>1, ListedAssumption
    <3> QED
      BY <3>1, <3>2, <2>2, ListedAssumption DEF Before
  <2>9. ASSUME NEW i \in 1..n, NEW j \in 1..n, i < j
        PROVE  Before(s[i], s[j])
    <3>1. i # n /\ i \in 1..n - 1 /\ s[i] = r[i] /\ r[i] \in T
      BY <2>9, <2>6a
    <3>2. CASE j = n
      BY <3>1, <3>2, <2>8
    <3>3. CASE j # n
      BY <3>1, <3>3, <2>9, <2>6a, <2>6b
    <3> QED
      BY <3>2, <3>3
  <2>10. Sorts(s, S)
    BY <2>7, <2>9 DEF Sorts, n
  <2> QED
    BY <2>10, <1>4
<1> QED
  BY <1>6, <1>7

(* AsListed lists every task of the set once. *)
LEMMA ListsOnce ==
  ASSUME NEW S \in SUBSET Tasks
  PROVE  /\ AsListed(S) \in Seq(S)
         /\ \A i, j \in DOMAIN AsListed(S) : AsListed(S)[i] = AsListed(S)[j] => i = j
         /\ \A t \in S : \E i \in DOMAIN AsListed(S) : AsListed(S)[i] = t
<1> DEFINE s == AsListed(S)
           n == Cardinality(S)
<1>0. IsFiniteSet(S) /\ n \in Nat
  BY TasksFinite, FS_Subset, FS_CardinalityType
<1>1. Sorts(s, S)
  <2>1. PICK r : Sorts(r, S)
    BY CanBeListed
  <2> QED
    BY <2>1 DEF AsListed, Sorts
<1> HIDE DEF s
<1>2. s \in Seq(S)
  BY <1>0, <1>1 DEF Sorts
<1>3. \A t : ~ Before(t, t)
  BY ListedAssumption DEF Before
<1>4. \A i, j \in 1..n : s[i] = s[j] => i = j
  BY <1>0, <1>1, <1>3 DEF Sorts
<1>5. s \in Injection(1..n, S)
  BY <1>1, <1>4, Fun_IsInj DEF Sorts
<1>6. IsFiniteSet(1..n) /\ Cardinality(1..n) = n
  BY <1>0, FS_Interval
<1>7. s \in Surjection(1..n, S)
  BY <1>0, <1>5, <1>6, FS_Injection
<1>8. \A t \in S : \E i \in 1..n : s[i] = t
  BY <1>7 DEF Surjection
<1>9. DOMAIN s = 1..n
  BY <1>1 DEF Sorts
<1> QED
  BY <1>2, <1>4, <1>8, <1>9 DEF s

-----------------------------------------------------------------------------
(* The sort: what is sorted or queued is so once, behind what it needs. *)
Once(s) == \A i, j \in DOMAIN s : s[i] = s[j] => i = j

SortType == order \in Seq(Tasks) /\ queue \in Seq(Tasks)

QueuedReady ==
  \A i \in DOMAIN queue : queue[i] \notin Range(order) /\ Needs(queue[i]) \subseteq Range(order)

ReadyQueued ==
  \A t \in Tasks : Needs(t) \subseteq Range(order) => t \in Range(order) \cup Range(queue)

SortInv ==
  /\ SortType /\ Once(order) /\ Once(queue)
  /\ QueuedReady /\ DependenciesSortedFirst
  /\ stage \in Unsorted => order = <<>> /\ queue = <<>>
  /\ stage \in {"sort", "refused"} => ReadyQueued
  /\ stage = "refused" => queue = <<>> /\ Cycle
  /\ stage \in {"checkpoint"} \cup Sorted => queue = <<>> /\ ~ Cycle

(* The task at the head of the queue is sorted, and what waited for it     *)
(* alone is queued.                                                        *)
LEMMA SortOneKeeps ==
  ASSUME SortInv, SortOne
  PROVE  SortInv'
<1> USE DEF SortInv, SortType, Once
<1> DEFINE tid == Head(queue)
           N == {t \in Tasks : Ready(t, Range(order'), tid)}
           new == AsListed(N)
<1>1. /\ stage = "sort" /\ stage' = "sort" /\ queue # <<>> /\ plan' = plan
      /\ order' = Append(order, tid) /\ queue' = Tail(queue) \o new
  BY DEF SortOne, generation
<1>2. /\ new \in Seq(N)
      /\ \A i, j \in DOMAIN new : new[i] = new[j] => i = j
      /\ \A t \in N : \E i \in DOMAIN new : new[i] = t
  <2>1. N \in SUBSET Tasks
    OBVIOUS
  <2> HIDE DEF N
  <2> QED
    BY <2>1, ListsOnce
<1>3. new \in Seq(Tasks)
  BY <1>2
<1> HIDE DEF new
<1>4. /\ tid \in Tasks /\ tid = queue[1] /\ 1 \in DOMAIN queue
      /\ tid \notin Range(order) /\ Needs(tid) \subseteq Range(order)
  BY <1>1 DEF QueuedReady
<1>5. order' \in Seq(Tasks) /\ Len(order') = Len(order) + 1
  BY <1>1, <1>4
<1>6. /\ \A i \in 1..Len(order) : order'[i] = order[i]
      /\ order'[Len(order) + 1] = tid
  BY <1>1, <1>4
<1>7. Range(order') = Range(order) \cup {tid}
  BY SMTT(30), <1>5, <1>6 DEF Range
<1>8. Once(order)'
  BY <1>4, <1>5, <1>6 DEF Range
<1>9. \A t : Needs(t)' = Needs(t)
  BY <1>1 DEF Needs
<1>10. DependenciesSortedFirst'
  <2> SUFFICES ASSUME NEW i \in 1..Len(order) + 1, NEW d \in Needs(order'[i])
               PROVE  \E j \in 1..i - 1 : order'[j] = d
    BY <1>5, <1>9 DEF DependenciesSortedFirst
  <2>1. CASE i \in 1..Len(order)
    <3>1. PICK j \in 1..i - 1 : order[j] = d
      BY <2>1, <1>6 DEF DependenciesSortedFirst
    <3> QED
      BY <3>1, <2>1, <1>6
  <2>2. CASE i = Len(order) + 1
    <3>1. PICK j \in 1..Len(order) : order[j] = d
      BY <2>2, <1>4, <1>6 DEF Range
    <3> QED
      BY <3>1, <2>2, <1>6
  <2> QED
    BY <2>1, <2>2
<1>11. \A t \in N : /\ t \in Tasks /\ tid \in Needs(t) /\ Needs(t) \subseteq Range(order')
                    /\ t \notin Range(order')
  <2> SUFFICES ASSUME NEW t \in N
               PROVE  t \notin Range(order')
    BY DEF Ready
  <2>1. tid \in Needs(t)
    BY DEF Ready
  <2>2. t # tid
    BY <2>1, <1>4
  <2>3. t \notin Range(order)
    BY <2>1, <1>4 DEF DependenciesSortedFirst, Range
  <2> QED
    BY <2>2, <2>3, <1>7
<1> HIDE DEF N
<1>12. /\ Tail(queue) \in Seq(Tasks) /\ Len(Tail(queue)) = Len(queue) - 1
       /\ \A i \in 1..Len(queue) - 1 : Tail(queue)[i] = queue[i + 1]
  BY <1>1
<1> DEFINE q == Tail(queue)
<1>13. \A i \in DOMAIN q : /\ q[i] \in Tasks /\ q[i] \notin Range(order')
                           /\ Needs(q[i]) \subseteq Range(order')
                           /\ tid \notin Needs(q[i])
  BY <1>4, <1>7, <1>12 DEF QueuedReady
<1>14. Once(q)
  BY <1>12
<1> HIDE DEF q
<1>15. /\ queue' \in Seq(Tasks) /\ Len(queue') = Len(q) + Len(new)
       /\ \A i \in 1..Len(q) : queue'[i] = q[i]
       /\ \A i \in 1..Len(new) : queue'[Len(q) + i] = new[i]
       /\ \A i \in 1..Len(queue') : i <= Len(q) \/ i - Len(q) \in 1..Len(new)
  BY <1>1, <1>3, <1>12 DEF q
<1>16. \A i \in DOMAIN queue' :
         \/ i \in DOMAIN q /\ queue'[i] = q[i]
         \/ i - Len(q) \in DOMAIN new /\ queue'[i] = new[i - Len(q)]
  <2>1. /\ Len(q) \in Nat /\ DOMAIN q = 1..Len(q)
        /\ Len(new) \in Nat /\ DOMAIN new = 1..Len(new)
        /\ DOMAIN queue' = 1..Len(queue')
    BY <1>15, <1>3, <1>12 DEF q
  <2> SUFFICES ASSUME NEW i \in 1..Len(queue'), ~ (i <= Len(q))
               PROVE  i - Len(q) \in 1..Len(new) /\ queue'[i] = new[i - Len(q)]
    BY <2>1, <1>15
  <2>2. i - Len(q) \in 1..Len(new)
    BY <1>15
  <2>3. queue'[Len(q) + (i - Len(q))] = new[i - Len(q)]
    BY <2>2, <1>15
  <2> QED
    BY <2>1, <2>2, <2>3
<1>17. \A i \in DOMAIN new : new[i] \in N
  BY <1>2
<1>18. QueuedReady'
  BY <1>9, <1>11, <1>13, <1>16, <1>17 DEF QueuedReady
<1>19. Once(queue)'
  <2> SUFFICES ASSUME NEW i \in DOMAIN queue', NEW j \in DOMAIN queue', queue'[i] = queue'[j]
               PROVE  i = j
    OBVIOUS
  <2>1. Len(q) \in Nat /\ i \in Int /\ j \in Int
    BY <1>12, <1>15 DEF q
  <2>2. CASE i \in DOMAIN q /\ queue'[i] = q[i] /\ j \in DOMAIN q /\ queue'[j] = q[j]
    BY <2>2, <1>14
  <2>3. CASE /\ i - Len(q) \in DOMAIN new /\ queue'[i] = new[i - Len(q)]
             /\ j - Len(q) \in DOMAIN new /\ queue'[j] = new[j - Len(q)]
    <3>1. i - Len(q) = j - Len(q)
      BY <2>3, <1>2
    <3> QED
      BY <3>1, <2>1
  <2>4. \A k \in DOMAIN q, l \in DOMAIN new : q[k] # new[l]
    BY <1>11, <1>13, <1>17
  <2> QED
    BY <2>2, <2>3, <2>4, <1>16
<1>20. ReadyQueued'
  <2> SUFFICES ASSUME NEW t \in Tasks, Needs(t) \subseteq Range(order'), t \notin Range(order')
               PROVE  \E i \in DOMAIN queue' : queue'[i] = t
    BY <1>9 DEF ReadyQueued, Range
  <2>1. CASE tid \in Needs(t)
    <3>1. t \in N
      BY <2>1 DEF N, Ready
    <3>2. PICK i \in DOMAIN new : new[i] = t
      BY <3>1, <1>2
    <3>3. Len(q) + i \in DOMAIN queue' /\ queue'[Len(q) + i] = t
      BY <3>2, <1>3, <1>15, <1>12 DEF q
    <3> QED
      BY <3>3
  <2>2. CASE tid \notin Needs(t)
    <3>0. Needs(t) \subseteq Range(order) /\ t \notin Range(order)
      BY <2>2, <1>7
    <3>1. PICK i \in DOMAIN queue : queue[i] = t
      BY <3>0, <1>1 DEF ReadyQueued, Range
    <3>2. i # 1
      BY <3>1, <1>4, <1>7
    <3>3. i - 1 \in DOMAIN q /\ q[i - 1] = t
      BY <3>1, <3>2, <1>12 DEF q
    <3>4. i - 1 \in DOMAIN queue' /\ queue'[i - 1] = t
      BY <3>3, <1>12, <1>15, <1>3 DEF q
    <3> QED
      BY <3>4
  <2> QED
    BY <2>1, <2>2
<1>21. SortType'
  BY <1>5, <1>15
<1> QED
  BY <1>1, <1>8, <1>10, <1>18, <1>19, <1>20, <1>21 DEF Unsorted, Generating, Sorted

(* A step of the generation keeps the plan, or is before the sort. *)
LEMMA PlanKept ==
  ASSUME GenerationNext, stage' # "idle"
  PROVE  /\ stage = "checkpoint" => plan' = plan /\ stage' = "level"
         /\ stage # "checkpoint" => stage \in Unsorted /\ stage' \in Unsorted
<1> USE DEF Goto, Idle, Unsorted, Generating
<1>1. CASE CommandLine \/ Attempt
  BY <1>1 DEF CommandLine, Attempt, Begin
<1>2. CASE TakeCached \/ Analyse \/ ApiSpec \/ DbModels \/ MakePlan
  BY <1>2 DEF TakeCached, Analyse, ApiSpec, DbModels, MakePlan
<1>3. CASE Scaffold \/ ResolveFiles \/ RepairPlan \/ AcceptanceTests
  BY <1>3 DEF Scaffold, ResolveFiles, RepairPlan, AcceptanceTests
<1>4. CASE LoadCheckpoint
  BY <1>4 DEF LoadCheckpoint
<1>5. CASE PromptUnbound \/ Stops \/ StopsInTests \/ TornCache \/ TornCheckpoint
  BY <1>5 DEF PromptUnbound, Stops, StopsInTests, TornCache, TornCheckpoint
<1> QED
  BY <1>1, <1>2, <1>3, <1>4, <1>5 DEF GenerationNext

LEMMA SortBeginsKeeps ==
  ASSUME SortInv, SortBegins
  PROVE  SortInv'
<1> USE DEF SortInv, SortType, Once
<1> DEFINE N == {t \in Tasks : Needs(t) = {}}
<1>1. /\ stage \in Unsorted /\ stage' = "sort" /\ plan' = plan
      /\ order = <<>> /\ order' = <<>> /\ queue' = AsListed(N)
  BY DEF SortBegins, generation, Goto, Unsorted, Generating
<1>2. N \in SUBSET Tasks
  OBVIOUS
<1> HIDE DEF N
<1>3. /\ queue' \in Seq(N)
      /\ \A i, j \in DOMAIN queue' : queue'[i] = queue'[j] => i = j
      /\ \A t \in N : \E i \in DOMAIN queue' : queue'[i] = t
  BY <1>1, <1>2, ListsOnce
<1>4. \A t : Needs(t)' = Needs(t)
  BY <1>1 DEF Needs
<1>5. Range(order') = {}
  BY <1>1 DEF Range
<1>6. \A i \in DOMAIN queue' : queue'[i] \in N
  BY <1>3
<1>7. QueuedReady' /\ queue' \in Seq(Tasks)
  BY <1>2, <1>3, <1>4, <1>5, <1>6 DEF QueuedReady, N
<1>8. ReadyQueued'
  BY <1>3, <1>4, <1>5 DEF ReadyQueued, N, Range
<1> QED
  BY <1>1, <1>3, <1>7, <1>8 DEF DependenciesSortedFirst, Unsorted, Generating, Sorted

(* No step but those of the sort itself touches what was sorted, except    *)
(* that the end of a run clears it.                                        *)
LEMMA SortKept ==
  ASSUME SortInv, UNCHANGED sorting,
         \/ stage \in Unsorted /\ stage' \in Unsorted
         \/ /\ plan' = plan
            /\ \/ stage' = stage
               \/ stage = "sort" /\ queue = <<>> /\ stage' = IF Cycle THEN "refused" ELSE "checkpoint"
               \/ stage \in {"checkpoint"} \cup Sorted /\ stage' \in Sorted
  PROVE  SortInv'
<1> USE DEF SortInv, SortType, Once
<1>1. order' = order /\ queue' = queue
  BY DEF sorting
<1> USE DEF Unsorted, Generating, Sorted
<1>2. CASE plan' = plan
  <2>1. \A t : Needs(t)' = Needs(t)
    BY <1>2 DEF Needs
  <2>2. QueuedReady' /\ DependenciesSortedFirst' /\ (ReadyQueued => ReadyQueued')
    BY <1>1, <2>1 DEF QueuedReady, DependenciesSortedFirst, ReadyQueued
  <2>3. Cycle' = Cycle
    BY <1>1 DEF Cycle
  <2> QED
    BY <1>1, <2>2, <2>3
<1>3. CASE stage \in Unsorted /\ stage' \in Unsorted
  <2>1. QueuedReady' /\ DependenciesSortedFirst'
    BY <1>1, <1>3 DEF QueuedReady, DependenciesSortedFirst
  <2> QED
    BY <1>1, <1>3, <2>1
<1> QED
  BY <1>2, <1>3

(* A run that is over leaves nothing sorted. *)
LEMMA SortCleared ==
  ASSUME Cleared, stage' = "idle"
  PROVE  SortInv'
BY DEF Cleared, SortInv, SortType, Once, QueuedReady, DependenciesSortedFirst, Unsorted,
       Generating, Sorted

LEMMA SortNext == SortInv /\ [Next]_vars => SortInv'
<1> SUFFICES ASSUME SortInv, [Next]_vars
             PROVE  SortInv'
  OBVIOUS
<1>1. CASE Generate
  <2>1. CASE stage' = "idle" /\ Cleared
    BY <2>1, SortCleared
  <2>2. CASE stage' # "idle" /\ UNCHANGED <<sorting, levels, batching, chunking>>
    BY <1>1, <2>2, PlanKept, SortKept DEF Generate, Sorted, Unsorted, Generating
  <2> QED
    BY <1>1, <2>1, <2>2 DEF Generate
<1>2. CASE SortBegins
  BY <1>2, SortBeginsKeeps
<1>3. CASE SortOne
  BY <1>3, SortOneKeeps
<1>4. CASE SortEnds
  BY <1>4, SortKept DEF SortEnds, generation
<1>5. CASE Refuses \/ RunTasks
  BY <1>5, SortCleared DEF Refuses, RunTasks, Idle
<1>6. CASE LevelOne \/ LevelsEnd
  BY <1>6, SortKept DEF LevelOne, LevelsEnd, generation, Sorted
<1>7. CASE BatchOne \/ BatchesEnd
  BY <1>7, SortKept DEF BatchOne, BatchesEnd, generation, Sorted
<1>8. CASE ChunkBegins \/ ChunkOne \/ ChunksEnd
  BY <1>8, SortKept DEF ChunkBegins, ChunkOne, ChunksEnd, generation, Sorted
<1>9. CASE Done \/ UNCHANGED vars
  BY <1>9, SortKept DEF Done, vars, generation
<1> QED
  BY <1>1, <1>2, <1>3, <1>4, <1>5, <1>6, <1>7, <1>8, <1>9 DEF Next

LEMMA SortInit == Init => SortInv
BY DEF Init, GenerationInit, SortInv, SortType, Once, QueuedReady, DependenciesSortedFirst,
       Unsorted, Generating, Sorted

(* As many places as tasks, each with another task: all tasks are sorted. *)
LEMMA AllSorted ==
  ASSUME SortInv
  PROVE  /\ Cycle => Range(order) # Tasks
         /\ ~ Cycle => Range(order) = Tasks /\ Len(order) = Len(Listed)
<1>1. Len(order) \in Nat /\ order \in [1..Len(order) -> Tasks] /\ DOMAIN order = 1..Len(order)
  BY DEF SortInv, SortType
<1>2. order \in Injection(1..Len(order), Tasks)
  BY <1>1, Fun_IsInj DEF SortInv, Once
<1>3. Cardinality(1..Len(order)) = Len(order)
  BY SMTT(30), <1>1, FS_Interval
<1>4. /\ Len(order) <= Len(Listed)
      /\ Len(order) = Len(Listed) <=> order \in Surjection(1..Len(order), Tasks)
  BY <1>2, <1>3, TasksFinite, FS_Injection
<1>5. order \in Surjection(1..Len(order), Tasks) <=> Range(order) = Tasks
  BY <1>1 DEF Surjection, Range
<1> QED
  BY <1>1, <1>4, <1>5, ListedAssumption DEF Cycle

(* The sort is sound: see RefusedIfCyclic. *)
LEMMA SortSound == SortInv => RefusedIfCyclic
<1> SUFFICES ASSUME SortInv
             PROVE  RefusedIfCyclic
  OBVIOUS
<1>1. ASSUME stage = "refused"
      PROVE  \E C \in SUBSET Tasks : Deadlocked(C)
  <2> DEFINE C == Tasks \ Range(order)
  <2>1. C # {}
    BY <1>1, AllSorted DEF SortInv, SortType, Range
  <2>2. \A t \in C : Needs(t) \cap C # {}
    BY <1>1 DEF SortInv, ReadyQueued, Needs, Range
  <2> QED
    BY <2>1, <2>2 DEF Deadlocked
<1>2. ASSUME stage \in Sorted, NEW C \in SUBSET Tasks, Deadlocked(C)
      PROVE  FALSE
  <2>1. Range(order) = Tasks /\ DOMAIN order \in SUBSET Nat
    BY <1>2, AllSorted DEF SortInv, SortType
  <2> DEFINE P == {i \in DOMAIN order : order[i] \in C}
  <2>2. P \in SUBSET Nat /\ P # {}
    BY <2>1, <1>2 DEF Deadlocked, Range
  <2>3. PICK m \in P : \A k \in P : m <= k
    <3> HIDE DEF P
    <3> QED
      BY <2>2, LeastNumber
  <2>4. PICK d \in Needs(order[m]) : d \in C
    BY <2>3, <1>2 DEF Deadlocked
  <2>5. PICK j \in 1..m - 1 : order[j] = d
    BY <2>3, <2>4 DEF SortInv, DependenciesSortedFirst
  <2>6. j \in P /\ j < m
    BY <2>1, <2>3, <2>4, <2>5 DEF SortInv, SortType
  <2> QED
    BY <2>2, <2>3, <2>6
<1> QED
  BY <1>1, <1>2, AllSorted DEF RefusedIfCyclic, SortInv

THEOREM CyclesRefused == Spec => [](RefusedIfCyclic /\ DependenciesSortedFirst)
<1>1. SortInv => RefusedIfCyclic /\ DependenciesSortedFirst
  BY SortSound DEF SortInv
<1> QED
  BY <1>1, SortInit, SortNext, PTL DEF Spec

-----------------------------------------------------------------------------
(* The levels: a task that has its level is one above its dependencies.    *)
Levelled == Sorted \ {"level"}

LevelInv ==
  /\ level \in [Tasks -> Nat] /\ levelled \in 0..Len(order)
  /\ \A i \in 1..levelled : OneAbove(order[i], level[order[i]])
  /\ stage \notin Sorted => levelled = 0
  /\ stage \in Levelled => levelled = Len(order)

LEMMA LevelOneKeeps ==
  ASSUME SortInv, LevelInv, LevelOne
  PROVE  LevelInv'
<1> USE DEF LevelInv, SortInv, SortType, Once
<1> DEFINE t == order[levelled + 1]
<1>1. /\ stage = "level" /\ stage' = "level" /\ plan' = plan /\ order' = order
      /\ levelled' = levelled + 1 /\ levelled + 1 \in DOMAIN order
  BY DEF LevelOne, generation, sorting
<1>2. PICK n \in 0..Len(order) : OneAbove(t, n) /\ level' = [level EXCEPT ![t] = n]
  BY DEF LevelOne
<1>3. t \in Tasks /\ n \in Nat
  BY <1>1
<1>4. \A u : Needs(u)' = Needs(u)
  BY <1>1 DEF Needs
<1>5. level' \in [Tasks -> Nat] /\ level'[t] = n /\ \A u \in Tasks \ {t} : level'[u] = level[u]
  BY <1>2, <1>3
<1>6. ASSUME NEW i \in 1..levelled + 1
      PROVE  \A d \in Needs(order[i]) : d # t /\ d \in Tasks
  <2>1. \A j \in 1..i - 1 : j \in DOMAIN order /\ order[j] # t
    BY <1>1
  <2>2. i \in DOMAIN order
    BY <1>1
  <2>3. \A d \in Needs(order[i]) : \E j \in 1..i - 1 : order[j] = d
    BY <2>2 DEF DependenciesSortedFirst
  <2> QED
    BY SMTT(30), <2>1, <2>3
<1>7. ASSUME NEW i \in 1..levelled + 1
      PROVE  OneAbove(order[i], level[order[i]])'
  <2>1. CASE i = levelled + 1
    BY <2>1, <1>1, <1>2, <1>4, <1>5, <1>6 DEF OneAbove
  <2>2. CASE i \in 1..levelled
    <3>1. OneAbove(order[i], level[order[i]])
      BY <2>2
    <3>2. order[i] # t /\ order[i] \in Tasks
      BY <2>2, <1>1
    <3> QED
      BY <3>1, <3>2, <1>1, <1>4, <1>5, <1>6 DEF OneAbove
  <2> QED
    BY <2>1, <2>2
<1> QED
  BY <1>1, <1>5, <1>7 DEF Sorted, Levelled

(* The other steps of a schedule keep the levels. *)
LEMMA LevelKept ==
  ASSUME LevelInv, UNCHANGED <<sorting, levels>>, plan' = plan,
         \/ stage' \in Levelled => stage \in Levelled \/ levelled = Len(order),
         stage' \in Sorted
  PROVE  LevelInv'
<1>1. order' = order /\ level' = level /\ levelled' = levelled
  BY DEF sorting, levels
<1>2. \A u, n : OneAbove(u, n)' = OneAbove(u, n)
  BY <1>1 DEF OneAbove, Needs
<1> QED
  BY <1>1, <1>2 DEF LevelInv

(* Before the levels no task has one. *)
LEMMA NotLevelled ==
  ASSUME SortInv', level' \in [Tasks -> Nat], levelled' = 0, stage' \notin Levelled
  PROVE  LevelInv'
BY DEF LevelInv, SortInv, SortType

LEMMA LevelNext == SortInv /\ LevelInv /\ [Next]_vars => LevelInv'
<1> SUFFICES ASSUME SortInv, LevelInv, [Next]_vars
             PROVE  LevelInv'
  OBVIOUS
<1>0. SortInv'
  BY SortNext
<1>1. CASE Generate
  <2>1. CASE stage' = "idle" /\ Cleared
    BY <1>0, <2>1, NotLevelled DEF Cleared, Levelled, Sorted
  <2>2. CASE stage' # "idle" /\ UNCHANGED <<sorting, levels, batching, chunking>>
    <3>1. stage \notin Sorted /\ stage' \notin Levelled
      BY <1>1, <2>2, PlanKept DEF Generate, Sorted, Unsorted, Generating, Levelled
    <3> QED
      BY <1>0, <2>2, <3>1, NotLevelled DEF LevelInv, levels
  <2> QED
    BY <1>1, <2>1, <2>2 DEF Generate
<1>2. CASE SortBegins \/ SortOne \/ SortEnds
  BY <1>0, <1>2, NotLevelled DEF SortBegins, SortOne, SortEnds, Goto, LevelInv, levels, Levelled, Sorted
<1>3. CASE Refuses \/ RunTasks
  BY <1>0, <1>3, NotLevelled DEF Refuses, RunTasks, Idle, Cleared, Levelled, Sorted
<1>4. CASE LevelOne
  BY <1>4, LevelOneKeeps
<1>5. CASE LevelsEnd
  BY <1>5, LevelKept DEF LevelsEnd, generation, Levelled, Sorted
<1>6. CASE BatchOne \/ BatchesEnd
  BY <1>6, LevelKept DEF BatchOne, BatchesEnd, generation, Levelled, Sorted
<1>7. CASE ChunkBegins \/ ChunkOne \/ ChunksEnd
  BY <1>7, LevelKept DEF ChunkBegins, ChunkOne, ChunksEnd, generation, Levelled, Sorted
<1>8. CASE Done \/ UNCHANGED vars
  <2>1. /\ order' = order /\ level' = level /\ levelled' = levelled
        /\ plan' = plan /\ stage' = stage
    BY <1>8 DEF Done, vars, generation, sorting, levels
  <2>2. \A u, n : OneAbove(u, n)' = OneAbove(u, n)
    BY <2>1 DEF OneAbove, Needs
  <2> QED
    BY <2>1, <2>2 DEF LevelInv
<1> QED
  BY <1>1, <1>2, <1>3, <1>4, <1>5, <1>6, <1>7, <1>8 DEF Next

LEMMA LevelInit == Init => LevelInv
BY DEF Init, GenerationInit, LevelInv, Levelled, Sorted

(* When every task has its level, each is above what it needs, and a task  *)
(* of a level above zero needs one of the level below.                     *)
LEMMA LevelSound ==
  ASSUME SortInv, LevelInv, stage \in Levelled, NEW t \in Tasks
  PROVE  /\ \A d \in Needs(t) : level[d] < level[t]
         /\ level[t] = 0 \/ \E d \in Needs(t) : level[d] + 1 = level[t]
<1>1. Range(order) = Tasks /\ levelled = Len(order)
  BY AllSorted DEF SortInv, LevelInv, Levelled
<1>2. PICK i \in 1..Len(order) : order[i] = t
  BY <1>1 DEF SortInv, SortType, Range
<1> QED
  BY <1>1, <1>2 DEF LevelInv, OneAbove

-----------------------------------------------------------------------------
(* The batches: those of the levels below `now` hold the tasks of these    *)
(* levels, in the order of the levels, and no task twice.                  *)
Disjoint(s) == \A i, j \in DOMAIN s : i # j => s[i] \cap s[j] = {}

Batched == {"batch", "chunk", "chunks"}

LotType ==
  /\ now \in Nat /\ rest \subseteq Tasks
  /\ lots \in Seq(SUBSET Tasks) /\ batches \in Seq(SUBSET Tasks)

BelowAreBatched ==
  /\ \A i \in DOMAIN batches : \A t \in batches[i] : level[t] < now
  /\ \A t \in Tasks : level[t] < now => \E i \in DOMAIN batches : t \in batches[i]

ByLevel ==
  \A i, j \in DOMAIN batches : \A t \in batches[i], u \in batches[j] :
    i <= j => level[t] <= level[u]

(* The tasks of the level at hand are in one of its batches or to be placed. *)
LevelInHand ==
  /\ rest \subseteq LevelTasks(now)
  /\ \A i \in DOMAIN lots : lots[i] \subseteq LevelTasks(now) \ rest
  /\ \A t \in LevelTasks(now) \ rest : \E i \in DOMAIN lots : t \in lots[i]

BatchInv ==
  /\ LotType /\ BelowAreBatched /\ ByLevel /\ Disjoint(batches) /\ Disjoint(lots)
  /\ stage = "batch" => LevelInHand
  /\ stage \in {"chunk", "chunks"} => LevelTasks(now) = {}
  /\ stage \notin Batched => now = 0 /\ lots = <<>> /\ batches = <<>>

LEMMA BatchOnePlaces ==
  ASSUME LevelInv, BatchInv, BatchOne
  PROVE  BatchInv'
<1> USE DEF BatchInv, LotType
<1>1. /\ stage = "batch" /\ stage' = "batch" /\ level' = level /\ now' = now
      /\ batches' = batches
  BY DEF BatchOne, levels
<1>2. BelowAreBatched' /\ ByLevel' /\ Disjoint(batches')
  BY <1>1 DEF BelowAreBatched, ByLevel, Disjoint
<1>3. PICK t \in rest :
        /\ rest' = rest \ {t}
        /\ \/ \E i \in DOMAIN lots : lots' = [lots EXCEPT ![i] = @ \cup {t}]
           \/ lots' = Append(lots, {t})
  BY DEF BatchOne
<1>4. t \in LevelTasks(now) /\ t \in Tasks /\ \A i \in DOMAIN lots : t \notin lots[i]
  BY <1>1 DEF LevelInHand
<1>5. LevelTasks(now)' = LevelTasks(now)
  BY <1>1 DEF LevelTasks
<1>6. CASE lots' = Append(lots, {t})
  <2>1. /\ lots' \in Seq(SUBSET Tasks) /\ Len(lots') = Len(lots) + 1
        /\ \A i \in 1..Len(lots) : lots'[i] = lots[i]
        /\ lots'[Len(lots) + 1] = {t}
    BY <1>4, <1>6
  <2>2. Disjoint(lots')
    BY <1>4, <2>1 DEF Disjoint
  <2>3. LevelInHand'
    BY <1>1, <1>3, <1>4, <1>5, <2>1 DEF LevelInHand
  <2> QED
    BY <1>1, <1>2, <1>3, <2>1, <2>2, <2>3 DEF Batched
<1>7. ASSUME NEW k \in DOMAIN lots, lots' = [lots EXCEPT ![k] = @ \cup {t}]
      PROVE  BatchInv'
  <2>1. /\ lots' \in Seq(SUBSET Tasks) /\ DOMAIN lots' = DOMAIN lots
        /\ lots'[k] = lots[k] \cup {t}
        /\ \A i \in DOMAIN lots \ {k} : lots'[i] = lots[i]
    BY <1>4, <1>7
  <2>2. Disjoint(lots')
    BY <1>4, <2>1 DEF Disjoint
  <2>3. LevelInHand'
    BY <1>1, <1>3, <1>4, <1>5, <2>1 DEF LevelInHand
  <2> QED
    BY <1>1, <1>2, <1>3, <2>1, <2>2, <2>3 DEF Batched
<1> QED
  BY <1>3, <1>6, <1>7

(* The level is placed: its batches come behind those of the lower levels. *)
LEMMA BatchesEndPlaces ==
  ASSUME LevelInv, BatchInv, BatchesEnd
  PROVE  BatchInv'
<1> USE DEF BatchInv, LotType
<1>1. /\ stage = "batch" /\ rest = {} /\ level' = level /\ now' = now + 1
      /\ batches' = batches \o lots /\ lots' = <<>> /\ rest' = LevelTasks(now + 1)
      /\ stage' = IF rest' = {} THEN "chunk" ELSE "batch"
  BY DEF BatchesEnd, levels
<1>2. /\ batches' \in Seq(SUBSET Tasks)
      /\ \A i \in DOMAIN batches' :
           \/ i \in DOMAIN batches /\ batches'[i] = batches[i]
           \/ /\ i - Len(batches) \in DOMAIN lots /\ i \notin DOMAIN batches
              /\ batches'[i] = lots[i - Len(batches)]
      /\ \A i \in DOMAIN batches : i \in DOMAIN batches' /\ batches'[i] = batches[i]
      /\ \A i \in DOMAIN lots : /\ Len(batches) + i \in DOMAIN batches'
                                /\ batches'[Len(batches) + i] = lots[i]
  BY <1>1
<1>3. \A i \in DOMAIN lots : \A t \in lots[i] : t \in Tasks /\ level[t] = now
  BY <1>1 DEF LevelInHand, LevelTasks
<1>4. \A t \in Tasks : level[t] \in Nat
  BY DEF LevelInv
<1>5. \A i \in DOMAIN batches : \A t \in batches[i] : t \in Tasks /\ level[t] < now
  BY DEF BelowAreBatched
<1>6. BelowAreBatched'
  <2>1. ASSUME NEW t \in Tasks, level[t] < now + 1
        PROVE  \E i \in DOMAIN batches' : t \in batches'[i]
    <3>1. CASE level[t] < now
      BY <3>1, <1>2 DEF BelowAreBatched
    <3>2. CASE level[t] = now
      <4>1. PICK i \in DOMAIN lots : t \in lots[i]
        BY <3>2, <1>1 DEF LevelInHand, LevelTasks
      <4> QED
        BY <4>1, <1>2
    <3> QED
      BY <3>1, <3>2, <2>1, <1>4
  <2>2. \A i \in DOMAIN batches' : \A t \in batches'[i] : level[t] < now + 1
    BY <1>2, <1>3, <1>4, <1>5
  <2> QED
    BY <1>1, <2>1, <2>2 DEF BelowAreBatched
<1>7. ByLevel'
  <2> SUFFICES ASSUME NEW i \in DOMAIN batches', NEW j \in DOMAIN batches', i <= j,
                      NEW t \in batches'[i], NEW u \in batches'[j]
               PROVE  level[t] <= level[u]
    BY <1>1 DEF ByLevel
  <2>1. CASE i \in DOMAIN batches /\ j \in DOMAIN batches
    BY <2>1, <1>2 DEF ByLevel
  <2>2. CASE j \notin DOMAIN batches
    <3>1. u \in Tasks /\ level[u] = now
      BY <2>2, <1>2, <1>3
    <3>2. t \in Tasks /\ (level[t] < now \/ level[t] = now)
      <4>1. CASE i \in DOMAIN batches /\ batches'[i] = batches[i]
        BY <4>1, <1>5
      <4>2. CASE i - Len(batches) \in DOMAIN lots /\ batches'[i] = lots[i - Len(batches)]
        BY <4>2, <1>3
      <4> QED
        BY <4>1, <4>2, <1>2
    <3> QED
      BY <3>1, <3>2, <1>4
  <2>3. CASE i \notin DOMAIN batches /\ j \in DOMAIN batches
    BY <2>3, <1>1, <1>2
  <2> QED
    BY <2>1, <2>2, <2>3
<1>8. Disjoint(batches')
  <2> SUFFICES ASSUME NEW i \in DOMAIN batches', NEW j \in DOMAIN batches', i # j
               PROVE  batches'[i] \cap batches'[j] = {}
    BY DEF Disjoint
  <2>1. CASE i \in DOMAIN batches /\ j \in DOMAIN batches
    BY <2>1, <1>2 DEF Disjoint
  <2>2. CASE i \notin DOMAIN batches /\ j \notin DOMAIN batches
    <3>1. i - Len(batches) # j - Len(batches)
      BY <1>2
    <3> QED
      BY <2>2, <3>1, <1>2 DEF Disjoint
  <2>3. CASE (i \in DOMAIN batches) # (j \in DOMAIN batches)
    BY <2>3, <1>2, <1>3, <1>4, <1>5
  <2> QED
    BY <2>1, <2>2, <2>3
<1>9. LevelTasks(now)' = LevelTasks(now + 1) /\ rest' \subseteq Tasks
  BY <1>1 DEF LevelTasks
<1>10. Disjoint(lots')
  BY <1>1 DEF Disjoint
<1>11. stage' = "batch" => LevelInHand'
  BY <1>1, <1>9 DEF LevelInHand, LevelTasks
<1>12. stage' \in {"chunk", "chunks"} => LevelTasks(now)' = {}
  BY <1>1 DEF LevelTasks
<1> QED
  BY <1>1, <1>2, <1>6, <1>7, <1>8, <1>9, <1>10, <1>11, <1>12 DEF Batched

(* Without a step of the batches they stay as they are. *)
LEMMA BatchKept ==
  ASSUME BatchInv, level' = level, now' = now, lots' = lots, batches' = batches,
         rest' \subseteq Tasks,
         \/ stage' = stage /\ (stage = "batch" => rest' = rest)
         \/ stage \in {"chunk", "chunks"} /\ stage' \in {"chunk", "chunks"}
         \/ stage \notin Batched /\ stage' \notin Batched
  PROVE  BatchInv'
<1>1. /\ BelowAreBatched' = BelowAreBatched /\ ByLevel' = ByLevel
      /\ Disjoint(lots)' = Disjoint(lots) /\ Disjoint(batches)' = Disjoint(batches)
      /\ LevelTasks(now)' = LevelTasks(now)
  BY DEF BelowAreBatched, ByLevel, Disjoint, LevelTasks
<1>2. rest' = rest => LevelInHand' = LevelInHand
  BY <1>1 DEF LevelInHand
<1> QED
  BY <1>1, <1>2 DEF BatchInv, LotType, Batched

(* Before the batches there is none. *)
LEMMA NotBatched ==
  ASSUME LevelInv', stage' \notin Batched, rest' \subseteq Tasks,
         now' = 0, lots' = <<>>, batches' = <<>>
  PROVE  BatchInv'
BY DEF BatchInv, LotType, BelowAreBatched, ByLevel, Disjoint, Batched, LevelInv

LEMMA BatchNext == SortInv /\ LevelInv /\ BatchInv /\ [Next]_vars => BatchInv'
<1> SUFFICES ASSUME SortInv, LevelInv, BatchInv, [Next]_vars
             PROVE  BatchInv'
  OBVIOUS
<1>0. LevelInv'
  BY LevelNext
<1> USE DEF Batched
<1>1. CASE Generate
  <2>1. CASE stage' = "idle" /\ Cleared
    BY <1>0, <2>1, NotBatched DEF Cleared
  <2>2. CASE stage' # "idle" /\ UNCHANGED <<sorting, levels, batching, chunking>>
    <3>1. stage \notin Batched /\ stage' \notin Batched
      BY <1>1, <2>2, PlanKept DEF Generate, Unsorted, Generating
    <3> QED
      BY <1>0, <2>2, <3>1, NotBatched DEF BatchInv, LotType, batching
  <2> QED
    BY <1>1, <2>1, <2>2 DEF Generate
<1>2. CASE SortBegins \/ SortOne \/ SortEnds \/ LevelOne
  <2>1. /\ now' = now /\ rest' = rest /\ lots' = lots /\ batches' = batches
        /\ stage \notin Batched /\ stage' \notin Batched
    BY <1>2 DEF SortBegins, SortOne, SortEnds, LevelOne, batching, Goto
  <2> QED
    BY <1>0, <2>1, NotBatched DEF BatchInv, LotType
<1>3. CASE Refuses \/ RunTasks
  BY <1>0, <1>3, NotBatched DEF Refuses, RunTasks, Idle, Cleared
<1>4. CASE LevelsEnd
  <2>1. /\ stage = "level" /\ stage' = "batch" /\ level' = level
        /\ rest' = LevelTasks(0) /\ now' = now /\ lots' = lots /\ batches' = batches
    BY <1>4 DEF LevelsEnd, levels
  <2>2. now = 0 /\ lots = <<>> /\ batches = <<>>
    BY <2>1 DEF BatchInv
  <2>3. LevelInHand'
    BY <2>1, <2>2 DEF LevelInHand, LevelTasks
  <2>4. BelowAreBatched' /\ ByLevel' /\ Disjoint(lots') /\ Disjoint(batches') /\ LotType'
    BY <2>1, <2>2 DEF BelowAreBatched, ByLevel, Disjoint, LotType, LevelTasks, LevelInv
  <2> QED
    BY <2>1, <2>3, <2>4 DEF BatchInv
<1>5. CASE BatchOne
  BY <1>5, BatchOnePlaces
<1>6. CASE BatchesEnd
  BY <1>6, BatchesEndPlaces
<1>7. CASE ChunkBegins
  <2>1. rest' \subseteq Tasks
    BY <1>7 DEF ChunkBegins, BatchInv, LotType
  <2> QED
    BY <1>7, <2>1, BatchKept DEF ChunkBegins, levels
<1>8. CASE ChunkOne
  <2>1. rest' \subseteq Tasks
    BY <1>8 DEF ChunkOne, BatchInv, LotType
  <2> QED
    BY <1>8, <2>1, BatchKept DEF ChunkOne, levels
<1>9. CASE ChunksEnd
  BY <1>9, BatchKept DEF ChunksEnd, levels, batching, BatchInv, LotType
<1>10. CASE Done \/ UNCHANGED vars
  BY <1>10, BatchKept DEF Done, vars, levels, batching, BatchInv, LotType
<1> QED
  BY <1>1, <1>2, <1>3, <1>4, <1>5, <1>6, <1>7, <1>8, <1>9, <1>10 DEF Next

LEMMA BatchInit == Init => BatchInv
BY DEF Init, GenerationInit, BatchInv, LotType, BelowAreBatched, ByLevel, Disjoint, Batched

(* No level is skipped: when the next one is empty, all tasks are below it. *)
LEMMA AllBelow ==
  ASSUME SortInv, LevelInv, BatchInv, stage \in {"chunk", "chunks"}, NEW t \in Tasks
  PROVE  level[t] < now
<1> SUFFICES ASSUME ~ (level[t] < now)
             PROVE  FALSE
  OBVIOUS
<1>1. now \in Nat /\ level \in [Tasks -> Nat]
  BY DEF BatchInv, LotType, LevelInv
<1> DEFINE H == {level[u] : u \in {v \in Tasks : now <= level[v]}}
<1>2. H \in SUBSET Nat /\ level[t] \in H
  BY <1>1
<1>3. PICK m \in H : \A k \in H : m <= k
  <2> HIDE DEF H
  <2> QED
    BY <1>2, LeastNumber
<1>4. PICK u \in Tasks : level[u] = m /\ now <= m
  BY <1>3
<1>5. m # now
  BY <1>4 DEF BatchInv, LevelTasks
<1>6. PICK d \in Needs(u) : level[d] + 1 = m
  BY <1>1, <1>4, <1>5, LevelSound DEF Levelled, Sorted
<1>7. d \in Tasks /\ now <= level[d]
  BY <1>1, <1>4, <1>5, <1>6 DEF Needs
<1>8. level[d] \in H
  BY <1>7
<1> QED
  BY <1>1, <1>3, <1>6, <1>7, <1>8

(* What TaskRun's ScheduleAssumption says of its batches holds of every    *)
(* schedule that is computed here: every task is in exactly one batch,     *)
(* behind the batches of all it depends on (_toposort_levels,              *)
(* _partition_level_for_parallel).                                         *)
THEOREM BatchesSound == Spec => []ScheduleSound
<1>1. SortInv /\ LevelInv /\ BatchInv => ScheduleSound
  <2> SUFFICES ASSUME SortInv, LevelInv, BatchInv, stage \in {"chunk", "chunks"}
               PROVE  ScheduleSound
    BY DEF ScheduleSound
  <2>1. \A t \in Tasks : \E i \in DOMAIN batches : t \in batches[i]
    BY AllBelow DEF BatchInv, BelowAreBatched
  <2>2. \A i, j \in DOMAIN batches : i # j => batches[i] \cap batches[j] = {}
    BY DEF BatchInv, Disjoint
  <2>3. ASSUME NEW i \in DOMAIN batches, NEW t \in batches[i], NEW d \in Needs(t)
        PROVE  \E j \in DOMAIN batches : j < i /\ d \in batches[j]
    <3>1. t \in Tasks /\ d \in Tasks
      BY DEF BatchInv, LotType, Needs
    <3>2. PICK j \in DOMAIN batches : d \in batches[j]
      BY <2>1, <3>1
    <3>3. level[d] < level[t] /\ level[d] \in Nat /\ level[t] \in Nat
      BY <3>1, LevelSound DEF Levelled, Sorted, LevelInv
    <3>4. i <= j => level[t] <= level[d]
      BY <3>2 DEF BatchInv, ByLevel
    <3>5. i \in Nat /\ j \in Nat
      BY DEF BatchInv, LotType
    <3> QED
      BY <3>2, <3>3, <3>4, <3>5
  <2> QED
    BY <2>1, <2>2, <2>3 DEF ScheduleSound
<1> QED
  BY <1>1, SortInit, SortNext, LevelInit, LevelNext, BatchInit, BatchNext, PTL DEF Spec

-----------------------------------------------------------------------------
(* The batches of the level at hand and of the levels before it. *)
BatchType == /\ rest \subseteq Tasks
             /\ lots \in Seq(SUBSET Tasks)
             /\ batches \in Seq(SUBSET Tasks)

AllApart(s) == \A i \in DOMAIN s : Apart(s[i])

(* Before the sort there is no batch. *)
NoneYet == stage \in Unsorted => lots = <<>> /\ batches = <<>>

ApartInv == BatchType /\ NoneYet /\ AllApart(lots) /\ AllApart(batches)

(* A batch that a task fits stays pairwise disjoint when the task joins it. *)
LEMMA JoinApart ==
  ASSUME NEW lot \in SUBSET Tasks, NEW t \in Tasks, Apart(lot), Fits(t, lot)
  PROVE  Apart(lot \cup {t})
<1> SUFFICES ASSUME NEW a \in lot \cup {t}, NEW b \in lot \cup {t}, a # b
             PROVE  plan.files[a] \cap plan.files[b] = {}
  BY DEF Apart
<1>1. CASE a \in lot /\ b \in lot
  BY <1>1 DEF Apart
<1>2. CASE a = t /\ b \in lot
  BY <1>2 DEF Fits
<1>3. CASE a \in lot /\ b = t
  BY <1>3 DEF Fits
<1> QED
  BY <1>1, <1>2, <1>3

(* The initial state has no batch. *)
LEMMA ApartInit == Init => ApartInv
BY DEF Init, ApartInv, BatchType, NoneYet, AllApart

(* Placing one task keeps the batches of the level disjoint. *)
LEMMA BatchOneKeeps ==
  ASSUME ApartInv, BatchOne
  PROVE  ApartInv'
<1> USE DEF ApartInv, BatchType, AllApart
<1>0. NoneYet'
  BY DEF BatchOne, NoneYet, Unsorted, Generating
<1>1. PICK t \in rest :
        /\ rest' = rest \ {t}
        /\ \/ \E i \in DOMAIN lots :
                Fits(t, lots[i]) /\ lots' = [lots EXCEPT ![i] = @ \cup {t}]
           \/ lots' = Append(lots, {t})
  BY DEF BatchOne
<1>2. plan' = plan /\ batches' = batches
  BY DEF BatchOne, generation
<1>3. BatchType'
  BY <1>1, <1>2
<1>4. AllApart(batches)'
  BY <1>2 DEF Apart
<1>5. AllApart(lots)'
  <2>1. CASE lots' = Append(lots, {t})
    <3>1. Apart({t})
      BY DEF Apart
    <3>2. \A k \in 1..Len(lots) + 1 : Apart(lots'[k])
      BY <2>1, <3>1
    <3> QED
      BY <2>1, <3>2, <1>2 DEF Apart
  <2>2. ASSUME NEW i \in DOMAIN lots, Fits(t, lots[i]),
               lots' = [lots EXCEPT ![i] = @ \cup {t}]
        PROVE  AllApart(lots)'
    <3>1. Apart(lots[i] \cup {t})
      BY <2>2, <1>1, JoinApart
    <3>2. \A k \in DOMAIN lots : Apart(lots'[k])
      BY <2>2, <3>1
    <3> QED
      BY <2>2, <3>2, <1>2 DEF Apart
  <2> QED
    BY <1>1, <2>1, <2>2
<1> QED
  BY <1>0, <1>3, <1>4, <1>5

(* The batches of a finished level are put behind the earlier ones. *)
LEMMA BatchesEndKeeps ==
  ASSUME ApartInv, BatchesEnd
  PROVE  ApartInv'
<1> USE DEF ApartInv, BatchType, AllApart
<1>1. /\ plan' = plan /\ level' = level
      /\ batches' = batches \o lots /\ lots' = <<>>
      /\ rest' = LevelTasks(now + 1)
  BY DEF BatchesEnd, levels, generation
<1>0. NoneYet'
  BY DEF BatchesEnd, NoneYet, Unsorted, Generating
<1>2. rest' \subseteq Tasks
  BY <1>1 DEF LevelTasks
<1>3. \A i \in 1..Len(batches) + Len(lots) :
        Apart((batches \o lots)[i])
  OBVIOUS
<1> QED
  BY <1>0, <1>1, <1>2, <1>3 DEF Apart

(* The end of a run leaves no batch. *)
LEMMA ClearedKeeps ==
  ASSUME Cleared
  PROVE  ApartInv'
BY DEF Cleared, ApartInv, BatchType, NoneYet, AllApart

(* Generating a plan keeps the batches disjoint: there are none. *)
LEMMA GenerateKeeps ==
  ASSUME ApartInv, Generate
  PROVE  ApartInv'
<1>1. CASE stage' = "idle" /\ Cleared
  BY <1>1, ClearedKeeps
<1>2. CASE stage' # "idle" /\ UNCHANGED <<sorting, levels, batching, chunking>>
  <2>1. /\ stage = "checkpoint" => plan' = plan /\ stage' = "level"
        /\ stage # "checkpoint" => stage \in Unsorted
    BY <1>2, PlanKept DEF Generate
  <2>2. UNCHANGED <<rest, lots, batches>>
    BY <1>2 DEF batching
  <2>3. CASE stage = "checkpoint"
    BY <2>1, <2>2, <2>3 DEF ApartInv, BatchType, NoneYet, AllApart, Apart, Unsorted, Generating
  <2>4. CASE stage \in Unsorted
    <3>1. lots = <<>> /\ batches = <<>>
      BY <2>4 DEF ApartInv, NoneYet
    <3> QED
      BY <2>2, <3>1 DEF ApartInv, BatchType, NoneYet, AllApart
  <2> QED
    BY <2>1, <2>3, <2>4
<1> QED
  BY <1>1, <1>2 DEF Generate

(* The other steps leave the batches alone. *)
LEMMA ApartNext == ApartInv /\ [Next]_vars => ApartInv'
<1> SUFFICES ASSUME ApartInv, [Next]_vars
             PROVE  ApartInv'
  OBVIOUS
<1> USE DEF generation
<1>1. CASE BatchOne
  BY <1>1, BatchOneKeeps
<1>2. CASE BatchesEnd
  BY <1>2, BatchesEndKeeps
<1>3. CASE Generate
  BY <1>3, GenerateKeeps
<1>4. CASE Refuses \/ RunTasks
  BY <1>4, ClearedKeeps DEF Refuses, RunTasks
<1> USE DEF ApartInv, BatchType, NoneYet, AllApart, Apart, Unsorted, Generating
<1>5. CASE SortBegins
  BY <1>5 DEF SortBegins, batching, Goto
<1>6. CASE SortOne \/ SortEnds \/ LevelOne
  BY <1>6 DEF SortOne, SortEnds, LevelOne, batching
<1>7. CASE LevelsEnd
  BY <1>7 DEF LevelsEnd, LevelTasks
<1>8. CASE ChunkBegins
  BY <1>8 DEF ChunkBegins
<1>9. CASE ChunkOne
  BY <1>9 DEF ChunkOne
<1>10. CASE ChunksEnd
  BY <1>10 DEF ChunksEnd, batching
<1>11. CASE Done \/ UNCHANGED vars
  BY <1>11 DEF Done, vars, batching
<1> QED
  BY <1>1, <1>2, <1>3, <1>4, <1>5, <1>6, <1>7, <1>8, <1>9, <1>10, <1>11 DEF Next

(* Two tasks of one batch, which may run concurrently, never declare the   *)
(* same file (_partition_level_for_parallel).                              *)
THEOREM BatchesApart == Spec => []FilesApart
<1>1. ApartInv => FilesApart
  BY DEF ApartInv, AllApart, FilesApart
<1> QED
  BY <1>1, ApartInit, ApartNext, PTL DEF Spec

-----------------------------------------------------------------------------
(***************************************************************************)
(* The runs of one workspace: what a resumed run skips was completed under *)
(* the plan in hand, as long as all runs had one key and no plan was       *)
(* repaired, and no later generation writes over the work of a task.       *)
(*                                                                         *)
(* The first needs what links a run to the next one: with one key the      *)
(* cache is filled once, so the completed tasks of the checkpoint are all  *)
(* of the one plan it holds; a run that finds no plan in the cache finds   *)
(* no completed task in the checkpoint either.                             *)
(***************************************************************************)

Shapes ==
  /\ scene \in Scenes
  /\ DOMAIN run = {"n", "key", "resume", "cached", "type", "completed"}
  /\ DOMAIN disk = {"cache", "completed", "files"}
  /\ DOMAIN seen = {"done", "keys", "repaired", "unbound", "stuck"}

(* One key, and every plan as it was cached. *)
Steady == ~ seen.repaired /\ \A k, l \in seen.keys : k = l

Uncached == {"specs", "models", "plan"}
Planless == {"idle", "cache"} \cup Uncached

KeyIsSeen  == stage # "idle" => run.key \in seen.keys
CachedKeys == \A c \in disk.cache : c.key \in seen.keys
OneCached  == \A c, d \in disk.cache : c = d
NoPlanYet  == stage \in Uncached => ~ UseCached

DoneUnderCached ==
  Steady => \A t \in disk.completed :
    \E c \in disk.cache : [plan |-> c.plan.name, task |-> t] \in seen.done

PlanIsCached ==
  Steady /\ stage \notin Planless => \E c \in disk.cache : c.plan.name = plan.name

InStep == stage \in Sorted => run.completed = disk.completed

ResumeInv == /\ Shapes /\ KeyIsSeen /\ CachedKeys /\ OneCached /\ NoPlanYet
             /\ DoneUnderCached /\ PlanIsCached /\ InStep

(* A new workspace. *)
LEMMA ResumeInit == Init => ResumeInv
<1> SUFFICES ASSUME Init
             PROVE  ResumeInv
  OBVIOUS
<1>1. /\ Shapes /\ stage = "idle"
      /\ disk.cache = {} /\ disk.completed = {}
  BY DEF Init, GenerationInit, Shapes, NoRun, EmptyDisk, Unseen
<1> QED
  BY <1>1 DEF ResumeInv, KeyIsSeen, CachedKeys, OneCached, NoPlanYet, DoneUnderCached,
              PlanIsCached, InStep, Uncached, Planless, Sorted

(* The records keep their fields, and the scene is the one it was. *)
LEMMA ShapesKept ==
  ASSUME Shapes, GenerationNext
  PROVE  Shapes'
<1> USE DEF Shapes, Goto, Idle, Begin, EmptyDisk, Unseen, NoRun, Write
<1>1. CASE CommandLine \/ Attempt
  BY <1>1 DEF CommandLine, Attempt
<1>2. CASE TakeCached \/ Analyse \/ ApiSpec \/ DbModels \/ MakePlan
  BY <1>2 DEF TakeCached, Analyse, ApiSpec, DbModels, MakePlan
<1>3. CASE Scaffold \/ ResolveFiles \/ RepairPlan \/ AcceptanceTests
  BY <1>3 DEF Scaffold, ResolveFiles, RepairPlan, AcceptanceTests
<1>4. CASE LoadCheckpoint
  BY <1>4 DEF LoadCheckpoint
<1>5. CASE PromptUnbound \/ Stops \/ StopsInTests \/ TornCache \/ TornCheckpoint
  BY <1>5 DEF PromptUnbound, Stops, StopsInTests, TornCache, TornCheckpoint
<1> QED
  BY <1>1, <1>2, <1>3, <1>4, <1>5 DEF GenerationNext

(* With one key, a plan is made only when no task was completed. *)
LEMMA MakePlanKeeps ==
  ASSUME ResumeInv, MakePlan
  PROVE  ResumeInv'
<1> USE DEF ResumeInv, Shapes, KeyIsSeen, CachedKeys, OneCached, NoPlanYet, DoneUnderCached,
            PlanIsCached, InStep, Steady, Uncached, Planless, Sorted
<1>1. PICK p \in scene.answers :
        plan' = p /\ disk' = [disk EXCEPT !.cache = {[key |-> run.key, plan |-> p]}]
  BY DEF MakePlan
<1>2. /\ stage = "plan" /\ stage' = "scaffold" /\ run' = run /\ seen' = seen
      /\ disk'.cache = {[key |-> run.key, plan |-> p]}
      /\ disk'.completed = disk.completed
  BY <1>1 DEF MakePlan, Goto
<1>3. Steady => disk.completed = {}
  BY <1>2 DEF UseCached
<1>4. \E c \in disk'.cache : c.plan.name = plan'.name
  BY <1>1, <1>2
<1>5. Shapes'
  BY <1>1, <1>2 DEF MakePlan
<1>6. KeyIsSeen' /\ CachedKeys' /\ OneCached' /\ NoPlanYet'
  BY <1>2
<1>7. DoneUnderCached' /\ InStep'
  BY <1>2, <1>3
<1>8. PlanIsCached'
  BY <1>2, <1>4
<1> QED
  BY <1>5, <1>6, <1>7, <1>8

(* Every step of the generation preserves the invariant. *)
LEMMA GenerationKeeps ==
  ASSUME ResumeInv, GenerationNext
  PROVE  ResumeInv'
<1> Shapes'
  BY ShapesKept DEF ResumeInv
<1> USE DEF ResumeInv, Shapes, KeyIsSeen, CachedKeys, OneCached, NoPlanYet, DoneUnderCached,
            PlanIsCached, InStep, Steady, Uncached, Planless, Sorted,
            Goto, Idle, Begin, EmptyDisk, Unseen, NoRun, Write, UseCached
<1>1. CASE CommandLine
  BY <1>1 DEF CommandLine
<1>2. CASE Attempt
  BY <1>2 DEF Attempt
<1>3. CASE TakeCached
  BY <1>3 DEF TakeCached
<1>4. CASE Analyse
  BY <1>4 DEF Analyse
<1>5. CASE ApiSpec
  BY <1>5 DEF ApiSpec
<1>6. CASE DbModels
  BY <1>6 DEF DbModels
<1>7. CASE MakePlan
  BY <1>7, MakePlanKeeps
<1>8. CASE Scaffold
  BY <1>8 DEF Scaffold
<1>9. CASE ResolveFiles
  BY <1>9 DEF ResolveFiles, Canonical
<1>10. CASE RepairPlan
  BY <1>10 DEF RepairPlan
<1>11. CASE AcceptanceTests
  BY <1>11 DEF AcceptanceTests
<1>12. CASE LoadCheckpoint
  BY <1>12 DEF LoadCheckpoint, CheckpointRead
<1>13. CASE PromptUnbound
  BY <1>13 DEF PromptUnbound
<1>14. CASE Stops \/ StopsInTests
  BY <1>14 DEF Stops, StopsInTests
<1>15. CASE TornCache
  BY <1>15 DEF TornCache
<1>16. CASE TornCheckpoint
  BY <1>16 DEF TornCheckpoint
<1> QED
  BY <1>1, <1>2, <1>3, <1>4, <1>5, <1>6, <1>7, <1>8, <1>9, <1>10, <1>11, <1>12,
     <1>13, <1>14, <1>15, <1>16 DEF GenerationNext

(* The tasks a run completes are noted under the plan in hand. *)
LEMMA RunTasksKeeps ==
  ASSUME ResumeInv, RunTasks
  PROVE  ResumeInv'
<1> USE DEF ResumeInv, Shapes, KeyIsSeen, CachedKeys, OneCached, NoPlanYet, DoneUnderCached,
            PlanIsCached, InStep, Steady, Uncached, Planless, Sorted
<1>1. PICK S \in SUBSET (Tasks \ run.completed) :
        /\ DOMAIN disk' = DOMAIN disk /\ disk'.cache = disk.cache
        /\ disk'.completed = disk.completed \cup S
        /\ DOMAIN seen' = DOMAIN seen
        /\ seen'.keys = seen.keys /\ seen'.repaired = seen.repaired
        /\ seen'.done = seen.done \cup {Work(t) : t \in S}
  BY DEF RunTasks, CompletesTasks
<1>2. stage = "chunk" /\ stage' = "idle" /\ DOMAIN run' = DOMAIN run
  BY DEF RunTasks, Idle, NoRun
<1>3. /\ Shapes' /\ KeyIsSeen' /\ CachedKeys' /\ OneCached'
      /\ NoPlanYet' /\ PlanIsCached' /\ InStep'
  BY <1>1, <1>2 DEF RunTasks
<1>4. Steady => \A t \in S : \E c \in disk.cache :
                  [plan |-> c.plan.name, task |-> t] \in seen'.done
  BY <1>1, <1>2 DEF Work
<1>5. DoneUnderCached'
  BY <1>1, <1>4
<1> QED
  BY <1>3, <1>5

(* The schedule is computed between the two. *)
LEMMA ResumeNext == ResumeInv /\ [Next]_vars => ResumeInv'
<1> SUFFICES ASSUME ResumeInv, [Next]_vars
             PROVE  ResumeInv'
  OBVIOUS
<1>1. CASE Generate
  BY <1>1, GenerationKeeps DEF Generate
<1>2. CASE RunTasks
  BY <1>2, RunTasksKeeps
<1> USE DEF ResumeInv, Shapes, KeyIsSeen, CachedKeys, OneCached, NoPlanYet, DoneUnderCached,
            PlanIsCached, InStep, Steady, Uncached, Planless, Sorted, UseCached
<1>3. CASE Refuses
  BY <1>3 DEF Refuses, Idle, NoRun
<1>4. CASE SortBegins \/ SortOne \/ SortEnds
  BY <1>4 DEF SortBegins, SortOne, SortEnds, generation, Goto
<1>5. CASE LevelOne \/ LevelsEnd \/ BatchOne \/ BatchesEnd
  BY <1>5 DEF LevelOne, LevelsEnd, BatchOne, BatchesEnd, generation
<1>6. CASE ChunkBegins \/ ChunkOne \/ ChunksEnd \/ Done \/ UNCHANGED vars
  BY <1>6 DEF ChunkBegins, ChunkOne, ChunksEnd, Done, vars, generation
<1> QED
  BY <1>1, <1>2, <1>3, <1>4, <1>5, <1>6 DEF Next

(* A task that a run skips because the checkpoint lists it was completed   *)
(* under the plan in hand, when every run of the directory had the same    *)
(* key and no plan was repaired (_read_checkpoint, loop.py:888-895).       *)
THEOREM SkippedDone == Spec => []SkippedWasDone
<1>1. ResumeInv => SkippedWasDone
  BY DEF ResumeInv, SkippedWasDone, Steady, DoneUnderCached, PlanIsCached, OneCached, InStep,
         Work, Sorted, Planless, Uncached
<1> QED
  BY <1>1, ResumeInit, ResumeNext, PTL DEF Spec

-----------------------------------------------------------------------------
(* What the files of the workspace need. *)
FilesKept ==
  stage # "idle" => \A f \in DOMAIN disk.files \ Generated :
    disk.files[f] = "task" => f \in DOMAIN disk'.files /\ disk'.files[f] = "task"

(* The generation writes specifications, acceptance tests and the files of *)
(* the template that do not exist yet.                                     *)
LEMMA GenerationSpares ==
  ASSUME Shapes, GenerationNext
  PROVE  FilesKept
<1> USE DEF Shapes, FilesKept, Goto
<1>1. CASE CommandLine \/ Attempt
  BY <1>1 DEF CommandLine, Attempt, Begin
<1>2. CASE ApiSpec \/ DbModels
  BY <1>2 DEF ApiSpec, DbModels, Write, Generated
<1>3. CASE Scaffold
  BY <1>3 DEF Scaffold, Scaffolded
<1>4. CASE AcceptanceTests \/ StopsInTests
  <2>1. PICK S \in scene.tested : disk'.files = Tested(S)
    BY <1>4 DEF AcceptanceTests, StopsInTests
  <2>2. {TestOf[t] : t \in S} \subseteq Generated
    BY <2>1, SceneAssumption DEF Generated, Range
  <2> QED
    BY <2>1, <2>2 DEF Tested
<1>5. CASE TakeCached \/ Analyse \/ MakePlan \/ ResolveFiles \/ RepairPlan
  BY <1>5 DEF TakeCached, Analyse, MakePlan, ResolveFiles, RepairPlan
<1>6. CASE LoadCheckpoint \/ PromptUnbound \/ Stops \/ TornCache \/ TornCheckpoint
  BY <1>6 DEF LoadCheckpoint, PromptUnbound, Stops, TornCache, TornCheckpoint
<1> QED
  BY <1>1, <1>2, <1>3, <1>4, <1>5, <1>6 DEF GenerationNext

(* No other step writes a file but RunTasks, whose files are the tasks'. *)
LEMMA OthersSpare ==
  ASSUME Shapes, [Next]_vars
  PROVE  FilesKept
<1>1. CASE Generate
  BY <1>1, GenerationSpares DEF Generate
<1> USE DEF FilesKept
<1>2. CASE RunTasks
  BY <1>2 DEF RunTasks, CompletesTasks, Shapes
<1>3. CASE Refuses \/ SortBegins \/ SortOne \/ SortEnds
  BY <1>3 DEF Refuses, SortBegins, SortOne, SortEnds, generation
<1>4. CASE LevelOne \/ LevelsEnd \/ BatchOne \/ BatchesEnd
  BY <1>4 DEF LevelOne, LevelsEnd, BatchOne, BatchesEnd, generation
<1>5. CASE ChunkBegins \/ ChunkOne \/ ChunksEnd \/ Done \/ UNCHANGED vars
  BY <1>5 DEF ChunkBegins, ChunkOne, ChunksEnd, Done, vars, generation
<1> QED
  BY <1>1, <1>2, <1>3, <1>4, <1>5 DEF Next

(* What a task wrote no later run in the directory writes over while it    *)
(* generates, except the specifications and the acceptance tests           *)
(* (apply_template skips what exists, workspace.py:40-52).                 *)
THEOREM WorkKept == Spec => WorkSurvives
<1>1. ResumeInv /\ [Next]_vars => FilesKept
  BY OthersSpare DEF ResumeInv
<1>2. ResumeInv /\ [Next]_vars => [FilesKept]_vars
  BY <1>1
<1> QED
  BY <1>2, ResumeInit, ResumeNext, PTL DEF Spec, WorkSurvives, FilesKept
=============================================================================
