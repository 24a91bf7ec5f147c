------------------------------ MODULE TaskPlan ------------------------------
(***************************************************************************)
(* From a PRD to what runs concurrently, over the runs of one workspace:   *)
(* Generation's plan and checkpoint, then, for its tasks, the topological  *)
(* sort, the levels and the file-disjoint batches of loop_tasks.py and the *)
(* longest-first chunks of task_scheduler.py, computed one task at a time  *)
(* as their loops do.  TaskRun takes its Batches and Order from here.      *)
(*                                                                         *)
(* Without a timing store every estimate is the same: the level keeps its  *)
(* order, and filling the least loaded slot is slicing.                    *)
(*                                                                         *)
(* A definition whose name extends that of the one after it is that        *)
(* definition with a plausible bug; only the mutation runs use it.         *)
(***************************************************************************)
EXTENDS Generation, FiniteSetsExt

CONSTANTS
  Listed,   \* the tasks in the order the plan lists them
  Widths    \* the values of effective_parallel

ASSUME ListedAssumption ==
  /\ Listed \in Seq(Tasks)
  /\ \A t \in Tasks : \E i \in DOMAIN Listed : Listed[i] = t
  /\ \A i, j \in DOMAIN Listed : Listed[i] = Listed[j] => i = j

\* deps may name ids that are not in the plan; the sort ignores them.
ASSUME PlansAssumption ==
  \A p \in Plans : /\ DOMAIN p = DOMAIN NoPlan /\ DOMAIN p.deps = Tasks
                   /\ DOMAIN p.files = Tasks
                   /\ p.est \in [Tasks -> Nat \ {0}]

ASSUME WidthsAssumption == Widths \subseteq Nat \ {0}

VARIABLES
  order,    \* the tasks sorted so far
  queue,    \* the tasks whose dependencies are all sorted
  level,    \* level[t]: the level of t, once `levelled` has passed it
  levelled, \* how many tasks of the order have a level
  now,      \* the level being partitioned
  rest,     \* tasks of that level, or of the batch, still to be placed
  lots,     \* the batches of the level so far
  batches,  \* the batches of the levels before it
  runnable, \* tasks of the batch being cut into chunks
  width,    \* effective_parallel
  slots     \* what each of the concurrent slots runs, in order

sorting  == <<order, queue>>
levels   == <<level, levelled>>
batching == <<now, rest, lots, batches>>
chunking == <<runnable, width, slots>>
generation == <<scene, plan, run, disk, seen>>
vars == <<generation, stage, sorting, levels, batching, chunking>>

Unsorted == {"idle"} \cup (Generating \ {"checkpoint"})
Sorted   == {"level", "batch", "chunk", "chunks"}

Needs(t) == plan.deps[t] \cap Tasks

Init ==
  /\ GenerationInit
  /\ order = <<>> /\ queue = <<>>
  /\ level = [t \in Tasks |-> 0] /\ levelled = 0
  /\ now = 0 /\ rest = {} /\ lots = <<>> /\ batches = <<>>
  /\ runnable = {} /\ width = 1 /\ slots = <<>>

\* The run is over, and with it its schedule.
Cleared ==
  /\ order' = <<>> /\ queue' = <<>>
  /\ level' = [t \in Tasks |-> 0] /\ levelled' = 0
  /\ now' = 0 /\ rest' = {} /\ lots' = <<>> /\ batches' = <<>>
  /\ runnable' = {} /\ width' = 1 /\ slots' = <<>>

Generate ==
  /\ GenerationNext
  /\ \/ stage' = "idle" /\ Cleared
     \/ stage' # "idle" /\ UNCHANGED <<sorting, levels, batching, chunking>>

-----------------------------------------------------------------------------
(* _toposort: Kahn's algorithm.  The in-degree of a task is the number of  *)
(* its dependencies that are not in the order.                             *)

\* The tasks of S in the order of the plan.
Before(t, u) == \E i, j \in DOMAIN Listed : i < j /\ Listed[i] = t /\ Listed[j] = u

AsListed(S) ==
  CHOOSE s \in [1..Cardinality(S) -> S] :
    \A i, j \in DOMAIN s : i < j => Before(s[i], s[j])

\* tid was sorted last; t is ready now, and was not before.
Ready(t, sorted, tid) == tid \in Needs(t) /\ Needs(t) \subseteq sorted

SortBegins ==
  /\ Goto("planned", "sort")
  /\ queue' = AsListed({t \in Tasks : Needs(t) = {}})
  /\ UNCHANGED <<generation, order, levels, batching, chunking>>

SortOne ==
  /\ stage = "sort" /\ queue # <<>>
  /\ LET tid == Head(queue)
     IN  /\ order' = Append(order, tid)
         /\ queue' = Tail(queue) \o
              AsListed({t \in Tasks : Ready(t, Range(order'), tid)})
  /\ UNCHANGED <<generation, stage, levels, batching, chunking>>

\* Fewer tasks sorted than there are: ValueError.
Cycle == Len(order) < Len(Listed)

SortEnds ==
  /\ stage = "sort" /\ queue = <<>>
  /\ stage' = IF Cycle THEN "refused" ELSE "checkpoint"
  /\ UNCHANGED <<generation, sorting, levels, batching, chunking>>

\* The run ends; the plan stays in the cache.
Refuses ==
  /\ stage = "refused" /\ Idle /\ Cleared
  /\ seen' = [seen EXCEPT !.stuck = @ \cup {plan.name}]
  /\ UNCHANGED <<scene, disk>>

-----------------------------------------------------------------------------
(* _toposort_levels *)

OneAboveSome(t, n) ==
  IF Needs(t) = {} THEN n = 0 ELSE \E d \in Needs(t) : level[d] + 1 = n

\* n is one more than the highest level of t's dependencies.
OneAbove(t, n) ==
  /\ \A d \in Needs(t) : level[d] < n
  /\ n = 0 \/ \E d \in Needs(t) : level[d] + 1 = n

LevelOne ==
  /\ stage = "level" /\ levelled < Len(order)
  /\ \E n \in 0..Len(order) :
       LET t == order[levelled + 1]
       IN  OneAbove(t, n) /\ level' = [level EXCEPT ![t] = n]
  /\ levelled' = levelled + 1
  /\ UNCHANGED <<generation, stage, sorting, batching, chunking>>

LevelTasks(n) == {t \in Tasks : level[t] = n}

LevelsEnd ==
  /\ stage = "level" /\ levelled = Len(order)
  /\ stage' = "batch" /\ rest' = LevelTasks(0)
  /\ UNCHANGED <<generation, sorting, levels, now, lots, batches, chunking>>

-----------------------------------------------------------------------------
(* schedule_level_tasks, then _partition_level_for_parallel *)

Place(t) == CHOOSE i \in DOMAIN order : order[i] = t

\* Longest estimate first; ties keep the topological order.
Sooner(t, u) == \/ plan.est[t] > plan.est[u]
                \/ plan.est[t] = plan.est[u] /\ Place(t) < Place(u)

First(t) == t \in rest /\ \A u \in rest \ {t} : Sooner(t, u)

FitsLast(t, lot) ==
  lot = {} \/ \E u \in lot : plan.files[t] \cap plan.files[u] = {}

Fits(t, lot) == \A u \in lot : plan.files[t] \cap plan.files[u] = {}

\* The task joins the first batch it shares no file with, or opens one.
BatchOne ==
  /\ stage = "batch"
  /\ \E t \in rest :
       /\ First(t)
       /\ rest' = rest \ {t}
       /\ \/ \E i \in DOMAIN lots :
               /\ Fits(t, lots[i]) /\ \A j \in 1..i - 1 : ~ Fits(t, lots[j])
               /\ lots' = [lots EXCEPT ![i] = @ \cup {t}]
          \/ /\ \A i \in DOMAIN lots : ~ Fits(t, lots[i])
             /\ lots' = Append(lots, {t})
  /\ UNCHANGED <<generation, stage, sorting, levels, now, batches, chunking>>

BatchesEnd ==
  /\ stage = "batch" /\ rest = {}
  /\ batches' = batches \o lots /\ lots' = <<>>
  /\ now' = now + 1 /\ rest' = LevelTasks(now + 1)
  /\ stage' = IF rest' = {} THEN "chunk" ELSE "batch"
  /\ UNCHANGED <<generation, sorting, levels, chunking>>

-----------------------------------------------------------------------------
(* schedule_batch_chunks *)

\* The runnable tasks of some batch: those an earlier run did not complete.
ChunkBegins ==
  /\ stage = "chunk" /\ slots = <<>>
  /\ \E i \in DOMAIN batches, w \in Widths :
     \E todo \in SUBSET batches[i] \ {{}} :
       LET n == Cardinality(todo)
       IN  /\ runnable' = todo /\ rest' = todo /\ width' = w
           /\ slots' = [j \in 1..(IF n < w THEN n ELSE w) |-> <<>>]
  /\ UNCHANGED <<generation, stage, sorting, levels, now, lots, batches>>

Load(slot) == MapThenSumSet(LAMBDA k : plan.est[slot[k]], DOMAIN slot)

\* heappop: the least loaded slot, of equal ones the first.
Freest(i) ==
  \A j \in DOMAIN slots \ {i} :
    \/ Load(slots[i]) < Load(slots[j])
    \/ Load(slots[i]) = Load(slots[j]) /\ i < j

ChunkOne ==
  /\ stage = "chunk" /\ slots # <<>>
  /\ \E t \in rest, i \in DOMAIN slots :
       /\ First(t) /\ Freest(i)
       /\ slots' = [slots EXCEPT ![i] = Append(@, t)]
       /\ rest' = rest \ {t}
  /\ UNCHANGED <<generation, stage, sorting, levels, now, lots, batches, runnable, width>>

ChunksEnd ==
  /\ stage = "chunk" /\ slots # <<>> /\ rest = {}
  /\ stage' = "chunks"
  /\ UNCHANGED <<generation, sorting, levels, batching, chunking>>

Depth == Max({Len(slots[i]) : i \in DOMAIN slots})

\* The d-th chunk gathers the d-th task of every slot.
Chunks == [d \in 1..Depth |-> {slots[i][d] : i \in {j \in DOMAIN slots : d <= Len(slots[j])}}]

\* The batches are run, as far as the run comes, and it ends.
RunTasks ==
  /\ stage = "chunk" /\ slots = <<>>
  /\ CompletesTasks /\ Idle /\ Cleared
  /\ UNCHANGED scene

Done ==
  /\ stage = "chunks" \/ (stage = "idle" /\ run.n = scene.runs)
  /\ UNCHANGED vars

Next ==
  \/ Generate
  \/ SortBegins \/ SortOne \/ SortEnds \/ Refuses
  \/ LevelOne \/ LevelsEnd
  \/ BatchOne \/ BatchesEnd
  \/ ChunkBegins \/ ChunkOne \/ ChunksEnd
  \/ RunTasks
  \/ Done

Spec == Init /\ [][Next]_vars

-----------------------------------------------------------------------------
(* Properties *)

\* Every variable has its type, and no task is sorted or queued twice.
TypeOK ==
  /\ DOMAIN plan.deps = Tasks /\ DOMAIN plan.files = Tasks
  /\ stage \in Unsorted \cup {"sort", "refused", "checkpoint"} \cup Sorted
  /\ run.completed \subseteq Tasks /\ disk.completed \subseteq Tasks
  /\ order \in Seq(Tasks) /\ queue \in Seq(Tasks)
  /\ Len(order) + Len(queue) <= Len(Listed)
  /\ level \in [Tasks -> Nat] /\ levelled \in 0..Len(order)
  /\ now \in Nat /\ rest \subseteq Tasks
  /\ lots \in Seq(SUBSET Tasks) /\ batches \in Seq(SUBSET Tasks)
  /\ runnable \subseteq Tasks /\ width \in Nat \ {0} /\ slots \in Seq(Seq(Tasks))

\* A set of tasks each of which waits for another one of the set.
Deadlocked(C) == C # {} /\ \A t \in C : Needs(t) \cap C # {}

\* The sort refuses a plan exactly when some of its tasks wait for each other;
\* a plan it accepts is listed whole, without repetition (loop_tasks.py:29-75).
RefusedIfCyclic ==
  /\ stage = "refused" => \E C \in SUBSET Tasks : Deadlocked(C)
  /\ stage \in Sorted =>
       /\ Range(order) = Tasks /\ Len(order) = Len(Listed)
       /\ \A C \in SUBSET Tasks : ~ Deadlocked(C)

\* A task is sorted behind the tasks it depends on.
DependenciesSortedFirst ==
  \A i \in DOMAIN order : \A d \in Needs(order[i]) :
    \E j \in 1..i - 1 : order[j] = d

\* What TaskRun assumes of its schedule (ScheduleAssumption): every task is in
\* exactly one batch, behind the batches of all the tasks it depends on.
ScheduleSound ==
  stage \in {"chunk", "chunks"} =>
    /\ \A t \in Tasks : \E i \in DOMAIN batches : t \in batches[i]
    /\ \A i, j \in DOMAIN batches : i # j => batches[i] \cap batches[j] = {}
    /\ \A i \in DOMAIN batches : \A t \in batches[i] : \A d \in Needs(t) :
         \E j \in DOMAIN batches : j < i /\ d \in batches[j]

Apart(lot) ==
  \A t, u \in lot : t # u => plan.files[t] \cap plan.files[u] = {}

\* Two tasks that run concurrently declare no file in common: the tasks of a
\* batch are pairwise disjoint, not only each with its neighbour.
FilesApart == \A i \in DOMAIN batches : Apart(batches[i])

Span(cs) == MapThenSumSet(LAMBDA d : Max({plan.est[t] : t \in cs[d]}), DOMAIN cs)

\* The chunks run every runnable task once and never more than effective_parallel
\* at a time, and no task of a later chunk is estimated longer than one of the
\* first (task_scheduler.py:151-152, "the most time-consuming tasks start
\* earliest").
ChunksSound ==
  stage = "chunks" =>
    /\ UNION Range(Chunks) = runnable
    /\ \A d \in DOMAIN Chunks : Chunks[d] # {} /\ Cardinality(Chunks[d]) <= width
    /\ \A i, j \in DOMAIN slots : \A k \in DOMAIN slots[i], m \in DOMAIN slots[j] :
         slots[i][k] = slots[j][m] => i = j /\ k = m
    /\ \A d \in DOMAIN Chunks \ {1} : \A t \in Chunks[d], u \in Chunks[1] :
         plan.est[t] <= plan.est[u]

\* A task a run skips was completed by a run in this directory under the plan
\* in hand, and not only a task of another plan with the same id.  The plan is
\* the one of the cache as long as all runs have the same key and no plan had
\* to be repaired: the checkpoint does not say which plan it is of.
SkippedWasDone ==
  stage \in Sorted /\ seen.keys = {run.key} /\ ~ seen.repaired =>
    \A t \in run.completed : Work(t) \in seen.done

\* What a task wrote in this directory no later generation writes over, except
\* the specifications and the acceptance tests.
WorkSurvives ==
  [][stage # "idle" => \A f \in DOMAIN disk.files \ Generated :
       disk.files[f] = "task" => f \in DOMAIN disk'.files /\ disk'.files[f] = "task"]_vars

(* The same without the exceptions, and what else a resume leaves open.  None *)
(* of these holds.                                                            *)

SkippedAlwaysDone == stage \in Sorted => \A t \in run.completed : Work(t) \in seen.done

TestsSurvive ==
  [][stage # "idle" => \A f \in DOMAIN disk.files :
       disk.files[f] = "task" => f \in DOMAIN disk'.files /\ disk'.files[f] = "task"]_vars

\* README.md:402-403, main.py:180-183: --resume continues from the checkpoint.
ResumesInPlace == [][CommandLine /\ run'.resume => disk' = disk]_vars

\* The prompt of the plan's repair is bound.
NeverUnbound == ~ seen.unbound

\* A plan that was refused is not taken again.
NeverStuck == run.cached => plan.name \notin seen.stuck

\* Slices of the same tasks, longest first: the fallback of 192-196.
Slices ==
  LET rank(t) == Cardinality({u \in runnable : Sooner(u, t)})
      n == Cardinality(runnable)
  IN  [d \in 1..((n + width - 1) \div width) |->
         {t \in runnable : rank(t) \div width = d - 1}]

\* task_scheduler.py:175-177: the load balancing gives "a more balanced schedule"
\* than slicing; so, by the estimates, it does not take longer (it does not hold:
\* a chunk is gathered as a whole, so a slot with many short tasks waits for the
\* others at each of them).
NotSlowerThanSlices == stage = "chunks" => Span(Chunks) <= Span(Slices)
=============================================================================
