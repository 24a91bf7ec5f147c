----------------------------- MODULE Generation -----------------------------
(***************************************************************************)
(* From a PRD to the plan a run works on, over the runs of one workspace:  *)
(* the generation cache, the specifications and tests the model writes,    *)
(* the template, the file patterns of the tasks and the checkpoint a       *)
(* resumed run starts from.  TaskPlan continues with the plan's schedule.  *)
(*                                                                         *)
(* Every answer of the model may fail and end the run.  What the PRD, the  *)
(* validators and the quality profile of a run come to is its `key`; the   *)
(* strategy of an autonomous attempt is part of its quality profile.       *)
(*                                                                         *)
(* A definition whose name extends that of the one after it is that        *)
(* definition with a plausible bug; only the mutation runs use it.         *)
(***************************************************************************)
EXTENDS Naturals, Sequences, FiniteSets, Functions

CONSTANTS
  Tasks,     \* the task ids
  Plans,     \* the plans explored: records [name, type, deps, files, est]
  Scenes,    \* what may happen to a workspace: records, see SceneAssumption
  Matches,   \* Matches[g]: the files the pattern g matches
  Template,  \* Template[type]: the files of the template of a project type
  TestOf     \* TestOf[t]: the file of t's acceptance tests, named after t

API_SPEC  == "openapi.yaml"
DB_MODELS == "src/app/db/models.py"
Generated == {API_SPEC, DB_MODELS} \cup Range(TestOf)

ASSUME SceneAssumption ==
  \A s \in Scenes :
    /\ s.answers \subseteq Plans            \* the plans the planner may answer with
    /\ s.keys # {}                        \* the keys the runs may have
    /\ s.resume \subseteq BOOLEAN          \* how the command line is called
    /\ s.specs \subseteq Generated         \* the specifications that may be written
    /\ s.tested \subseteq SUBSET DOMAIN TestOf  \* the tasks that may get acceptance tests
    /\ s.runs \in Nat                      \* the bound on the runs

VARIABLES
  scene,  \* the scene being played
  stage,  \* where the run is, from "idle" over those of TaskPlan to "idle"
  plan,   \* the plan in hand
  run,    \* the run: its key, whether it resumes, and what it holds in memory
  disk,   \* the workspace: the cache, the completed tasks of the checkpoint,
          \* and who wrote each file last
  seen    \* history: what the runs in this directory did

NoPlan == [name |-> "", type |-> "", deps |-> [t \in Tasks |-> {}],
           files |-> [t \in Tasks |-> {}], est |-> [t \in Tasks |-> 1]]
NoRun  == [n |-> 0, key |-> 0, resume |-> FALSE, cached |-> FALSE, type |-> "", completed |-> {}]

\* An unreadable cache is none, and an unreadable checkpoint completes nothing.
EmptyDisk == [cache |-> {}, completed |-> {}, files |-> <<>>]
Unseen == [done |-> {}, keys |-> {}, repaired |-> FALSE, unbound |-> FALSE, stuck |-> {}]

GenerationInit ==
  /\ scene \in Scenes /\ stage = "idle" /\ plan = NoPlan
  /\ run = NoRun /\ disk = EmptyDisk /\ seen = Unseen

Goto(here, there) == stage = here /\ stage' = there
Write(f, who) == [disk EXCEPT !.files = [g \in DOMAIN @ \cup {f} |-> IF g = f THEN who ELSE @[g]]]
Idle == stage' = "idle" /\ plan' = NoPlan /\ run' = [NoRun EXCEPT !.n = run.n]

-----------------------------------------------------------------------------
(* A run begins: `autodev`, or the first attempt of an autonomous session,  *)
(* always in a new directory; a later attempt in the directory of its      *)
(* session, and with resume.                                               *)
Begin(key, resume) ==
  /\ Goto("idle", "cache") /\ run.n < scene.runs
  /\ run' = [NoRun EXCEPT !.n = run.n + 1, !.key = key, !.resume = resume]

CommandLine ==
  /\ \E key \in scene.keys, resume \in scene.resume : Begin(key, resume)
  /\ disk' = EmptyDisk /\ seen' = [Unseen EXCEPT !.keys = {run'.key}]
  /\ UNCHANGED <<scene, plan>>

Attempt ==
  /\ run.n > 0
  /\ \E key \in scene.keys : Begin(key, TRUE)
  /\ seen' = [seen EXCEPT !.keys = @ \cup {run'.key}]
  /\ UNCHANGED <<scene, plan, disk>>

UseCachedNever == FALSE
UseCached == \E c \in disk.cache : c.key = run.key

TakeCached ==
  /\ Goto("cache", "scaffold") /\ UseCached
  /\ \E c \in disk.cache : plan' = c.plan
  /\ run' = [run EXCEPT !.cached = TRUE]
  /\ UNCHANGED <<scene, disk, seen>>

\* The PRD is analysed, normalised and given an architecture.
Analyse ==
  /\ Goto("cache", "specs") /\ ~ UseCached
  /\ UNCHANGED <<scene, plan, run, disk, seen>>

\* The specifications, when the architecture calls for them; each is written
\* as soon as it is there.
ApiSpec ==
  /\ Goto("specs", "models") /\ UNCHANGED <<scene, plan, run, seen>>
  /\ \/ API_SPEC \in scene.specs /\ disk' = Write(API_SPEC, "generator")
     \/ UNCHANGED disk

DbModels ==
  /\ Goto("models", "plan") /\ UNCHANGED <<scene, plan, run, seen>>
  /\ \/ DB_MODELS \in scene.specs /\ disk' = Write(DB_MODELS, "generator")
     \/ UNCHANGED disk

\* The plan is cached as it was answered, before its patterns are resolved.
MakePlan ==
  /\ Goto("plan", "scaffold")
  /\ \E p \in scene.answers :
       plan' = p /\ disk' = [disk EXCEPT !.cache = {[key |-> run.key, plan |-> p]}]
  /\ UNCHANGED <<scene, run, seen>>

-----------------------------------------------------------------------------
ScaffoldedAnew ==
  [f \in DOMAIN disk.files \cup Template[plan.type] |->
     IF f \in Template[plan.type] THEN "template" ELSE disk.files[f]]

\* apply_template leaves what exists alone.
Scaffolded ==
  [f \in DOMAIN disk.files \cup Template[plan.type] |->
     IF f \in DOMAIN disk.files THEN disk.files[f] ELSE "template"]

Scaffold ==
  /\ Goto("scaffold", "files")
  /\ disk' = [disk EXCEPT !.files = Scaffolded]
  /\ run' = [run EXCEPT !.type = plan.type]
  /\ UNCHANGED <<scene, plan, seen>>

Patterns == DOMAIN Matches
Matched(g) == Matches[g] \cap DOMAIN disk.files
Resolvable(p) == \A t \in Tasks : \A g \in p.files[t] \cap Patterns : Matched(g) # {}

\* _canonicalize_task_files
Canonical(p) ==
  [p EXCEPT !.files = [t \in Tasks |->
     (p.files[t] \ Patterns) \cup UNION {Matched(g) : g \in p.files[t] \cap Patterns}]]

ResolveFiles ==
  /\ Goto("files", "tests") /\ Resolvable(plan)
  /\ plan' = Canonical(plan)
  /\ UNCHANGED <<scene, run, disk, seen>>

(* A pattern matches nothing: the planner is asked for another plan of the *)
(* same project type.  Its prompt is a local that only MakePlan's branch   *)
(* binds; with a cached plan the run ends in an UnboundLocalError.         *)
Accepts(p) == p.type = run.type /\ Resolvable(p)

RepairPlan ==
  /\ Goto("files", "tests") /\ ~ Resolvable(plan) /\ ~ run.cached
  /\ \E p \in scene.answers : Accepts(p) /\ plan' = Canonical(p)
  /\ seen' = [seen EXCEPT !.repaired = TRUE]
  /\ UNCHANGED <<scene, run, disk>>

PromptUnbound ==
  /\ stage = "files" /\ ~ Resolvable(plan) /\ run.cached
  /\ Idle
  /\ seen' = [seen EXCEPT !.unbound = TRUE, !.stuck = @ \cup {plan.name}]
  /\ UNCHANGED <<scene, disk>>

(* Acceptance tests are written for the tasks one by one, in every run and *)
(* over what is there, and join the task's files.                          *)
Tested(S) ==
  [f \in DOMAIN disk.files \cup {TestOf[t] : t \in S} |->
     IF f \in {TestOf[t] : t \in S} THEN "generator" ELSE disk.files[f]]

AcceptanceTests ==
  /\ Goto("tests", "planned")
  /\ \E S \in scene.tested :
       /\ disk' = [disk EXCEPT !.files = Tested(S)]
       /\ plan' = [plan EXCEPT !.files = [t \in Tasks |->
                     IF t \in S THEN @[t] \cup {TestOf[t]} ELSE @[t]]]
  /\ UNCHANGED <<scene, run, seen>>

-----------------------------------------------------------------------------
(* After the sort: without resume the checkpoint is emptied, with it its   *)
(* completed ids are taken for the plan in hand, whichever plan they are   *)
(* of.                                                                     *)
CheckpointRead == IF run.resume THEN disk.completed ELSE {}

LoadCheckpoint ==
  /\ Goto("checkpoint", "level")
  /\ run' = [run EXCEPT !.completed = CheckpointRead]
  /\ disk' = [disk EXCEPT !.completed = CheckpointRead]
  /\ UNCHANGED <<scene, plan, seen>>

(* What TaskRun is about: some tasks that are not completed are, each      *)
(* behind those it depends on, and write their files.                      *)
Work(t) == [plan |-> plan.name, task |-> t]

Completable(S) ==
  \A t \in S : plan.deps[t] \cap Tasks \subseteq run.completed \cup S

CompletesTasks ==
  \E S \in SUBSET (Tasks \ run.completed) :
    LET written == UNION {plan.files[t] : t \in S}
    IN /\ Completable(S)
       /\ disk' = [disk EXCEPT
            !.completed = @ \cup S,
            !.files = [f \in DOMAIN @ \cup written |-> IF f \in written THEN "task" ELSE @[f]]]
       /\ seen' = [seen EXCEPT !.done = @ \cup {Work(t) : t \in S}]

-----------------------------------------------------------------------------
(* An answer that cannot be repaired, a no of the operator, a death: the   *)
(* run ends with what is on disk.                                          *)
Generating == {"cache", "specs", "models", "plan", "scaffold", "files", "tests",
               "planned", "checkpoint"}

Stops ==
  /\ stage \in Generating
  /\ Idle /\ UNCHANGED <<scene, disk, seen>>

\* The acceptance tests of some tasks are written when it ends.
StopsInTests ==
  /\ stage = "tests"
  /\ \E S \in scene.tested : disk' = [disk EXCEPT !.files = Tested(S)]
  /\ Idle /\ UNCHANGED <<scene, seen>>

\* A death inside the write of the cache or of the checkpoint.
TornCache ==
  /\ stage = "plan"
  /\ disk' = [disk EXCEPT !.cache = {}]
  /\ Idle /\ UNCHANGED <<scene, seen>>

TornCheckpoint ==
  /\ stage = "checkpoint"
  /\ disk' = [disk EXCEPT !.completed = {}]
  /\ Idle /\ UNCHANGED <<scene, seen>>

GenerationNext ==
  \/ CommandLine \/ Attempt
  \/ TakeCached \/ Analyse \/ ApiSpec \/ DbModels \/ MakePlan
  \/ Scaffold \/ ResolveFiles \/ RepairPlan \/ PromptUnbound \/ AcceptanceTests
  \/ LoadCheckpoint
  \/ Stops \/ StopsInTests \/ TornCache \/ TornCheckpoint
=============================================================================
