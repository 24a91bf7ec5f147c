----------------------------- MODULE Validation -----------------------------
(***************************************************************************)
(* The validation of a run, over several runs of one workspace: the        *)
(* environment is bootstrapped, every task is implemented, validated with  *)
(* the validators the gates select, and repaired until they pass or the    *)
(* limit is reached; then all validators validate the whole.  What each    *)
(* validator gave goes to the performance baseline, from which the next    *)
(* run's gate decides what may be skipped.                                 *)
(*                                                                         *)
(* `tool` is the truth about the workspace: what each validator would give *)
(* if it ran now.  Implementing and repairing change it in any way.        *)
(* Tasks run one at a time and without snapshots; TaskRun has both.        *)
(*                                                                         *)
(* A definition whose name extends that of the one after it is that        *)
(* definition with a plausible bug; only the mutation runs use it.         *)
(***************************************************************************)
EXTENDS ValidatorSelection, Functions

CONSTANTS
  Profiles,    \* the configurations explored: records, see ProfileAssumption
  Gives,       \* Gives[v]: the outcomes v can give
  Lists        \* the lists of changes a fixer asked beside others answers with

ASSUME ProfileAssumption ==
  \A p \in Profiles :
    /\ {"gate", "scope", "graph", "guard", "fixers", "enabled", "taskSoft", "finalSoft", "tasks",
        "maxFix", "maxTotal", "timed", "goOn", "rolling", "runs",
        "changes",     \* the sets of files one list of changes can touch
        "versions"}    \* the versions of requirements.txt
       = DOMAIN p
    /\ p.versions \subseteq Nat \ {0} /\ p.gate.threshold \in Nat \ {0} /\ p.gate.window \in Nat \ {0}
    /\ p.enabled \in Seq(DOMAIN Gives) /\ IsInjective(p.enabled)
    /\ \A v \in Range(p.enabled) \cup p.scope.always : Speed[v] \in Nat
    /\ IsFiniteSet(p.scope.always) /\ IsFiniteSet(DOMAIN p.graph.edges)
    /\ p.tasks \in Seq(Range(p.tasks)) /\ \A t \in Range(p.tasks) : t.focus \in Seq(Range(t.focus))
    /\ p.maxFix \in Nat /\ p.maxTotal \in Nat /\ p.rolling \in Nat \ {0} /\ p.runs \in Nat

ASSUME ListsAssumption == \A list \in Lists : list \in Seq(Range(list))

VARIABLES
  profile,   \* the quality profile and the limits of the runs
  phase,     \* where the run is
  env,       \* the virtual environment and its stamp; cut: the stamp is older than what
             \* befell the environment since, a pip that did not end or a deletion
  required,  \* the version of requirements.txt in the workspace
  tool,      \* what each validator would give now
  baseline,  \* perf_baseline.json: the results of the recorded runs
  cur,       \* the task being worked on
  job,       \* its state
  lasts,     \* the last rows of the tasks that ended
  total,     \* total_fix_loops
  repairs,   \* repair_history
  final,     \* the final validation: [rows, repaired]
  seen       \* what the properties remember of earlier runs and attempts

vars == <<profile, phase, env, required, tool, baseline, cur, job, lasts, total, repairs, final, seen>>

(* -- types -------------------------------------------------------------- *)
\* What the enabled validators may give; the others are never asked.
ToolStates ==
  LET extended(v, tools) == {f @@ (v :> o) : f \in tools, o \in Gives[v]}
  IN FoldSet(extended, {<<>>}, Range(profile.enabled))
NothingTold == [strategy |-> <<>>, hints |-> {}]
NoJob == [run |-> <<>>, soft |-> {}, rows |-> <<>>, loops |-> 0, signature |-> <<>>, repeat |-> 0,
          strikes |-> <<>>, used |-> FALSE, level |-> 0, told |-> NothingTold, asked |-> <<>>, fix |-> <<>>]
NoFinal == [rows |-> <<>>, repaired |-> FALSE]
Task == profile.tasks[cur]
stats == Stats(baseline, profile.gate.window)

Init ==
  /\ profile \in Profiles
  /\ phase = "idle" /\ cur = 1 /\ job = NoJob /\ lasts = <<>> /\ total = 0
  /\ env = [venv |-> "none", installed |-> 0, stamp |-> 0, booted |-> 0, cut |-> FALSE]
  /\ required \in profile.versions /\ tool \in ToolStates
  /\ baseline = <<>> /\ repairs = {} /\ final = NoFinal
  /\ seen = [runs |-> 0, skipped |-> [v \in DOMAIN Gives |-> 0], now |-> {}, last |-> <<>>,
             trail |-> <<>>, answers |-> <<>>]

(* -- the bootstrap: env_manager.py -------------------------------------- *)
work == <<tool, baseline, cur, job, lasts, total, repairs, final>>

RunBegins ==
  /\ phase = "idle" /\ lasts = <<>> /\ seen.runs < profile.runs
  /\ phase' = "venv" /\ seen' = [seen EXCEPT !.runs = @ + 1, !.now = {}]
  /\ UNCHANGED <<profile, env, required, work>>

(* ensure_venv looks for the interpreter only; it is there before pip is.  *)
EnsureVenv ==
  /\ phase = "venv"
  /\ IF env.venv = "none" THEN /\ env' = [env EXCEPT !.venv = "bare", !.installed = 0] /\ phase' = "making"
                          ELSE phase' = "install" /\ UNCHANGED env
  /\ UNCHANGED <<profile, required, work, seen>>

VenvMade ==
  /\ phase = "making"
  /\ env' = [env EXCEPT !.venv = "ready"] /\ phase' = "install"
  /\ UNCHANGED <<profile, required, work, seen>>

Booted(e) == [e EXCEPT !.booted = required]

(* install_requirements: nothing to do when the stamp names the            *)
(* interpreter and the requirements as they are.                           *)
StampCurrentAnyVersion == env.venv # "none" /\ env.stamp # 0
StampCurrent == env.venv # "none" /\ env.stamp = required

AlreadyInstalled ==
  /\ phase = "install" /\ StampCurrent
  /\ env' = Booted(env) /\ phase' = "tasks"
  /\ UNCHANGED <<profile, required, work, seen>>

\* pip may fail, and then the run ends; what it had installed stays.
PipInstalls ==
  /\ phase = "install" /\ ~ StampCurrent
  /\ \/ /\ env.venv = "ready"
        /\ env' = [env EXCEPT !.installed = required, !.cut = TRUE] /\ phase' = "stamp"
     \/ env' = [env EXCEPT !.cut = TRUE] /\ phase' = "idle"
  /\ UNCHANGED <<profile, required, work, seen>>

WriteStamp ==
  /\ phase = "stamp"
  /\ env' = Booted([env EXCEPT !.stamp = required, !.cut = FALSE]) /\ phase' = "tasks"
  /\ UNCHANGED <<profile, required, work, seen>>

(* -- a task -------------------------------------------------------------- *)
Base == Resolved(Task.focus, profile.enabled)

(* select_validators for the next task, then its implementation and, over  *)
(* the files it changed, apply_smart_scope.                                *)
Selected == SelectValidators(profile.gate, stats, Base, Task.focus # <<>>, Task.files, profile.taskSoft)

\* What the gate, and only it, kept from running: its history is the reason.
GateSkips ==
  {v \in Range(Base) \ Range(Selected.run) : Task.files = {} \/ Relevant(v, Task.files)}

Changed(files) ==
  /\ tool' \in ToolStates
  /\ IF "requirements.txt" \in files THEN required' \in profile.versions ELSE UNCHANGED required

Implement ==
  /\ phase = "tasks" /\ cur <= Len(profile.tasks)
  /\ \E files \in profile.changes :
       /\ Changed(files)
       /\ job' = [NoJob EXCEPT !.run = Scoped(profile.scope, Selected.run, files),
                               !.soft = profile.taskSoft \cup Selected.promoted]
  /\ phase' = "validate" /\ seen' = [seen EXCEPT !.now = @ \cup GateSkips, !.trail = <<>>]
  /\ UNCHANGED <<profile, env, baseline, cur, lasts, total, repairs, final>>

(* -- validating: first all, then what failed ----------------------------- *)
OkRows(rows) == LET good(r) == r.ok IN Those(rows, good)
ByName(rows) == [v \in Names(rows) |-> rows[CHOOSE i \in DOMAIN rows : rows[i].name = v]]
Skipped(v) ==
  [name |-> v, ok |-> FALSE, status |-> "skipped_dependency", class |-> "skipped_dependency",
   marks |-> {}, files |-> {}]

(* The validators `names` in order, each skipped or run; a prerequisite's  *)
(* row is the one made before it here, or else one of `known`.             *)
NextRow(rows, known, v) ==
  LET done == [x \in Names(rows) \cup Names(known) |->
                 IF x \in Names(rows) THEN ByName(rows)[x] ELSE ByName(known)[x]]
  IN IF ShouldSkip(profile.graph, v, done, job.soft) THEN Skipped(v) ELSE RunOne(v, tool[v])

InOrder(names, known) ==
  LET order == ExecutionOrder(profile.graph, stats, names)
      made[n \in 0..Len(order)] ==
        IF n = 0 THEN <<>>
        ELSE LET rows == made[n - 1] IN Append(rows, NextRow(rows, known, order[n]))
  IN made[Len(order)]

FirstRows ==
  IF profile.graph.mode = "off" THEN RunAll(job.run, job.soft, tool) ELSE InOrder(job.run, <<>>)

(* After a repair: what failed, or everything once a row was skipped.  The *)
(* skip check starts from the rows that had passed; a fresh row replaces   *)
(* the one of its name.                                                    *)
RerunFailedOnly ==
  LET failed(v) == \E i \in DOMAIN job.rows : /\ job.rows[i].name = v /\ ~ job.rows[i].ok
                                              /\ job.rows[i].status # "skipped_dependency"
      some == Those(job.run, failed)
  IN IF some = <<>> THEN job.run ELSE some

Rerun ==
  LET failed(v) == \E i \in DOMAIN job.rows : /\ job.rows[i].name = v /\ ~ job.rows[i].ok
                                              /\ job.rows[i].status # "skipped_dependency"
      some == Those(job.run, failed)
      skips == \E i \in DOMAIN job.rows : job.rows[i].status = "skipped_dependency"
  IN IF skips \/ some = <<>> THEN job.run ELSE some

Fresh ==
  IF profile.graph.mode = "off" THEN [i \in DOMAIN Rerun |-> RunOne(Rerun[i], tool[Rerun[i]])]
  ELSE InOrder(Rerun, OkRows(job.rows))

(* _merge_validation_rows *)
Merge(previous, fresh) ==
  LET known(v) == v \in Names(previous) \cup Names(fresh)
      order == Those(job.run, known)
  IN [i \in DOMAIN order |->
        LET v == order[i] IN IF v \in Names(fresh) THEN ByName(fresh)[v] ELSE ByName(previous)[v]]

NewRows == IF job.rows = <<>> THEN FirstRows ELSE Merge(job.rows, Fresh)

(* _validations_ok *)
BlocksButMissing(row, soft) ==
  row.name \notin soft /\ row.status # "skipped_dependency" /\ row.class # "tool_unavailable" /\ ~ row.ok
Blocks(row, soft) == row.name \notin soft /\ row.status # "skipped_dependency" /\ ~ row.ok
ValidationsOk(rows, soft) == \A i \in DOMAIN rows : ~ Blocks(rows[i], soft)

(* A passing task records, for the hints of later tasks, the failures its  *)
(* last repair was asked to fix.                                           *)
Ended(rows) == lasts' = Append(lasts, rows) /\ cur' = cur + 1 /\ job' = NoJob

Validate ==
  /\ phase = "validate"
  /\ IF ValidationsOk(NewRows, job.soft)
     THEN /\ Ended(NewRows) /\ phase' = "tasks"
          /\ repairs' = repairs \cup Outcomes(cur, job.rows)
     ELSE /\ job' = [job EXCEPT !.rows = NewRows] /\ phase' = "failed"
          /\ UNCHANGED <<lasts, cur, repairs>>
  /\ seen' = [seen EXCEPT !.trail = Append(@, Signature(NewRows))]
  /\ UNCHANGED <<profile, env, required, tool, baseline, total, final>>

(* The fail-fast threshold, then the limits on repairs, then the time      *)
(* budget, which may run out at any attempt when there is one.             *)
FailsFast == job.loops >= 3
OverLimit == job.loops + 1 > profile.maxFix \/ total + 1 > profile.maxTotal

TaskFails ==
  /\ phase = "failed" /\ (FailsFast \/ OverLimit \/ profile.timed)
  /\ total' = IF FailsFast THEN total ELSE total + 1
  /\ Ended(job.rows) /\ phase' = IF profile.goOn THEN "tasks" ELSE "idle"
  /\ UNCHANGED <<profile, env, required, tool, baseline, repairs, final, seen>>

(* -- repairing ------------------------------------------------------------ *)
\* How often in a row the same failures came back.
Repeats(signature) ==
  IF signature # <<>> /\ signature = job.signature THEN job.repeat + 1 ELSE 0

AskFixer ==
  /\ phase = "failed" /\ ~ FailsFast /\ ~ OverLimit
  /\ LET signature == Signature(job.rows)
         same == signature # <<>> /\ signature = job.signature
         repeat == Repeats(signature)
         strikes == Strikes(job.strikes, AllPrints(job.rows))
         e == Escalation(profile.guard, repeat, strikes, same, job.used)
     IN job' = [job EXCEPT !.loops = @ + 1, !.signature = signature, !.repeat = repeat,
                           !.strikes = strikes, !.level = e.level,
                           !.used = @ \/ e.mode # "normal",
                           !.told = [strategy |-> Strategy(job.rows), hints |-> Hints(repairs, job.rows)],
                           !.asked = AskedGroups(profile.fixers, job.rows)]
  /\ total' = total + 1 /\ phase' = "asked"
  /\ UNCHANGED <<profile, env, required, tool, baseline, cur, lasts, repairs, final, seen>>

(* The fixers asked at once answer, or some fail; when all do, one is      *)
(* asked for everything.                                                   *)
FixersAnswer ==
  /\ phase = "asked" /\ job.asked # <<>>
  /\ \E reply \in [DOMAIN job.asked -> Lists \cup {<<>>}] :
       LET answers == [k \in {k \in DOMAIN reply : reply[k] # <<>>} |->
                         [category |-> job.asked[k].category, changes |-> reply[k]]]
       IN IF answers = <<>> THEN job' = [job EXCEPT !.asked = <<>>] /\ phase' = "asked" /\ UNCHANGED seen
          ELSE /\ job' = [job EXCEPT !.fix = Merged(answers)] /\ phase' = "fixed"
               /\ seen' = [seen EXCEPT !.answers = answers]
  /\ UNCHANGED <<profile, env, required, tool, baseline, cur, lasts, total, repairs, final>>

ApplyFix ==
  /\ \/ phase = "asked" /\ job.asked = <<>> /\ \E files \in profile.changes : Changed(files)
     \/ phase = "fixed" /\ Changed(DOMAIN job.fix)
  /\ job' = [job EXCEPT !.told = NothingTold, !.asked = <<>>, !.fix = <<>>] /\ phase' = "validate"
  /\ seen' = [seen EXCEPT !.answers = <<>>]
  /\ UNCHANGED <<profile, env, baseline, cur, lasts, total, repairs, final>>

(* -- the final validation ------------------------------------------------- *)
FinalOk == ValidationsOk(final.rows, profile.finalSoft)

PerfGates == {"perf_gate", "latency_gate"}   \* the names holding one of the four words
PerfFailures(rows) ==
  LET perf(r) == ~ r.ok /\ r.name \in PerfGates IN Those(rows, perf)

FinalValidation ==
  /\ phase = "tasks" /\ cur > Len(profile.tasks)
  /\ final' = [NoFinal EXCEPT !.rows = RunAll(profile.enabled, profile.finalSoft, tool)]
  /\ phase' = "final"
  /\ UNCHANGED <<profile, env, required, tool, baseline, cur, job, lasts, total, repairs, seen>>

(* One repair of a performance regression, after which only the validators *)
(* that flagged it run again, and their rows are the final ones.           *)
PerfRepairDue ==
  ~ FinalOk /\ PerfFailures(final.rows) # <<>> /\ ~ final.repaired /\ total < profile.maxTotal

PerfRepair ==
  /\ phase = "final" /\ PerfRepairDue
  /\ \E files \in profile.changes : Changed(files)
  /\ LET failed == PerfFailures(final.rows)
         again == [i \in DOMAIN failed |-> failed[i].name]
     IN final' = [rows |-> RunAll(again, profile.finalSoft, tool'), repaired |-> TRUE]
  /\ total' = total + 1
  /\ UNCHANGED <<profile, phase, env, baseline, cur, job, lasts, repairs, seen>>

(* record_and_check appends the results of the run to the baseline, which  *)
(* keeps the most recent runs.                                             *)
Record(runs, entry) == Recent(Append(runs, entry), profile.rolling)

RunEnds ==
  /\ phase = "final" /\ ~ PerfRepairDue
  /\ baseline' = Record(baseline, Collected(lasts))
  /\ phase' = "ended"
  /\ seen' = [seen EXCEPT !.skipped = [v \in DOMAIN @ |->
                 IF v \in DOMAIN Collected(lasts) THEN 0 ELSE IF v \in seen.now THEN @[v] + 1 ELSE @[v]]]
  /\ UNCHANGED <<profile, env, required, tool, cur, job, lasts, total, repairs, final>>

(* -- between runs ---------------------------------------------------------- *)
\* What a validator last gave in a task of a run, whether recorded or not.
Remember(rows) == [v \in DOMAIN rows \cup DOMAIN seen.last |->
                     IF v \in DOMAIN rows THEN rows[v] ELSE seen.last[v]]

Cleared == cur' = 1 /\ job' = NoJob /\ lasts' = <<>> /\ total' = 0
           /\ repairs' = {} /\ final' = NoFinal

Leave ==
  /\ phase = "ended" \/ (phase = "idle" /\ lasts # <<>>)
  /\ phase' = "idle" /\ Cleared
  /\ seen' = [seen EXCEPT !.last = Remember(Collected(lasts)), !.trail = <<>>]
  /\ UNCHANGED <<profile, env, required, tool, baseline>>

Crash ==
  /\ phase \notin {"idle", "ended"}
  /\ phase' = "idle" /\ Cleared
  /\ seen' = [seen EXCEPT !.trail = <<>>, !.answers = <<>>]
  /\ UNCHANGED <<profile, env, required, tool, baseline>>

Edit ==
  /\ phase = "idle" /\ lasts = <<>>
  /\ \/ required' \in profile.versions /\ UNCHANGED env
     \/ /\ env.venv # "none"
        /\ env' = [env EXCEPT !.venv = "none", !.installed = 0, !.cut = env.stamp # 0]
        /\ UNCHANGED required
  /\ UNCHANGED <<profile, phase, work, seen>>

Next ==
  \/ RunBegins \/ EnsureVenv \/ VenvMade \/ AlreadyInstalled \/ PipInstalls \/ WriteStamp
  \/ Implement \/ Validate \/ TaskFails \/ AskFixer \/ FixersAnswer \/ ApplyFix
  \/ FinalValidation \/ PerfRepair \/ RunEnds \/ Leave \/ Crash \/ Edit

Spec == Init /\ [][Next]_vars

(* -- properties --------------------------------------------------------- *)
\* Once a run is past its bootstrap, the environment holds the requirements
\* as the bootstrap found them: a stamp is believed only for what it was
\* written for.  Excused is a stamp that stays from before a pip that failed or
\* died, or from before the environment was deleted (see StampIsTrue).
EnvCurrent ==
  phase \in {"tasks", "validate", "failed", "asked", "fixed", "final"} =>
    env.installed = env.booted \/ env.cut

\* A task passes only when every hard validator of its run set has a passed
\* row, whatever was skipped behind a failed prerequisite, rerun or kept.
\* Excused: skip_on_soft_fail (see SkipsAreHarmless).
PassIsEarned ==
  [][phase = "validate" /\ phase' = "tasks" /\ ~ profile.graph.soft =>
       \A v \in Range(job.run) \ job.soft : \E r \in Range(Last(lasts')) : r.name = v /\ r.ok]_vars

\* A validator that failed when a task last ran it is neither skipped nor
\* made soft by the gate of the next run: no older passes outweigh it.
\* Excused: a run that stops at its first failed task (see FailureAlwaysFelt).
FailureIsFelt ==
  phase = "tasks" /\ cur <= Len(profile.tasks) /\ profile.goOn =>
    \A v \in DOMAIN seen.last : ~ seen.last[v] => v \notin Selected.promoted \cup GateSkips

\* The gate keeps a validator from running in a bounded number of recorded
\* runs in a row, for its own skips push the passes out of the window.
SkipsAreBounded ==
  \A v \in DOMAIN seen.skipped :
    seen.skipped[v] <= IF profile.gate.threshold > profile.gate.window THEN 0
                       ELSE profile.gate.window - profile.gate.threshold + 1

\* Whatever the gates skipped, narrowed and made soft on the way, a run whose
\* final validation passed leaves a workspace every hard validator accepts.
\* Excused: a repaired performance regression (see CompletedAlwaysSound).
CompletedIsSound ==
  phase = "ended" /\ FinalOk /\ ~ final.repaired =>
    \A v \in Range(profile.enabled) \ profile.finalSoft : RunOne(v, tool[v]).ok

\* How hard the fixer is told to try is what the attempts so far call for:
\* with the guard on, surgical exactly when the same failures came back more
\* than max_retries times, or that often and one error is in the last three
\* attempts; targeted at least when either holds alone.
Same(i, j) == Range(seen.trail[i]) = Range(seen.trail[j])
Returns ==
  LET n == Len(seen.trail)
  IN Cardinality({k \in 1..n - 1 : \A i \in k..n : Same(i, n)})
Lasting ==
  LET n == Len(seen.trail)
      prints(i) == UNION {e[3] : e \in Range(seen.trail[i])}
  IN n >= 3 /\ prints(n) \cap prints(n - 1) \cap prints(n - 2) # {}

EscalationTrue ==
  phase = "asked" /\ profile.guard.enabled =>
    LET retries == profile.guard.retries IN
    /\ job.level = 2 <=> Returns > retries \/ (Returns = retries /\ Lasting)
    /\ job.level >= 1 <=> Returns >= retries \/ Lasting

\* Fixers that work at once are given no file in common, and what is applied
\* to a path comes from one of them, the most urgent that changed it.
FixersApart ==
  /\ \A i, j \in DOMAIN job.asked : i # j => job.asked[i].files \cap job.asked[j].files = {}
  /\ phase = "fixed" =>
       \A p \in DOMAIN job.fix : \E a \in Range(seen.answers) :
         /\ job.fix[p] # <<>> /\ Range(job.fix[p]) \subseteq Range(ChangesTo(a, p))
         /\ \A b \in Range(seen.answers) :
              ChangesTo(b, p) # <<>> => Priority(a.category) <= Priority(b.category)

(* -- what the code does not do; the runs that show it are not listed -------*)
\* The stamp says what is installed.
StampIsTrue == env.stamp # 0 => env.stamp = env.installed

\* No row of a passing task is older than the last repair.
PassRowsCurrent ==
  [][phase = "validate" /\ phase' = "tasks" =>
       \A r \in Range(Last(lasts')) : r.ok => RunOne(r.name, tool[r.name]).ok]_vars

\* A validator skipped behind a soft failure still has to pass.
SkipsAreHarmless ==
  [][phase = "validate" /\ phase' = "tasks" =>
       \A v \in Range(job.run) \ job.soft : \E r \in Range(Last(lasts')) : r.name = v /\ r.ok]_vars

\* A run that stops early hides no failure from the next gate.
FailureAlwaysFelt ==
  phase = "tasks" /\ cur <= Len(profile.tasks) =>
    \A v \in DOMAIN seen.last : ~ seen.last[v] => v \notin Selected.promoted \cup GateSkips

CompletedAlwaysSound ==
  phase = "ended" /\ FinalOk =>
    \A v \in Range(profile.enabled) \ profile.finalSoft : RunOne(v, tool[v]).ok

\* All that the chosen fixer changed in a file is applied.
MergeIsWhole ==
  phase = "fixed" =>
    \A p \in DOMAIN job.fix : \E a \in Range(seen.answers) : job.fix[p] = ChangesTo(a, p)

\* Validators run with the requirements of the workspace installed.
TestsSeeRequirements == phase = "validate" => env.installed = required \/ env.cut

\* An enabled validator can run.
EnabledCanRun == \A v \in Range(profile.enabled) : v # "dependency_lock" => Available(Command(v))
=============================================================================
