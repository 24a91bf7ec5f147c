------------------------- MODULE ValidatorSelection -------------------------
(***************************************************************************)
(* Which validators a task runs, and in which order: the adaptive gate     *)
(* (adaptive_gate.py), the smart scope (smart_scope.py) and the dependency *)
(* graph (validator_graph.py), with the profile sections as records:       *)
(*   gate  = [mode, threshold, window, never]   mode "off" when disabled   *)
(*   scope = [mode, always, mapping]                                       *)
(*   graph = [mode, soft, edges]                                           *)
(*                                                                         *)
(* A definition whose name extends that of the one after it is that        *)
(* definition with a plausible bug; only the mutation runs use it.         *)
(***************************************************************************)
EXTENDS FailureAnalysis

CONSTANTS
  Kinds(_),     \* the extension and the basename of a file, a set
  Paired(_),    \* the test of a source file, or the source of a test
  Speed         \* Speed[v]: the average duration of v in the baseline

FALLBACK == <<"ruff", "mypy", "pytest", "pip_audit", "bandit", "semgrep", "sbom", "docker_build">>

(* _ordered_unique *)
OrderedUnique(s) == Kept(s, {i \in DOMAIN s : \A j \in 1..i - 1 : s[j] # s[i]})

(* _resolve_validators; those enabled are there once.                      *)
Resolved(focus, enabled) ==
  LET on(v) == Contains(enabled, v)
      focused == Those(OrderedUnique(focus), on)
      known == Those(FALLBACK, on)
  IN IF focused # <<>> THEN focused ELSE IF known # <<>> THEN known ELSE enabled

Relevance ==
  LET py == {".py"} IN
  [ruff |-> py, mypy |-> py, pytest |-> py, bandit |-> py,
   pip_audit |-> {"requirements.txt", "setup.py", "pyproject.toml", "setup.cfg"},
   semgrep |-> {".py", ".js", ".ts", ".go", ".yml", ".yaml"},
   docker_build |-> {"Dockerfile", "docker-compose.yml", "docker-compose.yaml"},
   sbom |-> {"requirements.txt", "package.json", "pyproject.toml"},
   dependency_lock |-> {"requirements.txt", "requirements-dev.txt", "pyproject.toml"}]

Relevant(v, files) ==
  v \in DOMAIN Relevance => \E f \in files : Kinds(f) \cap Relevance[v] # {}

(* -- the history of a validator: load_validator_stats -------------------- *)
\* runs: the baseline's runs, oldest first; each a function from the
\* validators it has results for to whether they passed.
RecentAll(runs, window) == runs
Recent(runs, window) ==
  IF Len(runs) > window THEN SubSeq(runs, Len(runs) - window + 1, Len(runs)) ELSE runs

\* The runs with a result of v; in which of them it passed, and in which it
\* did and in every later one.
Ran(runs, v) == {i \in DOMAIN runs : v \in DOMAIN runs[i]}
Passes(runs, v) == {i \in Ran(runs, v) : runs[i][v]}
ConsecutivePasses(runs, v) == Passes(runs, v)
Consecutive(runs, v) == {i \in Ran(runs, v) : \A j \in Ran(runs, v) : i <= j => runs[j][v]}

Stats(runs, window) ==
  LET recent == Recent(runs, window)
  IN [v \in UNION {DOMAIN recent[i] : i \in DOMAIN recent} |->
        [total |-> Cardinality(Ran(recent, v)), passes |-> Cardinality(Passes(recent, v)),
         streak |-> Cardinality(Consecutive(recent, v))]]

(* -- order ----------------------------------------------------------------*)
\* A stable sort: the i-th is the one that i - 1 others come before.
Sorted(s, Key(_), Less(_, _)) ==
  LET before(j, k) == \/ Less(Key(s[j]), Key(s[k]))
                      \/ ~ Less(Key(s[k]), Key(s[j])) /\ j < k
      place(k) == Cardinality({j \in DOMAIN s : before(j, k)}) + 1
  IN [i \in DOMAIN s |-> s[CHOOSE k \in DOMAIN s : place(k) = i]]

(* _priority_sort: recently failed first, then the lower pass rate, then   *)
(* the faster; a validator without history has the middle rate.            *)
Signal(stats, v) ==
  IF v \notin DOMAIN stats THEN [calm |-> 1, passes |-> 1, of |-> 2, speed |-> 0]
  ELSE [calm |-> IF stats[v].streak = 0 /\ stats[v].passes < stats[v].total THEN 0 ELSE 1,
        passes |-> stats[v].passes, of |-> stats[v].total, speed |-> Speed[v]]

Sooner(a, b) ==
  \/ a.calm < b.calm
  \/ a.calm = b.calm /\ \/ a.passes * b.of < b.passes * a.of
                        \/ a.passes * b.of = b.passes * a.of /\ a.speed < b.speed

PrioritySorted(s, stats) == LET key(v) == Signal(stats, v) IN Sorted(s, key, Sooner)

(* -- select_validators --------------------------------------------------- *)
Steady(gate, stats, v) ==
  /\ gate.mode \in {"balanced", "aggressive"}
  /\ v \in DOMAIN stats /\ stats[v].streak >= gate.threshold
  /\ v \notin gate.never

SelectValidators(gate, stats, base, focused, files, soft) ==
  IF gate.mode = "off" THEN [run |-> base, promoted |-> {}]
  ELSE IF focused THEN [run |-> PrioritySorted(base, stats), promoted |-> {}]
  ELSE LET relevant(v) == files = {} \/ Relevant(v, files)
           kept(v) == relevant(v) /\ ~ (gate.mode = "aggressive" /\ Steady(gate, stats, v))
           some == Those(base, kept)
           least == IF Contains(base, "ruff") THEN <<"ruff">> ELSE Kept(base, {1} \cap DOMAIN base)
       IN [run |-> PrioritySorted(IF some # <<>> THEN some ELSE least, stats),
           promoted |-> IF gate.mode # "balanced" THEN {}
                        ELSE {v \in Range(some) \ soft : Steady(gate, stats, v)}]

(* -- apply_smart_scope ---------------------------------------------------- *)
Scoped(scope, run, changed) ==
  LET files == changed \cup IF scope.mapping THEN UNION {Paired(f) : f \in changed} ELSE {}
      keep(v) == v \in scope.always \/ Relevant(v, files)
      narrow == Those(run, keep)
      missing(v) == ~ Contains(run, v)
  IN CASE scope.mode = "off" \/ changed = {} -> run
       [] scope.mode = "conservative" -> run \o Those(SetToSeq(scope.always), missing)
       [] OTHER -> IF narrow # <<>> THEN narrow ELSE run

(* -- the dependency graph --------------------------------------------------*)
StaticEdges == [mypy |-> {"ruff"}, pytest |-> {"ruff", "mypy"}, bandit |-> {"ruff"}]
Prerequisites(graph, v) ==
  (IF v \in DOMAIN StaticEdges THEN StaticEdges[v] ELSE {})
    \cup (IF v \in DOMAIN graph.edges THEN graph.edges[v] ELSE {})
Dependents(graph) ==
  LET new(v) == v \notin DOMAIN StaticEdges
  IN <<"mypy", "pytest", "bandit">> \o Those(SetToSeq(DOMAIN graph.edges), new)

\* What v waits for in `run`; and _avg_duration, by which the queue is sorted.
Needs(graph, run, v) == Prerequisites(graph, v) \cap Range(run)
Time(stats, v) == IF v \in DOMAIN stats THEN Speed[v] ELSE 0
ByTime(s, stats) ==
  LET time(v) == Time(stats, v)
      less(a, b) == a < b
  IN Sorted(s, time, less)

(* resolve_execution_order: Kahn's algorithm, the fastest ready validator  *)
(* first; on a cycle, the order it was given.                              *)
KahnStep(graph, stats, run, k) ==
  IF k.queue = <<>> THEN k
  ELSE LET v == Head(k.queue)
           done == Append(k.done, v)
           freed(d) == /\ d \in Range(run) /\ v \in Needs(graph, run, d)
                       /\ Needs(graph, run, d) \subseteq Range(done)
       IN [queue |-> ByTime(Tail(k.queue) \o Those(Dependents(graph), freed), stats), done |-> done]

ExecutionOrder(graph, stats, run) ==
  LET ready(v) == Needs(graph, run, v) = {}
      kahn[n \in 0..Len(run)] ==
        IF n = 0 THEN [queue |-> ByTime(Those(run, ready), stats), done |-> <<>>]
        ELSE KahnStep(graph, stats, run, kahn[n - 1])
  IN IF graph.mode = "off" \/ Len(run) <= 1 THEN run
     ELSE IF Len(kahn[Len(run)].done) # Len(run) THEN run
     ELSE kahn[Len(run)].done

(* should_skip: `done` maps the validators with a row to it.               *)
ShouldSkip(graph, v, done, soft) ==
  /\ graph.mode # "off"
  /\ \E p \in Prerequisites(graph, v) \cap DOMAIN done :
       /\ ~ done[p].ok
       /\ p \in soft => graph.soft
       /\ graph.mode = "relaxed" => done[p].class # "tool_unavailable"

(* collect_validator_stats: passed where no task's last row of it failed.  *)
Collected(lasts) ==
  LET rows == UNION {Range(lasts[t]) : t \in DOMAIN lasts}
  IN [v \in {r.name : r \in rows} |-> \A r \in rows : r.name = v => r.ok]
=============================================================================
