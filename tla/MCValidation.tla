---------------------------- MODULE MCValidation ----------------------------
(* Three validators of tasks and a performance gate, two tasks, profiles   *)
(* that exercise the gate over runs, the graph, and the parallel fixers.   *)
EXTENDS Validation, TLC

Out(rc, marks, files) == [rc |-> rc, marks |-> marks, files |-> files]
Good == Out(0, {}, {})
GivesDef ==
  [ruff |-> {Good, Out(1, {}, {"a.py"})},
   mypy |-> {Good, Out(1, {"type"}, {"b.py"}), Out(1, {"missing"}, {})},
   pytest |-> {Good, Out(1, {"failed", "assertions"}, {"a.py"})},
   perf_gate |-> {Good, Out(1, {}, {})},
   sbom |-> {Good}]

KindsDef(f) == IF f = "Dockerfile" THEN {"Dockerfile"}
               ELSE IF f = "requirements.txt" THEN {"requirements.txt"} ELSE {".py"}
PairedDef(f) == IF f = "a.py" THEN {"test_a.py"} ELSE {}
SpeedDef == [ruff |-> 1, mypy |-> 2, pytest |-> 3, perf_gate |-> 4, sbom |-> 5]
PluginDef == [perf_gate |-> <<"python", "-I", "-m", "pytest", "perf">>]

Off == [gate |-> [mode |-> "off", threshold |-> 1, window |-> 1, never |-> {}],
        scope |-> [mode |-> "off", always |-> {}, mapping |-> TRUE],
        graph |-> [mode |-> "off", soft |-> FALSE, edges |-> <<>>],
        guard |-> [enabled |-> TRUE, retries |-> 1],
        fixers |-> [enabled |-> FALSE, min |-> 2, max |-> 3],
        enabled |-> <<"ruff", "mypy", "pytest", "perf_gate">>,
        taskSoft |-> {"mypy"}, finalSoft |-> {},
        tasks |-> <<[files |-> {"a.py"}, focus |-> <<>>]>>,
        maxFix |-> 1, maxTotal |-> 4, timed |-> FALSE, goOn |-> TRUE, rolling |-> 3, runs |-> 1,
        changes |-> {{"a.py"}}, versions |-> {1}]

Gated(mode, never, window, threshold) ==
  [Off EXCEPT !.gate = [mode |-> mode, threshold |-> threshold, window |-> window, never |-> never],
              !.enabled = <<"ruff", "pytest">>, !.maxFix = 0, !.runs = 4]

ProfilesDef ==
  {[Off EXCEPT !.enabled = <<"ruff">>, !.runs = 2, !.versions = {1, 2}, !.changes = {{"a.py"}, {"requirements.txt"}}],
   Gated("balanced", {}, 2, 2), Gated("aggressive", {}, 2, 1), Gated("aggressive", {"ruff"}, 2, 2),
   [Off EXCEPT !.graph = [mode |-> "strict", soft |-> FALSE, edges |-> <<>>]],
   [Off EXCEPT !.graph = [mode |-> "relaxed", soft |-> FALSE, edges |-> <<>>], !.taskSoft = {}, !.maxFix = 2],
   [Off EXCEPT !.goOn = FALSE, !.scope = [mode |-> "narrow", always |-> {"pytest"}, mapping |-> TRUE],
               !.changes = {{"a.py"}, {"Dockerfile"}},
               !.tasks = <<[files |-> {"a.py"}, focus |-> <<>>], [files |-> {"Dockerfile"}, focus |-> <<"pytest">>]>>],
   [Off EXCEPT !.fixers = [enabled |-> TRUE, min |-> 2, max |-> 2], !.maxFix = 3, !.taskSoft = {}]}

Change(p, x) == [path |-> p, text |-> x]

\* The configurations of the runs that show what the code does not do.
SoftDef == {[Off EXCEPT !.graph = [mode |-> "strict", soft |-> TRUE, edges |-> <<>>]]}
RequirementsDef ==
  {[Off EXCEPT !.enabled = <<"ruff">>, !.runs = 3, !.versions = {1, 2}, !.changes = {{"requirements.txt"}}]}
StopsDef == {[Gated("balanced", {"ruff"}, 2, 2) EXCEPT !.goOn = FALSE]}
SbomDef == {[Off EXCEPT !.enabled = <<"ruff", "sbom">>]}
TwiceDef == {<<Change("a.py", "x")>>, <<Change("a.py", "y"), Change("a.py", "z")>>}

ListsDef == {<<Change("a.py", "x")>>, <<Change("a.py", "y"), Change("b.py", "y")>>}
=============================================================================
