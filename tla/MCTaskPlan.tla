----------------------------- MODULE MCTaskPlan -----------------------------
(* Instances of TaskPlan for TLC. *)
EXTENDS TaskPlan

CONSTANTS t1, t2, t3, t4, f1, f2, glob, app, unknown, test1

Four == {t1, t2, t3, t4}
FourListed == <<t4, t1, t2, t3>>

NoDeps == [t \in Four |-> {}]
Graph == {t1, t2, t3}

P(name, type, deps, files, est) ==
  [name |-> name, type |-> type, deps |-> deps, files |-> files, est |-> est]

\* Every dependency graph over three tasks, self-loops and cycles included, one
\* task perhaps with a dependency outside the plan, and a fourth task behind one
\* of them that the plan lists first; all tasks edit one file or each its own.
GraphPlans ==
  {P("graph", "cli", [t \in Four |-> IF t = t4 THEN {t1} ELSE IF t = t1 THEN d[t] \cup x ELSE d[t]],
     f, [t \in Four |-> 1]) :
     d \in [Graph -> SUBSET Graph], x \in {{}, {unknown}},
     f \in {[t \in Four |-> {f1}], [t \in Four |-> {t}]}}

\* Every assignment of up to two files to four tasks, all free or with t4 behind
\* t1, and every estimate of one or three.
FilePlans ==
  {P("files", "cli", d, f, e) :
     d \in {NoDeps, [NoDeps EXCEPT ![t4] = {t1}]},
     f \in [Four -> SUBSET {f1, f2}], e \in [Four -> {1, 3}]}

\* Plans to come back to: two of one project type that give the same ids to other
\* work, one with a pattern, one of the other type, and one with a cycle.
Chain == [NoDeps EXCEPT ![t2] = {t1}, ![t3] = {t1}, ![t4] = {t3}]
One == [t \in Four |-> 1]
First1  == P("first", "cli", Chain, [t \in Four |-> IF t = t4 THEN {app} ELSE {f1}], One)
Second2 == P("second", "cli", Chain, [t \in Four |-> IF t = t1 THEN {app} ELSE {f2}], One)
Globbed == P("globbed", "cli", Chain, [t \in Four |-> IF t = t2 THEN {glob} ELSE {f2}], One)
Service == P("service", "api", Chain, [t \in Four |-> {f1}], One)
Looping == P("looping", "cli", [Chain EXCEPT ![t1] = {t4}], [t \in Four |-> {f1}], One)

AllPlans == GraphPlans \cup FilePlans \cup {First1, Second2, Globbed, Service, Looping}

MatchesOf  == [g \in {glob} |-> {f1}]
TemplateOf == [type \in {"cli", "api"} |-> IF type = "cli" THEN {app} ELSE {app, f2}]
Tests      == [t \in {t1} |-> test1]

S(answers, keys, resume, specs, tested, runs) ==
  [answers |-> answers, keys |-> keys, resume |-> resume, specs |-> specs,
   tested |-> tested, runs |-> runs]

\* One run of every plan; runs of one workspace, with one key and with two.
AllScenes ==
  {S({p}, {1}, {FALSE}, {}, {{}}, 1) : p \in GraphPlans \cup FilePlans} \cup
  {S({First1, Second2}, {1, 2}, {FALSE}, {}, {{}}, 3),
   S({Service, Globbed, First1}, {1}, {FALSE}, {}, {{}}, 2),
   S({First1, Looping}, {1}, BOOLEAN, {API_SPEC, DB_MODELS}, {{}, {t1}}, 2)}
=============================================================================
