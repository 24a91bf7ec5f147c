------------------------------ MODULE MCRecords ------------------------------
(* Instances of Records for TLC: configurations that differ in one or two  *)
(* values from a plain one, the outcomes of a workflow, and reviewers.     *)
EXTENDS Records

Absentee == [k |-> "absent"]
Nothing == [k |-> "null"]
Soft(items) == [k |-> "list", items |-> items]

MCEndpoint == [k |-> "map", url |-> "plain", model |-> "text", key |-> "text", oauth |-> "none"]
MCLlm ==
  [k |-> "map", url |-> "plain", model |-> "text", key |-> "placeholder", oauth |-> "none",
   timeout |-> Null, models |-> [k |-> "null", list |-> <<>>],
   mapping |-> [k |-> "null", of |-> <<>>], temps |-> [k |-> "null", of |-> <<>>]]
MCPolicy == [EmptyPolicy EXCEPT !.sections["final"].soft = Soft(<<"v1">>)]
MCProfile ==
  [k |-> "map", extra |-> FALSE, validators |-> Soft(<<"v1", "v2">>),
   templates |-> Soft(<<"t">>), security |-> "empty", noDocker |-> Null,
   legacy |-> Absentee, quality |-> Absentee]
MCGates ==
  [k |-> "map", extra |-> FALSE,
   sections |-> [s \in GateKeys |->
     [k |-> "map", extra |-> FALSE,
      v |-> CASE s = "tests" -> V("float", 2) [] s = "security" -> V("int", 0)
              [] s = "performance" -> V("int", 40) [] OTHER -> V("int", 140)]]]
MCAutonomous ==
  [k |-> "map", iterations |-> Num(MaxIterations), seconds |-> Num(TimeBudget),
   allowlist |-> "list", blocked |-> "none", sideEffects |-> "none", preflight |-> "none",
   gates |-> MCGates,
   stop |-> [k |-> "map", rollback |-> "none", failures |-> Num(MaxGateFailures),
             same |-> Num(MaxNoImprovement)],
   budget |-> [k |-> "map", tokens |-> Num(9)],
   send |-> [k |-> "map", enabled |-> V("bool", 2), targets |-> "list", dedupe |-> Num(60),
             window |-> Num(60), globalMax |-> Num(5), targetMax |-> Null]]
MCRun ==
  [k |-> "map", parallel |-> Null, budget |-> [k |-> "null", tokens |-> Null],
   fixTime |-> Null,
   multi |-> [k |-> "null", extra |-> FALSE, strategies |-> Null, minFailed |-> Null,
              margin |-> Null],
   autonomous |-> MCAutonomous]
MCConfig ==
  [k |-> "config", env |-> [key |-> "text", oauth |-> "none"],
   dotenv |-> [key |-> "none", oauth |-> "none"], requested |-> "none",
   llm |-> MCLlm, profiles |-> [k |-> "map", of |-> [p1 |-> MCProfile]],
   run |-> MCRun, plugins |-> [k |-> "null", path |-> "none", enabled |-> Absentee]]

Each(Of(_), s) == [i \in DOMAIN s |-> Of(s[i])]

\* One scalar each way a file may spell it, and at each end of a range.
Scalars ==
  <<Null, V("bool", 2), V("bool", 0), V("int", 4), V("int", 0), V("int", -2), V("int", 6),
   V("intstr", 4), V("float", 4), V("float", 3), V("floatstr", 3), V("float", NaN),
   V("str", 0)>>

MCAuth ==
  Each(LAMBDA t : [MCConfig EXCEPT !.env.key = t[1], !.dotenv.key = t[2], !.llm.url = t[3]],
       <<<<"none", "none", "plain">>, <<"none", "text", "plain">>, <<"blank", "text", "plain">>,
         <<"blank", "none", "openrouter">>, <<"text", "none", "openrouter">>>>)
  \o Each(LAMBDA t : [MCConfig EXCEPT !.llm.oauth = "placeholder", !.env.oauth = "text",
                                      !.llm.key = t[1], !.llm.url = t[2]],
          <<<<"none", "plain">>, <<"none", "openrouter">>, <<"placeholder", "openrouter">>,
            <<"placeholder", "none">>>>)
  \o <<[MCConfig EXCEPT !.llm.k = "list"], [MCConfig EXCEPT !.llm.model = "blank"]>>

Models(list) == [k |-> "list", list |-> list]
Role(v) == [k |-> "map", of |-> [r1 |-> v]]
MCModels ==
  Each(LAMBDA v : [MCConfig EXCEPT !.llm.models = Models(<<MCEndpoint>>), !.llm.mapping = Role(v)],
       <<Num(0), Num(1), V("intstr", 0), V("bool", 0)>>)
  \o Each(LAMBDA e : [MCConfig EXCEPT !.llm.models = Models(<<e>>)],
          <<[k |-> "str"], [MCEndpoint EXCEPT !.key = "none"],
            [MCEndpoint EXCEPT !.key = "none", !.oauth = "text", !.url = "openrouter"]>>)
  \o <<[MCConfig EXCEPT !.llm.models.k = "str"]>>
  \o Each(LAMBDA v : [MCConfig EXCEPT !.llm.temps = Role(v)], Scalars)
  \o Each(LAMBDA v : [MCConfig EXCEPT !.llm.timeout = v], Scalars)

Profiles(p) == [MCConfig EXCEPT !.profiles.of.p1 = p]
Levelled(q) ==
  [MCProfile EXCEPT !.quality = [DefaultQuality EXCEPT !.levels = [k |-> "map", of |-> [l1 |-> q]]]]
MCProfiles ==
  Each(Profiles,
     <<[MCProfile EXCEPT !.legacy = MCPolicy],
      [MCProfile EXCEPT !.legacy = MCPolicy,
                        !.quality = [DefaultQuality EXCEPT !.policy = NoPolicy]],
      [MCProfile EXCEPT !.legacy = MCPolicy, !.quality = DefaultQuality],
      [MCProfile EXCEPT !.legacy = Soft(<<>>), !.quality = DefaultQuality],
      [MCProfile EXCEPT !.quality = [DefaultQuality EXCEPT !.name = "other"]],
      [MCProfile EXCEPT !.quality = [DefaultQuality EXCEPT !.final = Soft(<<"unheard">>)]],
      [MCProfile EXCEPT !.quality =
         [DefaultQuality EXCEPT !.escalation =
            [k |-> "map", extra |-> FALSE,
             guard |-> [k |-> "map", enabled |-> Null, retries |-> V("bool", 2)]]]],
      Levelled(DefaultQuality), Levelled([DefaultQuality EXCEPT !.perTask = Soft(<<"?">>)]),
      [MCProfile EXCEPT !.validators = Soft(<<>>)], [MCProfile EXCEPT !.validators = Soft(<<"?">>)],
      [MCProfile EXCEPT !.templates = Absentee], [MCProfile EXCEPT !.templates = Nothing],
      [MCProfile EXCEPT !.templates = Soft(<<>>)], [MCProfile EXCEPT !.security = "other"],
      [MCProfile EXCEPT !.noDocker = V("int", 0)], [MCProfile EXCEPT !.extra = TRUE],
      [k |-> "str"]>>)
  \o <<[MCConfig EXCEPT !.profiles.k = "list"],
        [MCConfig EXCEPT !.profiles.of = [p1 |-> MCProfile, p2 |-> MCProfile]],
        [MCConfig EXCEPT !.requested = "p2"], [MCConfig EXCEPT !.requested = "p1"]>>

MCThresholds(s) ==
  Each(LAMBDA v : [MCConfig EXCEPT !.run.autonomous.gates.sections[s].v = v],
       Scalars \o <<V("int", 202)>>)
  \o <<[MCConfig EXCEPT !.run.autonomous.gates.sections[s].k = "null"],
       [MCConfig EXCEPT !.run.autonomous.gates.sections[s].k = "int"],
       [MCConfig EXCEPT !.run.autonomous.gates.sections[s].extra = TRUE]>>

MCLimits ==
  Each(LAMBDA v : [MCConfig EXCEPT !.run.autonomous.iterations = v],
       Scalars \o <<V("absent", 0)>>)
  \o Each(LAMBDA v : [MCConfig EXCEPT !.run.autonomous.seconds = v], Scalars)
  \o Each(LAMBDA v : [MCConfig EXCEPT !.run.autonomous.stop.failures = v], Scalars)
  \o Each(LAMBDA v : [MCConfig EXCEPT !.run.autonomous.stop.same = v], Scalars)
  \o Each(LAMBDA v : [MCConfig EXCEPT !.run.autonomous.budget.tokens = v], Scalars)
  \o Each(LAMBDA v : [MCConfig EXCEPT !.run.autonomous.send.dedupe = v], Scalars)
  \o Each(LAMBDA v : [MCConfig EXCEPT !.run.autonomous.send.globalMax = v], Scalars)

MCRunLimits ==
  Each(LAMBDA v : [MCConfig EXCEPT !.run.parallel = v], Scalars)
  \o Each(LAMBDA v : [MCConfig EXCEPT !.run.fixTime = v], Scalars)
  \o Each(LAMBDA v : [MCConfig EXCEPT !.run.budget = [k |-> "map", tokens |-> v]], Scalars)
  \o Each(LAMBDA v : [MCConfig EXCEPT !.run.multi.k = "map", !.run.multi.strategies = v], Scalars)
  \o Each(LAMBDA v : [MCConfig EXCEPT !.run.multi.k = "map", !.run.multi.margin = v], Scalars)

MCShapes ==
  <<[MCConfig EXCEPT !.run.autonomous.gates.extra = TRUE],
   [MCConfig EXCEPT !.run.autonomous.gates.k = "str"]>>
  \o <<[MCConfig EXCEPT !.run.multi.k = "map", !.run.multi.minFailed = V("int", 0)],
        [MCConfig EXCEPT !.run.multi.k = "map", !.run.multi.extra = TRUE],
        [MCConfig EXCEPT !.run.autonomous.stop.k = "list"],
        [MCConfig EXCEPT !.run.autonomous.stop.rollback = "other"],
        [MCConfig EXCEPT !.run.autonomous.allowlist = "other"],
        [MCConfig EXCEPT !.run.autonomous.send.enabled = V("str", 0)],
        [MCConfig EXCEPT !.run.autonomous.k = "null"],
        [MCConfig EXCEPT !.run.autonomous.k = "list"],
        [MCConfig EXCEPT !.run.k = "null"], [MCConfig EXCEPT !.run.k = "str"],
        [MCConfig EXCEPT !.run.budget.k = "str"], [MCConfig EXCEPT !.plugins.path = "other",
                                                                   !.plugins.k = "map"],
        [MCConfig EXCEPT !.plugins.k = "map", !.plugins.enabled = Soft(<<"?">>)]>>

\* With gates and without.
MCSessions == {MCConfig, [MCConfig EXCEPT !.run.autonomous.gates.k = "null"]}

MCConfigs ==
  MCSessions \cup
  ValuesOf(MCAuth \o MCModels \o MCProfiles
           \o MCThresholds("tests") \o MCThresholds("security")
           \o MCThresholds("performance") \o MCThresholds("composite")
           \o MCLimits \o MCRunLimits \o MCShapes)

-----------------------------------------------------------------------------
\* Every target under the one allowed root; one target outside of it, and the
\* artifacts not writable.
MCPlaces ==
  {[paths |-> [t \in {"out", "docs"} |-> {"r"}], allowed |-> {"r"}, blocked |-> {},
    present |-> {"prd", "config"}, probe |-> TRUE, writable |-> TRUE],
   [paths |-> ("out" :> {"r", "s"} @@ "docs" :> {"q"}), allowed |-> {"r"}, blocked |-> {"s"},
    present |-> {"prd", "config"}, probe |-> TRUE, writable |-> FALSE]}

Row(n, good, rc, high) ==
  [name |-> n, ok |-> good, status |-> "none", rc |-> rc, high |-> high, sev |-> None,
   said |-> None, slower |-> None]
RowsOf(test, high) ==
  <<Row("pytest", test, 0, None), Row("bandit", "yes", 0, high)>>
Quality(score, hard) ==
  [score |-> score, hard |-> hard,
   parts |-> [p \in ValuesOf(Parts) |-> IF p = "tests" THEN score ELSE 80]]
RunOf(elapsed) ==
  [elapsed |-> elapsed, calls |-> <<100>>, tasks |-> <<[ms |-> 10, score |-> 80]>>]
LogOf(word, score, failed) ==
  <<[decision |-> word, score |-> score, hard |-> FALSE, failed |-> failed]>>

\* A clean success; a slow one; a failure of the tests and of a security scan
\* whose score names no weak part; a workflow that raises.
MCOutcomes ==
  {[flow |-> "passed", rows |-> RowsOf("yes", 0), quality |-> Quality(90, FALSE),
    run |-> RunOf(1000), log |-> LogOf("accepted", 90, <<>>)],
   [flow |-> "passed", rows |-> RowsOf("yes", 0), quality |-> Quality(90, FALSE),
    run |-> RunOf(2000), log |-> LogOf("accepted", 90, <<>>)],
   [flow |-> "failed", rows |-> RowsOf("no", 2), quality |-> Quality(70, TRUE),
    run |-> RunOf(1000), log |-> LogOf("reverted", 70, <<"pytest">>)],
   [flow |-> "raised", rows |-> <<>>, quality |-> Quality(40, FALSE),
    run |-> RunOf(0), log |-> <<>>]}

\* An older run that was fast, and two observations of the performance gate.
MCPast ==
  [perf |-> Recorded(Absent, RunOf(1000)),
   base |-> F([EmptyBase EXCEPT !.performance = <<10, 10>>])]

MCReviews ==
  {[role |-> "operator", decision |-> "approve"]}
MCFlow == [due |-> 0, targets |-> TRUE, manual |-> "none", snoozed |-> None]

\* What those outcomes make of the gates: none fails, one with a reason or two,
\* or two.
MCGateOutcomes ==
  {[gates |-> 0, reasons |-> 0], [gates |-> 1, reasons |-> 1], [gates |-> 1, reasons |-> 2],
   [gates |-> 2, reasons |-> 2]}
=============================================================================
