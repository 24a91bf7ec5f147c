----------------------------- MODULE RunConfig -----------------------------
(***************************************************************************)
(* What a configuration file may say, what load_config accepts of it and   *)
(* writes back (config.py), and the policies `autodev autonomous start`    *)
(* resolves from the accepted one with coercions of its own                *)
(* (autonomous_mode.py).  The two are compared in Records.                 *)
(*                                                                         *)
(* A scalar is its YAML kind and, for a number or a text that spells one,  *)
(* its value in halves: 3 is 1.5.  A text is "none" (absent or null),      *)
(* "blank", "text" or "placeholder" (the ${...} form of an environment     *)
(* variable).  A map of the file has a kind, a flag `extra` for a key      *)
(* nobody knows, and its known keys as fields.                             *)
(***************************************************************************)
EXTENDS Integers, Sequences, FiniteSets

CONSTANT Validators   \* schemas.VALIDATORS

NaN == -999                       \* the number `.nan` spells
V(k, n) == [k |-> k, n |-> n]
Null == V("null", 0)
Bad == V("bad", 0)                \* the coercion refused
Num(n) == V("int", 2 * n)
Whole(n) == n # NaN /\ n % 2 = 0
Below(v, bound) == v.n # NaN /\ v.n < 2 * bound
Above(v, bound) == v.n # NaN /\ v.n > 2 * bound

\* Mutant: a boolean passes as the integer Python makes of it.
IntOfBool(v) ==
  IF v.k \in {"null", "bool"} THEN v
  ELSE IF v.k \in {"int", "intstr"} \/ (v.k = "float" /\ Whole(v.n)) THEN V("int", v.n)
  ELSE Bad

\* config._coerce_int: whole floats and texts that spell an integer pass.
IntOf(v) ==
  IF v.k = "null" THEN v
  ELSE IF v.k \in {"int", "intstr"} \/ (v.k = "float" /\ Whole(v.n)) THEN V("int", v.n)
  ELSE Bad

\* config._coerce_float.
FloatOf(v) ==
  IF v.k = "null" THEN v
  ELSE IF v.k \in {"int", "intstr", "float", "floatstr"} THEN V("float", v.n)
  ELSE Bad

\* float(): booleans pass, null does not.
PyFloat(v) ==
  IF v.k \in {"bool", "int", "intstr", "float", "floatstr"} THEN V("float", v.n) ELSE Bad

Toward0(n) == IF n < 0 THEN - (2 * ((- n) \div 2)) ELSE 2 * (n \div 2)

\* autonomous_mode._coerce_optional_int: a float is cut, a boolean refused.
CutInt(v) ==
  IF v.k = "null" THEN v
  ELSE IF v.k \in {"int", "intstr", "float"} /\ v.n # NaN THEN V("int", Toward0(v.n))
  ELSE Bad

\* int(): a boolean counts, null is an error.
PyInt(v) ==
  IF v.k \in {"bool", "int", "intstr", "float"} /\ v.n # NaN THEN V("int", Toward0(v.n))
  ELSE Bad

\* The scalars of a file: a text is no number, and an integer counts whole.
FileScalars ==
  {v \in [k : {"null", "absent", "bool", "int", "intstr", "float", "floatstr", "str"}, n : Int] :
     /\ v.k = "null" => v.n = 0
     /\ v.k \in {"bool", "int", "intstr"} => Whole(v.n)}

If(broken, name) == IF broken THEN {name} ELSE {}
Kept(v, coerced) == IF coerced.k \in {"bad", "null"} THEN v ELSE coerced

IntAtLeast(v, low) == IntOf(v) = Null \/ (IntOf(v) # Bad /\ ~ Below(IntOf(v), low))
Between(v, low, high) ==
  v = Null \/ (v # Bad /\ ~ Below(v, low) /\ ~ Above(v, high))

-----------------------------------------------------------------------------
(* Authentication and endpoints *)

\* The environment after a .env file beside the config: it only adds.
WithDotenv(env, dotenv) ==
  [name \in DOMAIN env |-> IF env[name] = "none" THEN dotenv[name] ELSE env[name]]

Resolved(text, env, name) == IF text = "placeholder" THEN env[name] ELSE text

\* A placeholder no variable replaces becomes null.
WithAuth(e, env) ==
  [e EXCEPT !.key = Resolved(@, env, "key"), !.oauth = Resolved(@, env, "oauth")]

AuthErrors(e) ==
  If(e.key # "text" /\ e.oauth # "text", "auth")
  \cup If(e.url = "openrouter" /\ e.oauth = "text" /\ e.key # "text", "openrouter")

EndpointErrors(e) ==
  If(e.k # "map", "endpoint")
  \cup (IF e.k = "map"
        THEN If(e.url \notin {"plain", "openrouter"} \/ e.model # "text", "endpoint")
             \cup AuthErrors(e)
        ELSE {})

RoleErrors(llm) ==
  IF llm.mapping.k = "null" THEN {}
  ELSE If(llm.mapping.k # "map"
          \/ \E r \in DOMAIN llm.mapping.of :
               LET i == llm.mapping.of[r]
               IN  i.k # "int" \/ i.n < 0 \/ i.n >= 2 * Len(llm.models.list),
          "role_mapping")

\* Role temperatures: 0 to 2, and not a number passes both comparisons.
Temp(v) == IF v.k = "bool" THEN Bad ELSE PyFloat(v)
TempOk(v) == Temp(v) # Bad /\ ~ Below(Temp(v), 0) /\ ~ Above(Temp(v), 2)

LlmErrors(llm) ==
  IF llm.k # "map" THEN {"llm"}
  ELSE If(llm.url \notin {"plain", "openrouter"} \/ llm.model # "text", "llm")
       \cup AuthErrors(llm)
       \cup If(~ IntAtLeast(llm.timeout, 1), "timeout_sec")
       \cup (IF llm.models.k = "list"
             THEN UNION {EndpointErrors(llm.models.list[i]) : i \in DOMAIN llm.models.list}
                  \cup RoleErrors(llm)
             ELSE If(llm.models.k # "null", "models"))
       \cup If(\/ llm.temps.k \notin {"null", "map"}
               \/ llm.temps.k = "map" /\ \E r \in DOMAIN llm.temps.of : ~ TempOk(llm.temps.of[r]),
               "role_temperatures")

EndpointLoaded(e, env) == IF e.k = "map" THEN WithAuth(e, env) ELSE e
ModelsLoaded(ms, env) ==
  IF ms.k # "list" THEN ms
  ELSE [ms EXCEPT !.list = [i \in DOMAIN ms.list |-> EndpointLoaded(ms.list[i], env)]]

TempLoaded(v) == IF TempOk(v) THEN Temp(v) ELSE v
TempsLoaded(ts) ==
  IF ts.k # "map" THEN ts
  ELSE [ts EXCEPT !.of = [r \in DOMAIN ts.of |-> TempLoaded(ts.of[r])]]

LlmLoaded(llm, env) ==
  IF llm.k # "map" THEN llm
  ELSE [WithAuth(llm, env) EXCEPT
          !.timeout = IF @ = Null THEN Num(240) ELSE Kept(@, IntOf(@)),
          !.models = ModelsLoaded(@, env), !.temps = TempsLoaded(@)]

-----------------------------------------------------------------------------
(* Profiles *)

\* A list of texts: "?" is an item that is not one.
Listed(l) == l.k = "list" /\ \A i \in DOMAIN l.items : l.items[i] # "?"
Known(l) == Listed(l) /\ \A i \in DOMAIN l.items : l.items[i] \in Validators
NonEmpty(l) == \E i \in DOMAIN l.items : l.items[i] # "?"

SoftOk(l) == l.k = "absent" \/ Known(l)

PolicyOk(p) ==
  \/ p.k \in {"absent", "null"}
  \/ /\ p.k = "map" /\ ~ p.extra
     /\ \A s \in {"per_task", "final"} :
          LET x == p.sections[s]
          IN  x.k = "absent" \/ (x.k = "map" /\ ~ x.extra /\ SoftOk(x.soft))

\* A boolean is an int to isinstance, so `true` passes for a count.
RepeatGuardOk(g) ==
  \/ g.k \in {"absent", "null"}
  \/ /\ g.k = "map"
     /\ g.enabled.k \in {"null", "bool"}
     /\ g.retries.k = "null" \/ (g.retries.k \in {"int", "bool"} /\ g.retries.n >= 0)

EscalationOk(e) ==
  \/ e.k \in {"absent", "null"}
  \/ e.k = "map" /\ ~ e.extra /\ RepeatGuardOk(e.guard)

\* What a quality profile and one of its levels share.
LevelOk(q) ==
  /\ q.k = "map" /\ ~ q.extra
  /\ SoftOk(q.perTask) /\ SoftOk(q.final)
  /\ PolicyOk(q.policy) /\ EscalationOk(q.escalation)

QualityOk(q) ==
  /\ LevelOk(q)
  /\ q.name \in {"none", "minimal", "balanced", "strict"}
  /\ q.levels.k \in {"absent", "null", "map"}
  /\ q.levels.k = "map" => \A l \in DOMAIN q.levels.of : LevelOk(q.levels.of[l])

NoPolicy == [k |-> "absent"]
EmptyPolicy ==
  [k |-> "map", extra |-> FALSE,
   sections |-> [s \in {"per_task", "final"} |->
                   [k |-> "map", extra |-> FALSE, soft |-> [k |-> "absent"]]]]
DefaultQuality ==
  [k |-> "map", extra |-> FALSE, name |-> "none", policy |-> EmptyPolicy,
   perTask |-> [k |-> "absent"], final |-> [k |-> "absent"],
   levels |-> [k |-> "absent"], escalation |-> [k |-> "absent"]]

Unset(p) == p.k \in {"absent", "null"}

\* The default is taken, and the function returns, before the legacy
\* validator_policy is looked at.
QualityLoaded(p) ==
  IF Unset(p.quality) THEN DefaultQuality
  ELSE IF p.quality.k = "map" /\ p.legacy.k = "map" /\ Unset(p.quality.policy)
       THEN [p.quality EXCEPT !.policy = p.legacy]
       ELSE p.quality

LegacyErrors(p) ==
  IF p.quality.k # "map" THEN {}
  ELSE If(p.legacy.k \notin {"absent", "null", "map"}, "validator_policy")
       \cup If(p.legacy.k = "map" /\ p.quality.policy.k = "map"
               /\ p.legacy # p.quality.policy, "ambiguous")

ProfileErrors(p) ==
  IF p.k # "map" THEN {"profile"}
  ELSE If(p.extra, "profile")
       \cup If(~ (Known(p.validators) /\ NonEmpty(p.validators)), "validators")
       \cup If(p.templates.k = "absent", "template_candidates")
       \cup If(p.templates.k \notin {"absent", "null"}
               /\ ~ (Listed(p.templates) /\ NonEmpty(p.templates)), "template_candidates")
       \cup If(p.security \notin {"null", "bool", "empty"}, "security")
       \cup If(p.noDocker.k \notin {"null", "bool"}, "disable_docker_build")
       \cup LegacyErrors(p)
       \cup If(~ QualityOk(QualityLoaded(p)), "quality_profile")

ProfileLoaded(p) ==
  IF p.k # "map" THEN p
  ELSE [p EXCEPT !.quality = QualityLoaded(p),
                 !.security = IF @ \in {"null", "empty"} THEN "bool" ELSE @,
                 !.noDocker = IF @ = Null THEN V("bool", 0) ELSE @]

ProfilesLoaded(ps) ==
  IF ps.k # "map" THEN ps
  ELSE [ps EXCEPT !.of = [n \in DOMAIN ps.of |-> ProfileLoaded(ps.of[n])]]

ProfilesErrors(ps) ==
  IF ps.k # "map" \/ DOMAIN ps.of = {} THEN {"profiles"}
  ELSE UNION {ProfileErrors(ps.of[name]) : name \in DOMAIN ps.of}

-----------------------------------------------------------------------------
(* run and plugins *)

GateKeys == {"tests", "security", "performance", "composite"}
GateRange(s, v) ==
  \/ v = Null
  \/ /\ v # Bad /\ ~ Below(v, 0)
     /\ s = "tests" => ~ Above(v, 1)
     /\ s = "composite" => ~ Above(v, 100)
GateValue(s, v) == IF s = "security" THEN IntOf(v) ELSE FloatOf(v)

GateErrors(g) ==
  IF g.k = "null" THEN {}
  ELSE IF g.k # "map" THEN {"quality_gate_policy"}
  ELSE If(g.extra, "quality_gate_policy")
       \cup {s \in GateKeys :
               LET x == g.sections[s]
               IN  ~ (x.k = "null" \/ (x.k = "map" /\ ~ x.extra
                                       /\ GateRange(s, GateValue(s, x.v))))}

SectionLoaded(s, x) ==
  IF x.k # "map" THEN x ELSE [x EXCEPT !.v = Kept(@, GateValue(s, @))]
GateLoaded(g) ==
  IF g.k # "map" THEN g
  ELSE [g EXCEPT !.sections = [s \in GateKeys |-> SectionLoaded(s, g.sections[s])]]

StrategyErrors(m) ==
  IF m.k = "null" THEN {}
  ELSE IF m.k # "map" THEN {"multi_strategy"}
  ELSE If(\/ m.extra
          \/ ~ Between(IntOf(m.strategies), 2, 4)
          \/ ~ IntAtLeast(m.minFailed, 1)
          \/ m.margin # Null /\ (PyFloat(m.margin) = Bad \/ Below(m.margin, 0)),
          "multi_strategy")

RunErrors(r) ==
  IF r.k = "null" THEN {}
  ELSE IF r.k # "map" THEN {"run"}
  ELSE If(~ IntAtLeast(r.parallel, 1), "max_parallel_tasks")
       \cup If(\/ r.budget.k \notin {"null", "map"}
               \/ r.budget.k = "map" /\ ~ IntAtLeast(r.budget.tokens, 1), "budget")
       \cup If(~ IntAtLeast(r.fixTime, 1), "max_fix_time_per_task_sec")
       \cup StrategyErrors(r.multi)
       \cup (IF r.autonomous.k = "map" THEN GateErrors(r.autonomous.gates)
             ELSE If(r.autonomous.k # "null", "autonomous"))

BudgetLoaded(b) == IF b.k # "map" THEN b ELSE [b EXCEPT !.tokens = Kept(@, IntOf(@))]
AutonomousLoaded(a) == IF a.k # "map" THEN a ELSE [a EXCEPT !.gates = GateLoaded(@)]

RunLoaded(r) ==
  IF r.k # "map" THEN r
  ELSE [r EXCEPT
         !.parallel = IF IntOf(@) \in {Null, Bad} THEN Num(2) ELSE IntOf(@),
         !.budget = BudgetLoaded(@),
         !.fixTime = Kept(@, IntOf(@)),
         !.autonomous = AutonomousLoaded(@)]

PluginErrors(p) ==
  If(\/ p.k \notin {"null", "map"}
     \/ /\ p.k = "map"
        /\ p.path = "other" \/ (p.enabled.k # "absent" /\ ~ Listed(p.enabled)),
     "plugins")

-----------------------------------------------------------------------------
(* What can be a file: where it has a map, the map has its keys, and what is
   read as a number there is a scalar. *)

SectionFile(x) == x.k = "map" => {"k", "v"} \subseteq DOMAIN x /\ x.v \in FileScalars

GateFile(g) ==
  g.k = "map" => {"k", "sections"} \subseteq DOMAIN g /\ \A s \in GateKeys : SectionFile(g.sections[s])

RunFile(r) ==
  r.k = "map" =>
    /\ {"k", "parallel", "budget", "fixTime", "autonomous"} \subseteq DOMAIN r
    /\ r.parallel \in FileScalars
    /\ r.budget.k = "map" => {"k", "tokens"} \subseteq DOMAIN r.budget /\ r.budget.tokens \in FileScalars
    /\ r.autonomous.k = "map" =>
         {"k", "gates"} \subseteq DOMAIN r.autonomous /\ GateFile(r.autonomous.gates)

LlmFile(llm) ==
  llm.k = "map" =>
    /\ {"k", "key", "oauth", "timeout", "models", "temps"} \subseteq DOMAIN llm
    /\ llm.temps.k = "map" =>
         /\ {"k", "of"} \subseteq DOMAIN llm.temps
         /\ \A r \in DOMAIN llm.temps.of : llm.temps.of[r] \in FileScalars

ConfigFile(c) ==
  {"llm", "profiles", "run"} \subseteq DOMAIN c /\ LlmFile(c.llm) /\ RunFile(c.run)

-----------------------------------------------------------------------------
(* load_config *)

Env(c) == WithDotenv(c.env, c.dotenv)

LoadErrors(c) ==
  LlmErrors(LlmLoaded(c.llm, Env(c))) \cup ProfilesErrors(c.profiles)
  \cup RunErrors(c.run) \cup PluginErrors(c.plugins)

Load(c) ==
  [c EXCEPT !.llm = LlmLoaded(@, Env(c)),
            !.profiles = ProfilesLoaded(@),
            !.run = RunLoaded(@)]

-----------------------------------------------------------------------------
(* autonomous start: each resolver gives a value, or leaves the process *)

\* A requested profile must exist; none may be requested only of one.
ProfileChosen(requested, ps) ==
  IF requested # "none" THEN requested \in DOMAIN ps.of
  ELSE Cardinality(DOMAIN ps.of) = 1

\* run.autonomous, or what an absent one gives.
Default(v, n) == IF v.k = "absent" THEN Num(n) ELSE v
AutonomousOf(r) == IF r.k = "map" /\ r.autonomous.k = "map" THEN r.autonomous ELSE [k |-> "null"]

\* The two limits of the loop go through a bare int().
Limit(v, n) == PyInt(Default(v, n))

AutonomousPolicy(r) ==
  LET a == AutonomousOf(r)
  IN  IF a.k = "null" THEN [iterations |-> Num(3), seconds |-> Num(3600)]
      ELSE [iterations |-> Limit(a.iterations, 3), seconds |-> Limit(a.seconds, 3600)]

Positive(v) == v # Bad /\ v.n >= 2

AllowlistOk(r) ==
  LET a == AutonomousOf(r)
  IN  a.k = "null" \/ (/\ a.allowlist \in {"none", "empty", "list"}
                       /\ a.blocked \in {"none", "empty", "list"}
                       /\ a.sideEffects \in {"none", "map"}
                       /\ a.preflight \in {"none", "map"})

\* "none": no gate is evaluated.
QualityGatePolicy(r) ==
  LET a == AutonomousOf(r)
  IN  IF a.k = "null" \/ a.gates.k = "null" THEN [k |-> "none"]
      ELSE [k |-> "gates",
            of |-> [s \in GateKeys |->
                      LET x == a.gates.sections[s]
                      IN  IF x.k # "map" THEN Null
                          ELSE IF s = "security" THEN CutInt(x.v) ELSE FloatOf(x.v)]]

QualityGateOk(q) ==
  q.k = "none" \/ \A s \in GateKeys : GateRange(s, q.of[s])

OrDefault(v, n) == IF v = Null THEN Num(n) ELSE v

StopGuardPolicy(r) ==
  LET a == AutonomousOf(r)
      g == IF a.k = "null" THEN a ELSE a.stop
  IN  IF g.k # "map" THEN [k |-> g.k, failures |-> Num(3), same |-> Num(2)]
      ELSE [k |-> IF g.rollback \in {"none", "bool"} THEN "map" ELSE "other",
            failures |-> OrDefault(CutInt(g.failures), 3),
            same |-> OrDefault(CutInt(g.same), 2)]

StopGuardOk(g) == g.k \in {"null", "map"} /\ Positive(g.failures) /\ Positive(g.same)

BudgetGuardOk(r) ==
  LET a == AutonomousOf(r)
  IN  \/ a.k = "null" \/ a.budget.k = "null"
      \/ /\ a.budget.k = "map"
         /\ LET t == CutInt(a.budget.tokens) IN t = Null \/ Positive(t)

\* The maxima mean nothing without a window, and are checked all the same.
IncidentSendOk(r) ==
  LET a == AutonomousOf(r)
      s == IF a.k = "null" THEN a ELSE a.send
      window(v) == LET w == CutInt(v) IN w = Null \/ (w # Bad /\ w.n >= 0)
      limit(v) == LET m == CutInt(v) IN m = Null \/ Positive(m)
  IN  \/ s.k = "null"
      \/ /\ s.k = "map"
         /\ s.enabled.k = "bool" /\ s.targets \in {"none", "list"}
         /\ window(s.dedupe) /\ window(s.window)
         /\ limit(s.globalMax) /\ limit(s.targetMax)

\* What _start still checks of a loaded config once the preflight has passed.
RunArguments(c) ==
  [parallel |-> IF c.run.k = "map" THEN CutInt(c.run.parallel) ELSE Num(2),
   tokens |-> IF c.run.k = "map" /\ c.run.budget.k = "map" THEN CutInt(c.run.budget.tokens) ELSE Null,
   temps |-> IF c.llm.temps.k = "map" THEN [r \in DOMAIN c.llm.temps.of |-> Temp(c.llm.temps.of[r])]
             ELSE <<>>]

\* How far a start gets with the loaded config c: "profile" and "policy" exit,
\* "session" is a process with a state to run.
Resolution(c) ==
  IF ~ ProfileChosen(c.requested, c.profiles) THEN "profile"
  ELSE LET p == AutonomousPolicy(c.run)
       IN  IF /\ Positive(p.iterations) /\ Positive(p.seconds) /\ AllowlistOk(c.run)
              /\ QualityGateOk(QualityGatePolicy(c.run)) /\ StopGuardOk(StopGuardPolicy(c.run))
              /\ BudgetGuardOk(c.run) /\ IncidentSendOk(c.run)
           THEN "session" ELSE "policy"

-----------------------------------------------------------------------------
(* The preflight *)

\* Paths as sets of the roots that contain them: target t is refused when no
\* allowlisted root contains it, and when a blocked one does.
PreflightReasons(paths, allowed, blocked, present, probe, writable) ==
  If(\E t \in DOMAIN paths : paths[t] \cap allowed = {}, "path_not_allowlisted")
  \cup If(\E t \in DOMAIN paths : paths[t] \cap blocked # {}, "path_blocked")
  \cup If("prd" \notin present \/ "config" \notin present, "required_file_missing")
  \cup If(probe /\ ~ writable, "artifacts_not_writable")
=============================================================================
