----------------------------- MODULE Validators -----------------------------
(***************************************************************************)
(* validators.py: the command of every validator, and the row its result   *)
(* becomes.  What a tool prints is abstracted to the marks the code looks  *)
(* for in it (a pattern that matches) and the files it locates errors in:  *)
(* an outcome is [rc, marks, files].                                       *)
(***************************************************************************)
EXTENDS ExecKernel, FiniteSets

CONSTANTS
  AuditRequired,  \* audit_required
  PluginCommand   \* the commands of validators that plugins register

\* What a sequence holds at the positions K, in its order; the elements of a
\* sequence that pass a test.
Kept(s, K) ==
  [i \in 1..Cardinality(K) |-> s[CHOOSE k \in K : Cardinality({j \in K : j < k}) + 1 = i]]
Those(s, Test(_)) == Kept(s, {i \in DOMAIN s : Test(s[i])})

Module(name, args) == <<"python", "-I", "-m", name>> \o args

(* _register_default_validators, and what plugins add.                     *)
Command(v) ==
  CASE v = "ruff"      -> Module("ruff", <<"check", "src", "tests">>)
    [] v = "mypy"      -> Module("mypy", <<"src">>)
    [] v = "pytest"    -> Module("pytest", <<"tests">>)
    [] v = "pip_audit" -> Module("pip_audit", <<"-r", "requirements.txt">>)
    [] v = "bandit"    -> Module("bandit", <<"-r", "src">>)
    [] v = "semgrep"   -> <<"semgrep", "--config", ".semgrep.yml", "--error">>
    [] v = "sbom"      -> <<"python", "-I", "scripts/generate_sbom.py">>
    [] v = "docker_build" -> <<"docker", "build", "--pull", "-t", "autodev-app:test", ".">>
    [] OTHER           -> PluginCommand[v]

(* _looks_like_missing_tool: a return code, or one of four phrases that    *)
(* the output of a tool that did run may hold as well.                     *)
LooksMissing(out) == out.rc = 127 \/ "missing" \in out.marks

(* _parse_error_class *)
Classified(v, out) ==
  CASE out.rc = 0 -> [status |-> "passed", class |-> "none"]
    [] out.rc # 0 /\ LooksMissing(out) -> [status |-> "failed", class |-> "tool_unavailable"]
    [] OTHER ->
         IF v = "pip_audit" /\ ~ AuditRequired
         THEN [status |-> "soft_fail", class |-> "warning_offline_or_vulnerable"]
         ELSE [status |-> "failed",
               class |-> IF v \in {"semgrep", "dependency_lock"} THEN "policy_violation" ELSE "tool_error"]

RowOf(v, c, out) ==
  [name |-> v, ok |-> c.status = "passed", status |-> c.status, class |-> c.class,
   marks |-> out.marks, files |-> out.files]

Unavailable(v) ==
  RowOf(v, [status |-> "failed", class |-> "tool_unavailable"], [marks |-> {}, files |-> {}])

(* _check_dependency_lock_policy over requirements.txt, -dev.txt and what  *)
(* they include: every line pinned, and a lock file beside them.           *)
RequirementFiles(req) ==
  LET reached[n \in 0..Cardinality(DOMAIN req)] ==
        IF n = 0 THEN {"requirements.txt", "requirements-dev.txt"} \cap DOMAIN req
        ELSE reached[n - 1] \cup (UNION {req[f].includes : f \in reached[n - 1]} \cap DOMAIN req)
  IN reached[Cardinality(DOMAIN req)]

LockPolicyHolds(req, lockFile) ==
  LET lines == UNION {req[f].lines : f \in RequirementFiles(req)}
  IN lines = {} \/ (lines = {"pinned"} /\ lockFile)

DependencyLock(req, lockFile) ==
  RowOf("dependency_lock",
        IF LockPolicyHolds(req, lockFile) THEN [status |-> "passed", class |-> "none"]
        ELSE [status |-> "failed", class |-> "policy_violation"],
        [marks |-> {}, files |-> {}])

(* run_one: `out` is what the tool would give, were it to run; for the     *)
(* lock policy, which runs no tool, the requirement files it reads.        *)
RunOne(v, out) ==
  IF v = "dependency_lock" THEN DependencyLock(out.req, out.lock)
  ELSE IF Available(Command(v)) THEN RowOf(v, Classified(v, out), out)
  ELSE Unavailable(v)

(* run_all: the hard validators first, then the soft ones.                 *)
RunAll(names, soft, tool) ==
  LET hard(v) == v \notin soft
      softly(v) == v \in soft
      order == Those(names, hard) \o Those(names, softly)
  IN [i \in DOMAIN order |-> RunOne(order[i], tool[order[i]])]
=============================================================================
