----------------------------- MODULE ExecKernel -----------------------------
(***************************************************************************)
(* The command policy of exec_kernel.py: which commands a run may execute. *)
(* A command is its sequence of tokens; "python" stands for the            *)
(* interpreter of the virtual environment, and the tokens with a leading   *)
(* dash are those the program writes.                                      *)
(***************************************************************************)
EXTENDS Integers, Sequences, SequencesExt

CONSTANTS
  Dockerfile,  \* the workspace's Dockerfile: "absent", "clean" or "flagged"
  OnPath,      \* the programs shutil.which finds
  Scripts      \* the script files the workspace holds

From(cmd, n) == SubSeq(cmd, n, Len(cmd))
Starts(prefix, cmd) == Len(cmd) >= Len(prefix) /\ SubSeq(cmd, 1, Len(prefix)) = prefix

ALLOWED_PY_MODULES == {"ruff", "mypy", "pip_audit", "bandit", "pytest", "pip", "venv", "semgrep"}
ALLOWED_PY_SCRIPTS == {"scripts/generate_sbom.py"}
ALLOWED_DOCKER_CMDS == {"version", "build"}
PipArguments ==
  {<<"install", "-U", "pip">>}
    \cup {<<"install">> \o opt \o <<"-r", f>> :
            opt \in {<<>>, <<"--no-cache-dir">>}, f \in {"requirements.txt", "requirements-dev.txt"}}

OptionWithArgument == {"--tag", "-t", "--network", "--platform", "--build-arg", "--label",
                       "--secret", "--cache-from", "--progress", "--volume", "--add-host"}
OtherOption == {"--pull", "--network=host"}

(* _extract_dockerfile_and_context: the last -f names the file, the last   *)
(* word that is neither an option nor an option's argument the context.    *)
DockerScan(s, token) ==
  IF s.takes # "word" THEN [s EXCEPT !.takes = "word",
                                     !.file = IF s.takes = "file" THEN token ELSE @]
  ELSE IF token \in {"--file", "-f"} THEN [s EXCEPT !.takes = "file"]
  ELSE IF token \in OptionWithArgument THEN [s EXCEPT !.takes = "argument"]
  ELSE IF token \in OtherOption THEN s
  ELSE [s EXCEPT !.context = token]

DockerTarget(cmd) ==
  FoldLeft(DockerScan, [takes |-> "word", file |-> "Dockerfile", context |-> "."], From(cmd, 3))

(* No host network, and no line of the Dockerfile that the policy flags.   *)
SafeDockerBuild(cmd) ==
  LET args == From(cmd, 3) IN
  /\ ~ Contains(args, "--network=host")
  /\ \A i \in 1..Len(args) - 1 : ~ (args[i] = "--network" /\ args[i + 1] = "host")
  /\ DockerTarget(cmd).file = "Dockerfile" /\ DockerTarget(cmd).context = "."
  /\ Dockerfile = "clean"

Semgrep(cmd) == cmd[1] = "semgrep" \/ Starts(<<"python", "-I", "-m", "semgrep">>, cmd)

(* Only --config .semgrep.yml --error, in any order, or --version alone.   *)
SemgrepAllowed(cmd) ==
  LET args == From(cmd, IF cmd[1] = "semgrep" THEN 2 ELSE 5)
      config == {i \in DOMAIN args : args[i] = "--config"}
  IN \/ args = <<"--version">>
     \/ /\ Contains(args, "--error") /\ config # {}
        /\ LET first == CHOOSE i \in config : \A j \in config : i <= j
           IN /\ first < Len(args) /\ args[first + 1] = ".semgrep.yml"
              /\ \A i \in DOMAIN args \ {first + 1} : args[i] \in {"--config", "--error", "--version"}

ModuleAllowed(name, args) ==
  /\ name \in ALLOWED_PY_MODULES
  /\ name = "pip" => args \in PipArguments
  /\ name = "venv" => args = <<".venv">>

(* A python command has four tokens or more, and a script three exactly.   *)
ScriptAllowed(cmd) == cmd[3] \in ALLOWED_PY_SCRIPTS /\ Len(cmd) = 3

Allowed(cmd) ==
  /\ cmd # <<>>
  /\ Starts(<<"docker", "build">>, cmd) => SafeDockerBuild(cmd)
  /\ CASE cmd[1] = "docker" -> Len(cmd) >= 2 /\ cmd[2] \in ALLOWED_DOCKER_CMDS
       [] Semgrep(cmd)      -> SemgrepAllowed(cmd)
       [] OTHER -> /\ cmd[1] = "python" /\ Len(cmd) >= 4 /\ cmd[2] = "-I"
                   /\ IF cmd[3] = "-m" THEN ModuleAllowed(cmd[4], From(cmd, 5))
                      ELSE ScriptAllowed(cmd)

(* is_command_available: allowed, and there is something to execute.       *)
Available(cmd) ==
  /\ Allowed(cmd)
  /\ CASE cmd[1] \in {"semgrep", "docker"} -> cmd[1] \in OnPath
       [] Semgrep(cmd) -> TRUE
       [] OTHER -> /\ cmd[1] = "python"
                   /\ \/ Len(cmd) >= 4 /\ SubSeq(cmd, 2, 3) = <<"-I", "-m">> /\ "python" \in OnPath
                      \/ Len(cmd) >= 4 /\ cmd[2] = "-I" /\ cmd[3] # "-m" /\ cmd[3] \in Scripts
=============================================================================
