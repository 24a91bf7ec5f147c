-------------------------- MODULE FailureAnalysis --------------------------
(***************************************************************************)
(* failure_analyzer.py and parallel_fixer.py: what a failed row is taken   *)
(* for, how its errors are recognised again, how hard the fixer is told to *)
(* try, and how several fixers work at once.  A row is that of Validators: *)
(* [name, ok, status, class, marks, files], the marks being the patterns   *)
(* its output matches and the files those it locates errors in.            *)
(***************************************************************************)
EXTENDS Validators, FiniteSetsExt

Failed(rows) == LET bad(r) == ~ r.ok IN Those(rows, bad)
Names(rows) == {rows[i].name : i \in DOMAIN rows}

(* -- categories ----------------------------------------------------------- *)
\* The patterns of a text in the order they are tried, and what they mean.
TextPatterns ==
  <<[mark |-> "syntax", category |-> "syntax_error"], [mark |-> "import", category |-> "import_error"],
    [mark |-> "type", category |-> "type_error"], [mark |-> "security", category |-> "security_finding"],
    [mark |-> "assertion", category |-> "test_logic_error"],
    [mark |-> "runtime", category |-> "test_runtime_error"]>>

FirstOf(patterns, marks, otherwise) ==
  LET hit(p) == p.mark \in marks
      hits == Those(patterns, hit)
  IN IF hits = <<>> THEN otherwise ELSE Head(hits).category

(* _categorize_pytest: the counts of the summary line ("failed", "errors") *)
(* and its assertions ("assertions") decide before the runtime pattern.    *)
PytestCategory(marks) ==
  CASE marks \cap {"syntax", "import", "type"} # {} -> FirstOf(TextPatterns, marks, "")
    [] {"failed", "assertions"} \subseteq marks -> "test_logic_error"
    [] marks \cap {"errors", "runtime"} # {} -> "test_runtime_error"
    [] OTHER -> "test_logic_error"

Category(row) ==
  CASE row.class = "tool_unavailable" -> "tool_unavailable"
    [] row.name = "mypy" -> "type_error"
    [] row.name = "ruff" -> "lint_error"
    [] row.name \in {"bandit", "semgrep"} \/ row.class = "policy_violation" -> "security_finding"
    [] row.name \in {"pip_audit", "dependency_lock"} -> "missing_dependency"
    [] row.name = "pytest" -> PytestCategory(row.marks)
    [] OTHER -> FirstOf(TextPatterns, row.marks, "unknown")

Ranking == <<"syntax_error", "import_error", "missing_dependency", "type_error", "lint_error",
             "test_runtime_error", "test_logic_error", "security_finding", "tool_unavailable",
             "unknown">>
Priority(category) == CHOOSE i \in DOMAIN Ranking : Ranking[i] = category
Ranked(categories) == LET ahead(a, b) == Priority(a) < Priority(b) IN SetToSortSeq(categories, ahead)

(* -- recognising an error again: fingerprint_validation_row ---------------- *)
\* One print for each file an error is located in, or one for the whole row.
Prints(row) ==
  IF row.ok THEN {}
  ELSE IF row.files # {} THEN {<<f, row.class, row.marks>> : f \in row.files}
  ELSE {<<row.name, row.class, row.marks>>}

AllPrints(rows) == UNION {Prints(rows[i]) : i \in DOMAIN rows}

(* _failure_signature: the failed rows in the order of the validation.     *)
Signature(rows) ==
  LET bad == Failed(rows) IN [i \in DOMAIN bad |-> <<bad[i].name, bad[i].status, Prints(bad[i])>>]

\* How many attempts in a row each print has been seen, this one included.
Strikes(before, prints) ==
  [p \in prints |-> (IF p \in DOMAIN before THEN before[p] ELSE 0) + 1]

(* -- escalation: determine_escalation_level and what loop.py adds ---------- *)
GuardLevel(guard, repeat) ==
  CASE ~ guard.enabled -> 0
    [] guard.enabled /\ repeat < guard.retries -> 0
    [] guard.enabled /\ repeat = guard.retries -> 1
    [] OTHER -> 2

StrikeLimit == 3

Escalation(guard, repeat, strikes, same, used) ==
  LET persistent == \E p \in DOMAIN strikes : strikes[p] >= StrikeLimit
      guarded == GuardLevel(guard, repeat)
      boosted == IF persistent /\ guarded < 2 THEN guarded + 1 ELSE guarded
      targeted == /\ ~ used /\ guard.enabled
                  /\ guard.retries = 0 \/ (same /\ repeat >= guard.retries)
      level == IF targeted /\ boosted < 1 THEN 1 ELSE boosted
  IN [level |-> level,
      mode |-> CASE targeted -> "targeted"
                 [] ~ targeted /\ level >= 2 -> "surgical"
                 [] ~ targeted /\ level = 1 -> "targeted"
                 [] OTHER -> "normal"]

(* -- what the fixer is told: select_repair_strategy and the hints ---------- *)
Strategy(rows) ==
  LET cats == Ranked({Category(r) : r \in Range(Failed(rows))})
  IN SubSeq(cats, 1, IF Len(cats) < 3 THEN Len(cats) ELSE 3)

\* history: the outcomes of repairs, records [task, category, prints].
Hints(history, rows) ==
  {h \in history : \/ h.category \in {Category(r) : r \in Range(Failed(rows))}
                   \/ h.prints \cap AllPrints(rows) # {}}

Outcomes(task, rows) ==
  {[task |-> task, category |-> Category(r), prints |-> Prints(r)] : r \in Range(Failed(rows))}

(* -- several fixers at once: partition_failures, find_disjoint_groups ------ *)
\* The groups of failures, each at the rank of its category.
Partition(rows) ==
  LET bad == Range(Failed(rows))
      of(rank) == {r \in bad : Category(r) = Ranking[rank]}
  IN [rank \in {k \in DOMAIN Ranking : of(k) # {}} |->
        [category |-> Ranking[rank], files |-> UNION {r.files : r \in of(rank)},
         names |-> {r.name : r \in of(rank)}]]

\* The ranks of the groups that go together: in the order of the ranks, a
\* group joins when it shares no file with those that joined before.
Restricted(groups, ranks) == [k \in ranks |-> groups[k]]
TogetherUnseen(groups, ranks) == ranks = DOMAIN groups
Together(groups, ranks) ==
  \A k \in DOMAIN groups :
    k \in ranks <=> \A j \in ranks : j < k => groups[k].files \cap groups[j].files = {}

Disjoint(groups) ==
  Restricted(groups, CHOOSE ranks \in SUBSET DOMAIN groups : Together(groups, ranks))

\* The groups asked at once; none when one fixer gets all the failures.
AskedGroups(fixers, rows) ==
  LET apart == Disjoint(Partition(rows))
      ahead(k) == Cardinality({j \in DOMAIN apart : j < k})
  IN IF fixers.enabled /\ Cardinality(DOMAIN apart) >= fixers.min
     THEN Restricted(apart, {k \in DOMAIN apart : ahead(k) < fixers.max}) ELSE <<>>

(* merge_changesets: answers maps a group to its [category, changes], the  *)
(* changes a sequence of [path, text].  A single answer is taken as it is; *)
(* among several, each path keeps one change, the first of the most urgent *)
(* category.  The result maps a path to the changes applied to it.         *)
ChangesTo(answer, path) == LET at(c) == c.path = path IN Those(answer.changes, at)

Merged(answers) ==
  LET paths == UNION {{c.path : c \in Range(answers[i].changes)} : i \in DOMAIN answers}
      on(p) == {i \in DOMAIN answers : ChangesTo(answers[i], p) # <<>>}
      first(p) == CHOOSE i \in on(p) : \A j \in on(p) : Priority(answers[i].category) <= Priority(answers[j].category)
  IN [p \in paths |->
        LET changes == ChangesTo(answers[first(p)], p)
        IN IF Cardinality(DOMAIN answers) = 1 THEN changes ELSE <<Head(changes)>>]
=============================================================================
