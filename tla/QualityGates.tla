---------------------------- MODULE QualityGates ----------------------------
(***************************************************************************)
(* How an attempt of an autonomous session is judged and what the next one *)
(* tries: the rolling performance baseline of the runs (perf_baseline.py), *)
(* the validator rows as signals (autonomous_gate_signals.py), the quality *)
(* gates with their own history file, and the strategy of a retry          *)
(* (autonomous_mode.py).                                                   *)
(*                                                                         *)
(* A row of the final validation is [name, ok, status, rc, high, sev,      *)
(* said, slower]: ok is "yes", "no" or "none" (not a boolean), status a    *)
(* text, the others numbers, None when the diagnostics do not give them.   *)
(* A ratio is in per cent, cut to an integer.                              *)
(***************************************************************************)
EXTENDS RunConfig, SequencesExt, FiniteSetsExt

CONSTANTS
  RollingWindow,   \* perf_baseline.rolling_window: runs compared with
  HistoryLimit     \* observations a gate's history keeps

ASSUME WindowAssumption ==
  RollingWindow \in Nat \ {0} /\ HistoryLimit \in Nat \ {0}

None == -1
Newest(s, n) == IF Len(s) > n THEN SubSeq(s, Len(s) - n + 1, Len(s)) ELSE s
SumOf(s) == FoldSeq(LAMBDA a, b : a + b, 0, s)
ValuesOf(s) == {s[i] : i \in DOMAIN s}

-----------------------------------------------------------------------------
(* The baseline of the runs *)

Metrics == {"elapsed", "validation", "tokens", "longest", "average", "minimum"}
HigherIsBetter == {"average", "minimum"}
MaxRatio(m) == CASE m = "average" -> 15 [] m = "minimum" -> 20 [] OTHER -> 50
MaxDelta(m) == IF m \in HigherIsBetter \cup {"tokens"} THEN None ELSE 30000

\* collect_run_metrics: a run is [elapsed, calls, tasks], a call the tokens of
\* a role, a task [ms, score].
Snapshot(run) ==
  LET ms == [i \in DOMAIN run.tasks |-> run.tasks[i].ms]
      scores == [i \in DOMAIN run.tasks |-> run.tasks[i].score]
  IN  [elapsed |-> run.elapsed,
       tokens |-> SumOf(run.calls),
       validation |-> SumOf(ms),
       longest |-> Max({0} \cup ValuesOf(ms)),
       average |-> IF scores = <<>> THEN 0 ELSE SumOf(scores) \div Len(scores),
       minimum |-> IF scores = <<>> THEN 0 ELSE Min(ValuesOf(scores))]

\* One metric against the average over the runs, as the sum over n of them.
\* An average of zero gives the ratio 0.
Verdict(m, current, sum, n) ==
  LET delta == IF m \in HigherIsBetter THEN sum - n * current ELSE n * current - sum
      ratio == IF sum > 0 THEN (100 * delta) \div sum ELSE 0
  IN  [ratio |-> ratio,
       ok |-> /\ sum > 0 => ratio <= MaxRatio(m)
              /\ MaxDelta(m) # None => delta <= n * MaxDelta(m)]

\* detect_regression: no verdict before the first run is on file.
Verdicts(snapshot, runs) ==
  IF runs = <<>> THEN {}
  ELSE {Verdict(m, snapshot[m], SumOf([i \in DOMAIN runs |-> runs[i][m]]), Len(runs)) :
          m \in Metrics}

EmptyWindow == [runs |-> <<>>, last |-> {}]

\* record_and_check: compared first, then appended.  A torn file, like a
\* missing one, is an empty window.
Recorded(perf, run) ==
  LET w == IF perf.kind = "file" THEN perf ELSE EmptyWindow
  IN  [kind |-> "file", runs |-> Newest(Append(w.runs, Snapshot(run)), RollingWindow),
       last |-> Verdicts(Snapshot(run), w.runs)]

-----------------------------------------------------------------------------
(* Signals *)

Name(row) ==
  CASE row.name \in {"py_test", "tests", "unit_tests"} -> "pytest"
    [] row.name = "pipaudit" -> "pip_audit"
    [] OTHER -> row.name

\* A boolean ok decides; else the status, if it is a known word; else the code.
Signal(row) ==
  CASE row.ok = "yes" -> "passed"
    [] row.ok = "no" -> "failed"
    [] row.ok = "none" /\ row.status \in {"pass", "passed", "ok", "success"} -> "passed"
    [] row.ok = "none" /\ row.status \in {"fail", "failed", "error", "timeout"} -> "failed"
    [] row.ok = "none" /\ row.status \in {"skipped", "not_run", "unknown"} -> "unknown"
    [] OTHER -> IF row.rc = None THEN "unknown" ELSE IF row.rc = 0 THEN "passed" ELSE "failed"

\* The first source that gives a count; a scanner that failed without one
\* counts for one finding.
HighFindings(row) ==
  IF row.high # None THEN row.high
  ELSE IF row.sev # None THEN row.sev
  ELSE IF row.said # None THEN row.said
  ELSE IF Signal(row) = "failed" THEN 1 ELSE 0

\* The worst positive ratio of the last check, else the worst a row reports.
Regression(perf, rows) ==
  LET ratios == IF perf.kind = "file" THEN {v.ratio : v \in perf.last} ELSE {}
      worse == {r \in ratios : r > 0}
      told == {rows[i].slower : i \in DOMAIN rows} \ {None}
  IN  IF worse # {} THEN Max(worse)
      ELSE IF told # {} THEN Max(told) ELSE None

-----------------------------------------------------------------------------
(* The gates *)

\* Twice the median of a non-empty sequence.
Median2(s) ==
  LET o == SortSeq(s, <)
      n == Len(o)
  IN  IF n % 2 = 1 THEN 2 * o[(n + 1) \div 2] ELSE o[n \div 2] + o[n \div 2 + 1]

\* _detect_baseline_performance_regression: more than a quarter, and at least
\* one per cent, above the median; two observations make a history.
Regressed(value, history) ==
  Len(history) >= 2
  /\ 8 * value > 4 * Median2(history) + Max({8, Median2(history)})

Observe(base, gate, value) ==
  IF value < 0 THEN base
  ELSE [base EXCEPT ![gate] = Newest(Append(@, value), HistoryLimit)]

EmptyBase == [tests |-> <<>>, security |-> <<>>, performance |-> <<>>]

\* A gate's verdict [status, codes, value]; a threshold is a number in halves,
\* Null when the gate is not configured, and no value is at most NaN.
Off == [status |-> "not_configured", codes |-> <<>>, value |-> None]
Skipped == [Off EXCEPT !.status = "skipped"]
Judged(good, codes, value) ==
  [status |-> IF good THEN "passed" ELSE "failed", codes |-> codes, value |-> value]

TestsGate(min, rows) ==
  LET mine == {i \in DOMAIN rows : Name(rows[i]) = "pytest"}
      passed == {i \in mine : Signal(rows[i]) = "passed"}
      good == min.n # NaN /\ 2 * Cardinality(passed) >= min.n * Cardinality(mine)
  IN  IF min = Null THEN Off
      ELSE IF mine = {} THEN Skipped
      ELSE Judged(good, IF good THEN <<>> ELSE <<"tests">>,
                  (100 * Cardinality(passed)) \div Cardinality(mine))

SecurityGate(max, rows) ==
  LET mine == SelectSeq(rows, LAMBDA r : Name(r) \in {"bandit", "semgrep", "pip_audit"})
      high == SumOf([i \in DOMAIN mine |-> HighFindings(mine[i])])
  IN  IF max = Null THEN Off
      ELSE IF mine = <<>> THEN Skipped
      ELSE Judged(2 * high <= max.n, IF 2 * high <= max.n THEN <<>> ELSE <<"security">>, high)

PerformanceGate(max, value, history) ==
  LET within == max.n # NaN /\ 2 * value <= max.n
      worse == Regressed(value, history)
  IN  IF max = Null THEN Off
      ELSE IF value = None THEN Skipped
      ELSE Judged(within /\ ~ worse,
                  (IF within THEN <<>> ELSE <<"perf_max">>)
                  \o (IF worse THEN <<"perf_baseline">> ELSE <<>>), value)

\* The composite score only advises.
Composite(min, quality) ==
  [status |-> IF min = Null THEN "info"
              ELSE IF min.n # NaN /\ 2 * quality.score >= min.n /\ ~ quality.hard
              THEN "passed" ELSE "advisory_warning",
   hard |-> quality.hard, score |-> quality.score, parts |-> quality.parts]

\* _evaluate_quality_gates.  The history file is written before the outcome is
\* anybody's; an unreadable one counts as a new one.
Evaluate(policy, rows, quality, perf, file) ==
  LET base == IF file.kind = "file" THEN file.of ELSE EmptyBase
      verdict == [tests |-> TestsGate(policy.tests, rows),
                  security |-> SecurityGate(policy.security, rows),
                  performance |-> PerformanceGate(policy.performance,
                                    Regression(perf, rows), base.performance)]
      Seen(b, g) == Observe(b, g, verdict[g].value)
  IN  [codes |-> verdict.tests.codes \o verdict.security.codes \o verdict.performance.codes,
       failed |-> Cardinality({g \in DOMAIN verdict : verdict[g].status = "failed"}),
       composite |-> Composite(policy.composite, quality),
       base |-> Seen(Seen(Seen(base, "tests"), "security"), "performance")]

-----------------------------------------------------------------------------
(* The strategy of a retry *)

Order == <<"tests-focused", "security-focused", "perf-focused", "mixed">>
FocusOf(code) ==
  CASE code = "tests" -> "tests-focused"
    [] code = "security" -> "security-focused"
    [] OTHER -> "perf-focused"

\* One domain of failures has its strategy; none or several are mixed.
Routed(codes) ==
  LET names == {FocusOf(codes[i]) : i \in DOMAIN codes}
  IN  IF Cardinality(names) = 1 THEN CHOOSE x \in names : TRUE ELSE "mixed"

\* The weakest part below sixty, the first of equals; simplicity is not asked.
Parts == <<"tests", "lint", "types", "security">>
WeakestPart(parts) ==
  LET weak == {i \in DOMAIN Parts :
                 /\ parts[Parts[i]] < 60
                 /\ \A j \in DOMAIN Parts : /\ parts[Parts[i]] <= parts[Parts[j]]
                                            /\ j < i => parts[Parts[i]] < parts[Parts[j]]}
  IN  IF weak = {} THEN "mixed"
      ELSE IF Max(weak) = 4 THEN "security-focused" ELSE "tests-focused"

\* The first of the cyclic order behind it that the last two did not try.
Rotated(name, attempts) ==
  LET recent == {attempts[i].strategy : i \in {Len(attempts) - 1, Len(attempts)} \cap DOMAIN attempts}
      at == CHOOSE i \in DOMAIN Order : Order[i] = name
      Turn(k) == Order[((at - 1 + k) % Len(Order)) + 1]
      free == {k \in DOMAIN Order : Turn(k) \notin recent}
  IN  Turn(IF free = {} THEN 1 ELSE Min(free))

\* _has_measurable_gate_improvement, with the codes that are distinct anyway.
Better(a, b) ==
  \/ b.codes = <<>> /\ a.codes # <<>>
  \/ b.failed < a.failed
  \/ Len(b.codes) < Len(a.codes)

\* Mutant: the two attempts are compared the wrong way round.
StrategySwapped(attempts) ==
  LET last == attempts[Len(attempts)]
      routed == Routed(last.codes)
      wanted == IF routed = "mixed" /\ last.gated THEN WeakestPart(last.composite.parts)
                ELSE routed
      same == {i \in DOMAIN attempts : attempts[i].strategy = wanted /\ attempts[i].gated}
      newest == Max(same)
      older == Max(same \ {newest})
  IN  IF attempts = <<>> THEN "mixed"
      ELSE IF Cardinality(same) >= 2 /\ ~ Better(attempts[newest], attempts[older])
      THEN Rotated(wanted, attempts) ELSE wanted

\* _resolve_retry_strategy over the attempts of the session, an older process's
\* included.
Strategy(attempts) ==
  LET last == attempts[Len(attempts)]
      routed == Routed(last.codes)
      wanted == IF routed = "mixed" /\ last.gated THEN WeakestPart(last.composite.parts)
                ELSE routed
      same == {i \in DOMAIN attempts : attempts[i].strategy = wanted /\ attempts[i].gated}
      newest == Max(same)
      older == Max(same \ {newest})
  IN  IF attempts = <<>> THEN "mixed"
      ELSE IF Cardinality(same) >= 2 /\ ~ Better(attempts[older], attempts[newest])
      THEN Rotated(wanted, attempts) ELSE wanted
=============================================================================
