--------------------------- MODULE SessionSummary ---------------------------
(***************************************************************************)
(* What a session leaves behind for its operators and what                 *)
(* `autodev autonomous summary` reads back from those files                *)
(* (autonomous_mode.py).                                                   *)
(*                                                                         *)
(* A file is [kind |-> "absent"], [kind |-> "torn"] or [kind |-> "file",   *)
(* of |-> what it says].  An attempt is [iter, ok, gated, codes, failed,   *)
(* composite, strategy, guard], guard being the stop guard's reason or     *)
(* "none".  Paths, texts, playbooks and identities are left out.           *)
(***************************************************************************)
EXTENDS QualityGates

\* The elements of s at the positions K, in order.
Picked(s, K) ==
  LET place(k) == Cardinality({j \in K : j < k}) + 1
  IN  [i \in 1..Cardinality(K) |-> s[CHOOSE k \in K : place(k) = i]]

Gated(attempts) == Picked(attempts, {k \in DOMAIN attempts : attempts[k].gated})
Decided(attempts) == Picked(attempts, {k \in DOMAIN attempts : attempts[k].guard # "none"})
OrNone(s) == IF s = <<>> THEN "none" ELSE s[Len(s)]

\* Each text once, where it stood first.
Unique(s) == SelectSeq([i \in DOMAIN s |-> <<i, s[i]>>],
                       LAMBDA p : \A j \in 1..p[1] - 1 : s[j] # p[2])
Distinct(s) == LET u == Unique(s) IN [i \in DOMAIN u |-> u[i][2]]

AllCodes(attempts) == FoldSeq(LAMBDA a, acc : acc \o a.codes, <<>>, attempts)
CountOf(code, s) == Cardinality({i \in DOMAIN s : s[i] = code})

\* Counter.most_common: by count, the first seen first among equals.
Dominant(attempts) ==
  LET all == AllCodes(attempts)
  IN  SortSeq(Distinct(all),
        LAMBDA c, d : \/ CountOf(c, all) > CountOf(d, all)
                      \/ /\ CountOf(c, all) = CountOf(d, all)
                         /\ \E i \in DOMAIN all : all[i] = c /\ \A j \in 1..i : all[j] # d)

-----------------------------------------------------------------------------
(* Codes and whom they concern *)

Severity(code) ==
  CASE code = "security" -> "critical"
    [] code \in {"tests", "perf_max", "repeated", "artifacts_not_writable"} -> "high"
    [] code = "token_budget" -> "low"
    [] OTHER -> "medium"

\* The order the session's codes are told in: preflight, budget, then each
\* attempt's failures and the guard's reason.
OperatorCodes(s) ==
  s.preflight \o s.budget
  \o FoldSeq(LAMBDA a, acc : acc \o a.codes
                             \o (IF a.guard = "none" THEN <<>> ELSE <<a.guard>>),
             <<>>, s.attempts)

\* An incident goes to the owner of its first code, whatever comes behind.
Routing(codes) ==
  LET d == Distinct(codes)
  IN  [total |-> Len(d), severity |-> IF d = <<>> THEN "medium" ELSE Severity(d[1]),
       primary |-> IF d = <<>> THEN "unmapped" ELSE d[1]]

\* The budget guard's codes: its decision, then a token budget nobody enforces.
BudgetCodes(decision, tokens) ==
  (IF decision = "none" THEN <<>> ELSE <<decision>>)
  \o (IF tokens THEN <<"token_budget">> ELSE <<>>)

-----------------------------------------------------------------------------
(* What the process writes *)

\* _render_report, of the session [attempts, preflight, budget, resumed].
Report(s, isOk) ==
  [ok |-> isOk, preflight |-> s.preflight, budget |-> s.budget,
   resumed |-> s.resumed, attempts |-> s.attempts,
   gate |-> LET g == Gated(s.attempts) IN IF g = <<>> THEN <<>> ELSE <<g[Len(g)]>>,
   strategy |-> OrNone([i \in DOMAIN s.attempts |-> s.attempts[i].strategy]),
   guard |-> LET d == Decided(s.attempts) IN IF d = <<>> THEN "none" ELSE d[Len(d)].guard,
   guards |-> Len(Decided(s.attempts)),
   routing |-> Routing(OperatorCodes(s)),
   incident |-> ~ isOk]

\* _build_autonomous_incident_packet: the three dominant gate codes, else the
\* first three of all.
Packet(s) ==
  LET d == Dominant(s.attempts)
      codes == IF d = <<>> THEN Distinct(OperatorCodes(s)) ELSE d
  IN  [causes |-> SubSeq(codes, 1, Min({3, Len(codes)})),
       routing |-> Routing(OperatorCodes(s))]

\* _write_guard_decisions_artifact and _write_strategy_trace_artifact.
GuardFile(attempts) ==
  LET d == Decided(attempts)
  IN  [total |-> Len(d), latest |-> IF d = <<>> THEN "none" ELSE d[Len(d)].guard]
StrategyFile(attempts) == OrNone([i \in DOMAIN attempts |-> attempts[i].strategy])

-----------------------------------------------------------------------------
(* What the summary says *)

Found(f) == f.kind = "file"
StatusOf(f) ==
  CASE f.kind = "file" -> "ok" [] f.kind = "absent" -> "missing" [] OTHER -> "invalid"

Outcome(art) ==
  IF ~ Found(art.report) THEN "unknown"
  ELSE IF art.report.of.ok THEN "completed" ELSE "failed"

PacketStatus(art) ==
  IF art.packet.kind = "absent" /\ Outcome(art) = "completed" THEN "not_generated"
  ELSE StatusOf(art.packet)

\* The gate file's attempts when it can be read, else the report's gated ones.
GateAttempts(art) ==
  IF Found(art.gates) THEN art.gates.of
  ELSE IF Found(art.report) THEN Gated(art.report.of.attempts) ELSE <<>>

LatestStrategy(art) ==
  IF Found(art.strategy) /\ art.strategy.of # "none" THEN art.strategy.of
  ELSE IF Found(art.report) THEN art.report.of.strategy ELSE "none"

LatestGuard(art) ==
  IF Found(art.guard) /\ art.guard.of.latest # "none" THEN art.guard.of.latest
  ELSE IF Found(art.report) THEN art.report.of.guard ELSE "none"

GuardTotal(art) ==
  LET told == Found(art.guard) /\ art.guard.of.latest # "none"
  IN  IF ~ told /\ Found(art.report) /\ art.report.of.guard # "none" THEN art.report.of.guards
      ELSE IF Found(art.guard) THEN art.guard.of.total ELSE 0

\* A file that should be there and cannot be read is one warning each.
Warnings(art) ==
  {x \in {"report", "gates", "strategy", "guard"} : ~ Found(art[x])}
  \cup If(Outcome(art) = "failed" /\ ~ Found(art.packet), "packet")
  \cup If(Found(art.report) /\ art.report.of.incident /\ ~ Found(art.draft), "draft")

\* extract_autonomous_summary.
Summary(art) ==
  LET has == Found(art.report)
      r == art.report.of
      g == GateAttempts(art)
      preflight == IF has THEN r.preflight ELSE <<>>
      budget == IF has THEN r.budget ELSE <<>>
      guard == LatestGuard(art)
  IN  [status |-> Outcome(art),
       packet |-> PacketStatus(art),
       preflight |-> IF ~ has THEN "unknown" ELSE IF preflight = <<>> THEN "passed" ELSE "failed",
       passes |-> Cardinality({i \in DOMAIN g : g[i].codes = <<>>}),
       fails |-> Cardinality({i \in DOMAIN g : g[i].codes # <<>>}),
       dominant |-> Dominant(g),
       strategy |-> LatestStrategy(art),
       guard |-> guard, guards |-> GuardTotal(art),
       routing |-> IF has THEN r.routing
                   ELSE Routing(Dominant(g) \o (IF guard = "none" THEN <<>> ELSE <<guard>>)),
       warnings |-> Warnings(art),
       diagnostics |-> Cardinality(Warnings(art))
                       + (IF has THEN r.resumed + Len(preflight)
                                      + CountOf("token_budget", budget) ELSE 0)]
=============================================================================
