---------------------------- MODULE TrustRecord ----------------------------
(***************************************************************************)
(* The trust packet of a run (trust_intelligence.py): six signals over the *)
(* summary, the files of the run, the approvals and the workflow of its    *)
(* reviewers, and whether a human has to look at it.                       *)
(*                                                                         *)
(* Scores are in per cent, cut to an integer.  Times are numbers, None     *)
(* when a text is empty or spells no time.  Hashes, wording and the texts  *)
(* of explanations are left out: they decide nothing.                      *)
(***************************************************************************)
EXTENDS SessionSummary

\* The files the packet refers to; a packet a completed run needs none of is
\* there (_is_present_status).
Present(art, name) ==
  IF name = "packet" THEN PacketStatus(art) \in {"ok", "not_generated"}
  ELSE Found(art[name])
Lacking(art, names) == {n \in names : ~ Present(art, n)}

Clamp(n) == Max({0, Min({100, n})})
Share(part, whole) == (100 * part) \div whole
Mean(parts) == Share(Cardinality({i \in DOMAIN parts : parts[i]}), Len(parts))

-----------------------------------------------------------------------------
(* The signals *)

\* The gate's composite score of the last gated attempt, else the last entry of
\* the experiment log.
LatestQuality(art) ==
  IF Found(art.report) /\ art.report.of.gate # <<>>
  THEN LET a == art.report.of.gate[1]
       IN  [source |-> "gate", status |-> a.composite.status, score |-> a.composite.score,
            hard |-> a.composite.hard, codes |-> a.codes]
  ELSE IF Found(art.exper) /\ art.exper.of # <<>>
  THEN LET e == art.exper.of[Len(art.exper.of)]
       IN  [source |-> "log", status |-> e.decision, score |-> e.score,
            hard |-> e.hard, codes |-> e.failed]
  ELSE [source |-> "none", status |-> "unknown", score |-> 40, hard |-> FALSE, codes |-> <<>>]

Drafts == {"draft"}   \* the ticket's markdown and its JSON

\* _derive_evidence_integrity_signal.
RequiredFiles(status) ==
  CASE status = "completed" -> {"report", "trace"}
    [] status = "failed" -> {"report", "gates", "guard", "trace", "packet"} \cup Drafts
    [] OTHER -> {"report", "gates", "guard", "trace"}
WantedFiles(status) ==
  {"meta", "exper", "strategy"} \cup (IF status = "completed" THEN {"gates", "guard"} ELSE {})

\* The draft counts for its two files.
Weight(names) == Cardinality(names) + (IF Drafts \subseteq names THEN 1 ELSE 0)
Coverage(art, names) == 100 - Share(Weight(Lacking(art, names)), Weight(names))

EvidenceScore(art, status) ==
  (80 * Coverage(art, RequiredFiles(status)) + 20 * Coverage(art, WantedFiles(status))) \div 100

Decisions(art, word) ==
  IF Found(art.exper) THEN Len(SelectSeq(art.exper.of, LAMBDA e : e.decision = word)) ELSE 0

\* _derive_validation_signal.
ValidationScore(art, s, q) ==
  LET gates == s.passes + s.fails
      kept == Decisions(art, "accepted")
      tried == kept + Decisions(art, "reverted")
      done == s.status = "completed"
      sum == 55 * q.score
             + 20 * (IF gates > 0 THEN Share(s.passes, gates) ELSE IF done THEN 100 ELSE 40)
             + 15 * (IF tried > 0 THEN Share(kept, tried) ELSE IF done THEN 100 ELSE 50)
             + 10 * (IF q.source = "none" THEN 35 ELSE 100)
      penalty == (IF q.hard THEN 40 ELSE 0)
                 + (IF s.status = "failed" THEN 25 ELSE 0)
                 + (IF s.preflight # "passed" THEN 15 ELSE 0)
                 + (IF q.status \in {"advisory_warning", "neutral", "soft_fail"} THEN 10 ELSE 0)
  IN  Clamp(sum \div 100 - penalty)

\* _derive_change_surface: what the failed codes and validators are about.
Surface(s, q) ==
  LET named == ValuesOf(s.dominant) \cup ValuesOf(q.codes)
      about == (IF named \cap {"security", "bandit", "semgrep"} # {} THEN {"security"} ELSE {})
               \cup (IF named \cap {"perf_max", "perf_baseline"} # {} THEN {"performance"} ELSE {})
               \cup (IF named \cap {"tests", "pytest"} # {} THEN {"tests"} ELSE {})
  IN  IF about = {} THEN "general"
      ELSE IF Cardinality(about) = 1 THEN CHOOSE x \in about : TRUE ELSE "mixed"

\* _derive_policy_traceability_signal: guidance and routing are never empty.
TraceabilityScore(s) ==
  Mean(<<s.preflight # "unknown", TRUE, TRUE>>
       \o (IF s.status = "completed" THEN <<>> ELSE <<s.guard # "none">>))

ReadinessScore(art, s) ==
  Mean(<<TRUE, TRUE, TRUE>>
       \o (IF s.status = "failed"
           THEN <<Present(art, "packet"), Present(art, "draft"), Present(art, "draft")>>
           ELSE <<>>))

\* A run whose routing was high or critical at any time stays high risk.
Risk(s, q) ==
  IF \/ q.hard \/ s.status = "failed" \/ s.preflight # "passed"
     \/ s.routing.severity \in {"high", "critical"}
  THEN "high"
  ELSE IF \/ s.fails > 0 \/ q.status \notin {"passed", "accepted", "ok"}
          \/ Surface(s, q) \in {"mixed", "security", "performance"}
  THEN "moderate" ELSE "low"

PolicyFiles(risk) ==
  {"report", "trace"}
  \cup (IF risk = "low" THEN {} ELSE {"meta", "gates", "guard", "exper"})
  \cup (IF risk = "high" THEN {"packet"} \cup Drafts ELSE {})

\* Mutant: what is missing does not matter.
EnforcementLax(art, s, q) ==
  LET risk == Risk(s, q)
      decision == IF q.hard \/ s.preflight # "passed" THEN "blocked"
                  ELSE IF risk = "high" THEN "review_required" ELSE "approved"
  IN  [risk |-> risk, decision |-> decision, missing |-> {},
       roles |-> IF decision = "approved" THEN {}
                 ELSE IF risk = "high" THEN {"operator", "developer"} ELSE {"operator"},
       score |-> 100]

\* _derive_policy_enforcement_signal.
Enforcement(art, s, q) ==
  LET risk == Risk(s, q)
      missing == Lacking(art, PolicyFiles(risk))
      decision == IF q.hard \/ s.preflight # "passed" \/ (risk = "high" /\ missing # {})
                  THEN "blocked"
                  ELSE IF \/ risk # "low" \/ missing # {}
                          \/ q.status \notin {"passed", "accepted", "ok"}
                  THEN "review_required" ELSE "approved"
  IN  [risk |-> risk, decision |-> decision, missing |-> missing,
       roles |-> IF decision = "approved" THEN {}
                 ELSE IF risk = "high" THEN {"operator", "developer"} ELSE {"operator"},
       score |-> Clamp((CASE decision = "approved" -> 100 [] decision = "blocked" -> 22
                          [] OTHER -> 62) - Min({25, 5 * Weight(missing)}))]

-----------------------------------------------------------------------------
(* Approvals and workflow *)

\* Rows with one of the three known decisions; the words that spell them are
\* normalized by case.
ApprovalRows(approvals) ==
  SelectSeq(approvals, LAMBDA a : a.decision \in {"approve", "reject", "acknowledge"})

Rows(approvals, word) == SelectSeq(ApprovalRows(approvals), LAMBDA a : a.decision = word)

\* One reviewer under two roles fills both; a rejection cannot be taken back.
ApprovalState(e, approvals) ==
  LET yes == Rows(approvals, "approve")
      roles == {yes[i].role : i \in DOMAIN yes}
      needed == Cardinality(e.roles)
  IN  IF e.decision = "blocked" THEN "blocked"
      ELSE IF needed = 0 THEN "not_required"
      ELSE IF Rows(approvals, "reject") # <<>> THEN "rejected"
      ELSE IF Len(yes) >= needed /\ e.roles \subseteq roles THEN "approved"
      ELSE "pending"

Escalation(state, overdue, flow, now) ==
  LET own == IF overdue THEN "escalated"
             ELSE IF state \in {"pending", "blocked"} /\ flow.targets THEN "watch"
             ELSE IF state = "rejected" THEN "blocked" ELSE "clear"
      told == IF flow.manual = "escalated" THEN "escalated"
              ELSE IF flow.manual = "cleared" /\ own # "blocked" /\ ~ overdue THEN "clear"
              ELSE own
      sleeping == flow.snoozed # None /\ flow.snoozed > now
  IN  IF sleeping /\ ~ overdue /\ state \in {"pending", "blocked"} /\ flow.manual # "escalated"
      THEN "snoozed" ELSE told

\* _derive_governance_signal: only what is pending can expire.
Governance(e, approvals, flow, now) ==
  LET state == ApprovalState(e, approvals)
      overdue == flow.due # None /\ flow.due < now /\ state = "pending"
      base == CASE state = "blocked" -> 15 [] state = "rejected" -> 10
                [] state = "pending" -> IF Rows(approvals, "approve") # <<>> THEN 45 ELSE 30
                [] OTHER -> 100
  IN  [state |-> IF overdue THEN "expired" ELSE state,
       escalation |-> Escalation(state, overdue, flow, now),
       score |-> IF overdue \/ flow.manual = "escalated" THEN Min({base, 18}) ELSE base]

-----------------------------------------------------------------------------
(* The packet *)

\* A trace without events although the model was called.
TraceSilent(art) == Found(art.trace) /\ art.trace.of.events = 0 /\ art.trace.of.calls > 0

\* _derive_overall_trust_signal.
ReviewReasons(art, s, q, e, g) ==
  If(s.preflight # "passed", "preflight")
  \cup If(q.hard, "hard_blocked")
  \cup If(s.status = "failed", "run_failed")
  \cup If(Lacking(art, RequiredFiles(s.status)) # {}, "missing_required")
  \cup If(s.diagnostics > 0 /\ s.status # "completed", "diagnostics")
  \cup If(s.warnings # {} /\ s.status # "completed", "warnings")
  \cup If(TraceSilent(art), "trace_silent")
  \cup If(q.status \notin {"passed", "accepted"}, "quality")
  \cup If(e.decision # "approved", "policy")
  \cup If(g.state \notin {"approved", "not_required"}, "approval")

OverallScore(art, s, q, e, g) ==
  LET sum == 20 * EvidenceScore(art, s.status) + 32 * ValidationScore(art, s, q)
             + 10 * TraceabilityScore(s) + 13 * ReadinessScore(art, s)
             + 15 * e.score + 10 * g.score
      open == s.status # "completed"
  IN  Clamp(sum \div 100
            - (IF open THEN Min({15, 3 * s.diagnostics}) + Min({10, 2 * Cardinality(s.warnings)})
               ELSE 0))

Assembled(art, s, q, e, g) ==
  LET why == ReviewReasons(art, s, q, e, g)
      score == OverallScore(art, s, q, e, g)
  IN  [status |-> s.status, score |-> score, reasons |-> why, decision |-> e.decision,
       risk |-> e.risk, approval |-> g.state, escalation |-> g.escalation,
       review |-> why # {} \/ score < 85]
Governed(art, s, q, e, now) ==
  Assembled(art, s, q, e, Governance(e, art.approvals, art.workflow, now))
Enforced(art, s, q, now) == Governed(art, s, q, Enforcement(art, s, q), now)

\* build_trust_intelligence_packet, as a reader at `now` gets it.
Trust(art, now) == Enforced(art, Summary(art), LatestQuality(art), now)
=============================================================================
