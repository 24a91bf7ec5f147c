------------------------- MODULE AutonomousSession -------------------------
(***************************************************************************)
(* `autodev autonomous start`: the unattended loop of autonomous_mode.py   *)
(* (_start), its state file .autodev/autonomous_state.json, its final      *)
(* report and its incident packet, over any number of processes: a process *)
(* may die at any moment and the operator may start the next one with      *)
(* --resume-state.                                                         *)
(*                                                                         *)
(* The workflow an attempt runs (run_autodev_enterprise) is modelled in    *)
(* TaskRun; here an attempt is its verdict, the outcome of the quality     *)
(* gates and the seconds it took.  A gate outcome keeps the two counts the *)
(* stop guard compares.  The strategy of an attempt, timestamps, budget    *)
(* snapshots and diagnostics are left out.                                 *)
(***************************************************************************)
EXTENDS Naturals, Sequences, FiniteSets, FiniteSetsExt, SequencesExt

CONSTANTS
  MaxIterations,     \* policy.max_iterations
  TimeBudget,        \* policy.time_budget_sec
  MaxGateFailures,   \* stop_guard_policy.max_consecutive_gate_failures
  MaxNoImprovement,  \* stop_guard_policy.max_consecutive_no_improvement
  GateOutcomes,      \* what the gates may find: records [gates, reasons]
  Durations,         \* the seconds an attempt may take
  GatePolicies,      \* whether a start's config has a quality_gate_policy
  TornWrites,        \* whether a crash may cut a write of a file short
  MaxStarts          \* bound: processes started (exploration only)

VARIABLES
  pc,        \* where the process is; "down" when there is none
  st,        \* the dict `state` of the process
  ok,        \* the local `ok`
  clock,     \* seconds since the process started its loop
  gated,     \* this process's config has a quality_gate_policy
  file,      \* autonomous_state.json
  report,    \* autonomous_report.json
  incident,  \* autonomous_incident_packet.json exists
  exit,      \* how the last process ended: "zero", "one" or "none"
  ran,       \* history: the iterations whose workflow was started
  reran,     \* history: an iteration's workflow was started twice
  here,      \* history: attempts started by this process
  spent,     \* history: seconds spent by the session, up to TimeBudget
  starts     \* processes started so far

vars == <<pc, st, ok, clock, gated, file, report, incident, exit,
          ran, reran, here, spent, starts>>
history == <<ran, reran, here, spent, starts>>
disk == <<file, report, incident>>

ASSUME PolicyAssumption ==
  /\ MaxIterations \in Nat \ {0} /\ TimeBudget \in Nat \ {0}
  /\ MaxGateFailures \in Nat \ {0} /\ MaxNoImprovement \in Nat \ {0}
  /\ Durations \subseteq Nat /\ MaxStarts \in Nat
  /\ GatePolicies \subseteq BOOLEAN /\ TornWrites \in BOOLEAN
  /\ \A g \in GateOutcomes : g.gates \in Nat /\ g.reasons \in Nat

Absent == [kind |-> "absent"]
Torn == [kind |-> "torn"]      \* not valid JSON

\* An attempt no gate was evaluated for has the outcome NoGates.
NoGates == [gates |-> 0, reasons |-> 0, evaluated |-> FALSE]
GateResults ==
  {[gates |-> g.gates, reasons |-> g.reasons, evaluated |-> TRUE] :
     g \in GateOutcomes}

Attempts ==
  [iter : 1..MaxIterations, flow : BOOLEAN, gate : GateResults \cup {NoGates},
   ok : BOOLEAN, guard : BOOLEAN]

NewState ==
  [kind |-> "state", status |-> "running", phase |-> "ingest", cur |-> 0,
   attempts |-> <<>>, reason |-> "none"]

States ==
  [kind : {"state"}, status : {"running", "completed", "failed"},
   phase : {"ingest", "plan", "execute", "auto_fix_retry", "completed", "failed"},
   cur : 0..MaxIterations, attempts : Seq(Attempts),
   reason : {"none", "preflight_failed", "time_budget_exceeded",
             "autonomous_guard_stop", "max_iterations_exceeded"}]

TypeOK ==
  /\ pc \in {"down", "preflight", "loop", "plan", "execute", "decide",
             "finish", "incident", "report"}
  /\ st \in States
  /\ ok \in BOOLEAN /\ gated \in BOOLEAN /\ incident \in BOOLEAN
  /\ clock \in 0..TimeBudget /\ spent \in 0..TimeBudget
  /\ file \in States \cup {Absent, Torn}
  /\ \/ report \in {Absent, Torn}
     \/ report \in [kind : {"report"}, attempts : Seq(Attempts), ok : BOOLEAN]
  /\ exit \in {"zero", "one", "none"}
  /\ ran \subseteq 1..MaxIterations /\ reran \in BOOLEAN
  /\ here \in 0..MaxIterations /\ starts \in 0..MaxStarts

-----------------------------------------------------------------------------
(* The stop guard *)

Passed(g) == g.reasons = 0

\* _has_measurable_gate_improvement: any count that went down is enough.
Improved(g, h) ==
  \/ Passed(h) /\ ~ Passed(g)
  \/ h.gates < g.gates
  \/ h.reasons < g.reasons

\* The gate attempts since the last one whose gates passed.
FailingTail(as) ==
  LET gs == SelectSeq(as, LAMBDA a : a.gate.evaluated)
      passed == {i \in DOMAIN gs : Passed(gs[i].gate)}
  IN  SubSeq(gs, 1 + Max(passed \cup {0}), Len(gs))

\* The number of last steps of the tail that brought no improvement.
NoImprovementStreak(tail) ==
  LET better == {i \in 2..Len(tail) : Improved(tail[i - 1].gate, tail[i].gate)}
  IN  Len(tail) - Max(better \cup {1})

\* _evaluate_stop_guard_decision.
GuardStops(as) ==
  LET tail == FailingTail(as)
  IN  /\ tail # <<>>
      /\ \/ Len(tail) >= MaxGateFailures
         \/ NoImprovementStreak(tail) >= MaxNoImprovement

-----------------------------------------------------------------------------
(* Loading the state *)

\* Mutant: current_iteration is taken from the recorded attempts alone.
NormalizeFromAttempts(s) ==
  [s EXCEPT !.cur = Max({0} \cup {s.attempts[k].iter : k \in DOMAIN s.attempts})]

\* Attempts of different iterations, in the order of these.
ByIteration(as) ==
  CHOOSE s \in [1..Cardinality(as) -> as] :
    \A i, j \in DOMAIN s : i < j => s[i].iter < s[j].iter

\* _normalize_state_for_resume: one attempt per iteration, the latest, in
\* order, and current_iteration not behind them.
Normalize(s) ==
  LET as == s.attempts
      kept == {as[k] : k \in {j \in DOMAIN as :
                 \A m \in j + 1..Len(as) : as[m].iter # as[j].iter}}
  IN  [s EXCEPT !.attempts = ByIteration(kept),
                !.cur = Max({s.cur} \cup {a.iter : a \in kept})]

\* A state file that cannot be read is replaced by the attempts of the last
\* report, if there is a readable one.
Recovered ==
  LET as == IF report.kind = "report" THEN report.attempts ELSE <<>>
  IN  IF as = <<>> THEN NewState
      ELSE [NewState EXCEPT !.attempts = as, !.phase = "auto_fix_retry",
                            !.cur = Max({as[k].iter : k \in DOMAIN as})]

\* Mutant: a resume starts from the last report.
LoadedFromReport == Normalize(Recovered)

Loaded == Normalize(IF file = Torn THEN Recovered ELSE file)

Init ==
  /\ pc = "down" /\ st = NewState /\ ok = FALSE /\ clock = 0 /\ gated = TRUE
  /\ file = Absent /\ report = Absent /\ incident = FALSE /\ exit = "none"
  /\ ran = {} /\ reran = FALSE /\ here = 0 /\ spent = 0 /\ starts = 0

\* What every start does before its preflight.
Begin(policy) ==
  /\ pc = "down" /\ starts < MaxStarts
  /\ pc' = "preflight" /\ ok' = FALSE /\ clock' = 0 /\ exit' = "none"
  /\ gated' = policy
  /\ here' = 0 /\ starts' = starts + 1
  /\ UNCHANGED disk

\* autodev autonomous start, in a directory that may hold an older session.
StartFresh(policy) ==
  /\ Begin(policy)
  /\ st' = NewState
  /\ ran' = {} /\ reran' = FALSE /\ spent' = 0

\* autodev autonomous start --resume-state; with no state file it exits.
StartResume(policy) ==
  /\ Begin(policy)
  /\ file # Absent
  /\ st' = Loaded
  /\ UNCHANGED <<ran, reran, spent>>

\* The preflight refuses: persisted, then reported like any failure.
PreflightFails ==
  /\ pc = "preflight"
  /\ st' = [st EXCEPT !.status = "failed", !.phase = "failed",
                      !.reason = "preflight_failed"]
  /\ file' = st' /\ pc' = "incident"
  /\ UNCHANGED <<ok, clock, gated, report, incident, exit, history>>

PreflightPasses ==
  /\ pc = "preflight"
  /\ file' = st /\ pc' = "loop"
  /\ UNCHANGED <<st, ok, clock, gated, report, incident, exit, history>>

-----------------------------------------------------------------------------
(* The loop of iterations *)

\* The process persists the state s and goes on at q.
Persist(s, q) ==
  /\ st' = s /\ file' = s /\ pc' = q
  /\ UNCHANGED <<report, incident, exit, gated>>

Fail(why) == [st EXCEPT !.status = "failed", !.phase = "failed", !.reason = why]

\* Mutant: off by one in the loop condition.
LoopEndsLate ==
  /\ pc = "loop" /\ st.cur > MaxIterations
  /\ pc' = "finish"
  /\ UNCHANGED <<st, ok, clock, gated, disk, exit, history>>

\* The loop condition is false before the first attempt of this process.
LoopEnds ==
  /\ pc = "loop" /\ st.cur >= MaxIterations
  /\ pc' = "finish"
  /\ UNCHANGED <<st, ok, clock, gated, disk, exit, history>>

BudgetSpent ==
  /\ pc = "loop" /\ st.cur < MaxIterations
  /\ clock >= TimeBudget
  /\ Persist(Fail("time_budget_exceeded"), "finish")
  /\ UNCHANGED <<ok, clock, history>>

\* The iteration is taken, and persisted, before its workflow starts.
Plan ==
  /\ pc = "loop" /\ st.cur < MaxIterations
  /\ clock < TimeBudget
  /\ Persist([st EXCEPT !.cur = @ + 1, !.phase = "plan"], "plan")
  /\ UNCHANGED <<ok, clock, history>>

Execute ==
  /\ pc = "plan"
  /\ Persist([st EXCEPT !.phase = "execute"], "execute")
  /\ ran' = ran \cup {st.cur} /\ reran' = (reran \/ st.cur \in ran)
  /\ here' = here + 1
  /\ UNCHANGED <<ok, clock, spent, starts>>

UpTo(n) == IF n < TimeBudget THEN n ELSE TimeBudget

Elapse(d) == clock' = UpTo(clock + d) /\ spent' = UpTo(spent + d)

\* Mutant: a failing gate is recorded but does not clear ok.
RecordUngated(flow, gate, d) ==
  LET a == [iter |-> st.cur, flow |-> flow, gate |-> gate,
            ok |-> flow, guard |-> FALSE]
  IN  /\ Persist([st EXCEPT !.attempts = Append(@, a)], "decide")
      /\ ok' = flow

\* The attempt is over: flow is the workflow's verdict, gate what the gates
\* found (NoGates when the workflow raised ValueError or no policy is set).
\* The guard looks at all attempts, this one included, and may veto it.
RecordAttempt(flow, gate, d) ==
  LET passed == flow /\ (gate.evaluated => Passed(gate))
      a == [iter |-> st.cur, flow |-> flow, gate |-> gate,
            ok |-> passed, guard |-> FALSE]
      stop == GuardStops(Append(st.attempts, a))
      b == IF stop THEN [a EXCEPT !.ok = FALSE, !.guard = TRUE] ELSE a
  IN  /\ Persist([st EXCEPT !.attempts = Append(@, b),
                            !.reason = IF stop THEN "autonomous_guard_stop" ELSE @],
                 "decide")
      /\ ok' = b.ok

AttemptEnds ==
  /\ pc = "execute"
  /\ \E flow \in BOOLEAN, gate \in GateResults \cup {NoGates}, d \in Durations :
       /\ gate.evaluated => gated
       /\ gated /\ flow => gate.evaluated
       /\ RecordAttempt(flow, gate, d)
       /\ Elapse(d)
  /\ UNCHANGED <<ran, reran, here, starts>>

Stopped == st.attempts[Len(st.attempts)].guard

\* A success leaves a failure_reason of an earlier process in place.
Complete ==
  /\ pc = "decide" /\ ok
  /\ Persist([st EXCEPT !.status = "completed", !.phase = "completed"], "finish")
  /\ UNCHANGED <<ok, clock, history>>

GuardStop ==
  /\ pc = "decide" /\ ~ ok /\ Stopped
  /\ Persist([st EXCEPT !.status = "failed", !.phase = "failed"], "finish")
  /\ UNCHANGED <<ok, clock, history>>

IterationsSpent ==
  /\ pc = "decide" /\ ~ ok /\ ~ Stopped
  /\ st.cur >= MaxIterations
  /\ Persist(Fail("max_iterations_exceeded"), "finish")
  /\ UNCHANGED <<ok, clock, history>>

Retry ==
  /\ pc = "decide" /\ ~ ok /\ ~ Stopped
  /\ st.cur < MaxIterations
  /\ Persist([st EXCEPT !.phase = "auto_fix_retry"], "loop")
  /\ UNCHANGED <<ok, clock, history>>

-----------------------------------------------------------------------------
(* The end of a process *)

Finish ==
  /\ pc = "finish"
  /\ Persist(st, "incident")
  /\ UNCHANGED <<ok, clock, history>>

\* There is no process, and its memory is gone.
Down ==
  /\ pc' = "down"
  /\ st' = NewState /\ ok' = FALSE /\ clock' = 0 /\ gated' = TRUE /\ here' = 0

\* A failure leaves an incident packet; a success leaves an older one alone.
EmitIncident ==
  /\ pc = "incident"
  /\ incident' = (incident \/ ~ ok)
  /\ pc' = "report"
  /\ UNCHANGED <<st, ok, clock, gated, file, report, exit, history>>

EmitReport ==
  /\ pc = "report"
  /\ report' = [kind |-> "report", attempts |-> st.attempts, ok |-> ok]
  /\ exit' = IF ok THEN "zero" ELSE "one"
  /\ Down
  /\ UNCHANGED <<file, incident, ran, reran, spent, starts>>

\* The process dies (killed, or an exception other than ValueError).  A write
\* that was under way may leave its file cut short.
Crash ==
  /\ pc # "down"
  /\ Down
  /\ \/ UNCHANGED <<file, report>>
     \/ TornWrites /\ pc \notin {"incident", "report"} /\ file' = Torn /\ UNCHANGED report
     \/ TornWrites /\ pc = "report" /\ report' = Torn /\ UNCHANGED file
  /\ IF pc = "execute" THEN \E d \in Durations : spent' = UpTo(spent + d)
     ELSE UNCHANGED spent
  /\ UNCHANGED <<incident, exit, ran, reran, starts>>

Step ==
  \/ PreflightFails \/ PreflightPasses
  \/ LoopEnds \/ BudgetSpent \/ Plan \/ Execute \/ AttemptEnds
  \/ Complete \/ GuardStop \/ IterationsSpent \/ Retry
  \/ Finish \/ EmitIncident \/ EmitReport

Next ==
  \/ Step
  \/ Crash
  \/ \E p \in GatePolicies : StartFresh(p) \/ StartResume(p)

Spec == Init /\ [][Next]_vars

\* A process that is up goes on: nothing in the loop waits for anybody.
FairSpec == Spec /\ WF_vars(Step)

-----------------------------------------------------------------------------
(* Properties *)

Resumed == \E p \in GatePolicies : StartResume(p)

\* Whatever the crashes and restarts, a session runs the workflow of an
\* iteration at most once: the iteration is on disk before its workflow starts,
\* and a resume goes on behind it (_start 3846-3854, 3823).
NoIterationRunTwice == ~ reran

\* Attempts on disk are evidence: a resume takes over every attempt the state
\* file records, and no later write of the session drops, reorders or rewrites
\* one (append at 3978, normalization at 2376-2403).
EvidenceKept ==
  [][/\ Resumed /\ file.kind = "state" => st'.attempts = file.attempts
     /\ (pc # "preflight" /\ file.kind = "state" /\ file'.kind = "state")
          => IsPrefix(file.attempts, file'.attempts)]_vars

\* Exit code 0 is earned: the session is completed on disk, the report says so,
\* and the attempt that ran last passed its workflow and every gate (3956-3972,
\* 4007-4011, 4123-4127).
SuccessIsEarned ==
  exit = "zero" =>
    /\ file.kind = "state" /\ file.status = "completed"
    /\ report.kind = "report" /\ report.ok /\ report.attempts = file.attempts
    /\ LET last == file.attempts[Len(file.attempts)]
       IN  last.iter = file.cur /\ last.flow
           /\ (last.gate.evaluated => Passed(last.gate))

\* A guard stop holds across restarts: once the last MaxGateFailures gate
\* outcomes failed, a process runs no attempt except the first one an operator's
\* --resume-state buys (1202-1277, 4013-4017).
GuardHolds ==
  [][Execute => \/ here = 0
                \/ ~ (Len(FailingTail(st.attempts)) >= MaxGateFailures)]_vars

\* The guard never turns a success into a failure: an attempt recorded as not ok
\* failed its workflow or its own gates (3986-3995).
GuardSparesSuccess ==
  \A k \in DOMAIN st.attempts :
    LET a == st.attempts[k]
    IN  ~ a.ok => ~ a.flow \/ (a.gate.evaluated /\ ~ Passed(a.gate))

\* docs/AUTONOMOUS_MODE.md:256: resuming prevents "duplicate/lost attempt
\* indexing across restart boundaries": between attempts, the recorded attempts
\* are those of iterations 1, 2, .. (it does not hold: the iteration of a process
\* that died during its workflow is never recorded).
NoIndexLost ==
  pc = "loop" => \A k \in DOMAIN st.attempts : st.attempts[k].iter = k

\* docs/AUTONOMOUS_MODE.md:248: retries stay "constrained by max_iterations and
\* time_budget_sec": no attempt starts once the session has spent its budget (it
\* does not hold: every process starts its clock at zero, 3817).
BudgetBoundsSession == [][Execute => spent < TimeBudget]_vars

\* docs/AUTONOMOUS_MODE.md:292-294: a session that came to its end is completed or
\* failed (it does not hold: when a process died in the last iteration, the next
\* one never enters the loop and leaves the status at running).
EndIsTerminal ==
  exit # "none" => file.kind = "state" /\ file.status \in {"completed", "failed"}

\* docs/AUTONOMOUS_MODE.md:261: an incident packet belongs to a failed outcome, a
\* successful one generates none (it does not hold: resuming a session completed
\* in its last iteration reports a failure and emits a packet).
NoIncidentWhenCompleted ==
  [][EmitIncident /\ st.status = "completed" => incident' = incident]_vars

\* A process that started ends: completed, failed or dead.
StartEnds == (pc # "down") ~> (pc = "down")
=============================================================================
