------------------------------ MODULE Records ------------------------------
(***************************************************************************)
(* An autonomous session with everything it reads and writes around it:    *)
(* the configuration it is started with, the files an attempt and the end  *)
(* of a process leave in .autodev one after the other, and the people who  *)
(* review the run afterwards.                                              *)
(*                                                                         *)
(* The session itself is AutonomousSession: every step here is one of its  *)
(* steps, or leaves its variables alone.  A process writes one file per    *)
(* step and may die between two of them, or in the middle of one.  Sending *)
(* the incident packet is IncidentSend and left out here.                  *)
(***************************************************************************)
EXTENDS AutonomousSession, TrustRecord

CONSTANTS
  Configs,     \* the configuration files an operator may start with
  Sessions,    \* those of them whose sessions are run
  Places,      \* where the paths of a start lie: records for PreflightReasons
  Outcomes,    \* what the workflow of an attempt may end with
  Reviews,     \* what a reviewer may record: [role, decision]
  Past,        \* the performance files an older run left: [perf, base]
  Flow,        \* the workflow of the run's reviewers before any action
  Restarts,    \* how a later process starts: subset of {"fresh", "resume"}
  TornFiles,       \* whether a death may cut the file under way short
  MaxActs,     \* bound: actions of the reviewers
  MaxHours     \* bound: ticks of their clock

ASSUME ConfigAssumption ==
  \A c \in Configs \cup Sessions : c # [k |-> "none"] /\ ConfigFile(c)

VARIABLES
  cfg,   \* the configuration a start has read, NoConfig otherwise
  mem,   \* what the process knows beyond `st`
  kept,  \* what the state file says beyond `file`
  todo,  \* the files the process writes next, in order
  art,   \* the files of .autodev
  now,   \* the hour of the reviewers
  acts   \* actions of the reviewers so far

records == <<cfg, mem, kept, todo, art, now, acts>>
allVars == <<vars, records>>

NoConfig == [k |-> "none"]
F(x) == [kind |-> "file", of |-> x]
NoAttempt == [iter |-> 0]
NoPolicies == [gates |-> [k |-> "none"], tokens |-> FALSE]
NewMem ==
  [policies |-> NoPolicies, pre |-> <<>>, budget |-> "none", resumed |-> 0,
   det |-> <<>>, cur |-> NoAttempt]

\* What of it goes into the state file with every write of the state.
Noted == [det |-> mem.det, budget |-> mem.budget, resumed |-> mem.resumed]

RecordsInit ==
  /\ Init
  /\ cfg = NoConfig /\ mem = NewMem /\ kept = Noted /\ todo = <<>> /\ now = 0 /\ acts = 0
  /\ art = [report |-> Absent, gates |-> Absent, strategy |-> Absent, guard |-> Absent,
            packet |-> Absent, draft |-> Absent, trace |-> Absent, exper |-> Absent,
            meta |-> Absent, trust |-> Absent, perf |-> Past.perf, base |-> Past.base,
            approvals |-> <<>>, workflow |-> Flow]

-----------------------------------------------------------------------------
(* Starting *)

Idle == pc = "down" /\ cfg = NoConfig /\ todo = <<>>

Launch(c) ==
  /\ Idle /\ starts < MaxStarts
  /\ cfg' = c
  /\ UNCHANGED <<vars, mem, kept, todo, art, now, acts>>

\* A launch that does not become a session leaves everything as it was: the
\* instance tries those configurations once, before any other.
Launched == IF starts = 0 THEN Configs ELSE Sessions

\* The configuration is refused, or one of its policies is, or the process dies
\* before it has a state.
Exits ==
  /\ cfg # NoConfig /\ pc = "down"
  /\ cfg' = NoConfig
  /\ UNCHANGED <<vars, mem, kept, todo, art, now, acts>>

\* The limits of a session are those of AutonomousSession.
Limits(c) ==
  LET p == AutonomousPolicy(c.run)
      g == StopGuardPolicy(c.run)
  IN  /\ p.iterations = Num(MaxIterations) /\ p.seconds = Num(TimeBudget)
      /\ g.failures = Num(MaxGateFailures) /\ g.same = Num(MaxNoImprovement)

\* A state file that cannot be read leaves two diagnostics for the reports to
\* come; _normalize_state_for_resume treats the details as the attempts.
Restored ==
  IF file.kind = "state" THEN kept
  ELSE [det |-> IF Found(art.report) THEN art.report.of.attempts ELSE <<>>,
        budget |-> "none", resumed |-> 2]
Sorted(details) == Normalize([attempts |-> details, cur |-> 0]).attempts

\* What the process keeps of an accepted configuration.
Policies(c) ==
  [gates |-> QualityGatePolicy(c.run),
   tokens |-> AutonomousOf(c.run).k = "map" /\ c.run.autonomous.budget.k = "map"]

Starts ==
  /\ cfg \in Sessions /\ pc = "down"
  /\ LoadErrors(cfg) = {}
  /\ LET c == Load(cfg)
         m == [NewMem EXCEPT !.policies = Policies(c)]
     IN  /\ Resolution(c) = "session" /\ Limits(c)
         /\ \/ /\ starts = 0 \/ "fresh" \in Restarts
               /\ StartFresh(m.policies.gates.k = "gates")
               /\ mem' = m
            \/ /\ "resume" \in Restarts
               /\ StartResume(m.policies.gates.k = "gates")
               /\ mem' = [m EXCEPT !.det = Sorted(Restored.det), !.budget = Restored.budget,
                                   !.resumed = Restored.resumed]
  /\ cfg' = NoConfig
  /\ UNCHANGED <<kept, todo, art, now, acts>>

PreflightOrder ==
  <<"artifacts_not_writable", "path_blocked", "path_not_allowlisted", "required_file_missing">>

ReasonsAt(p) ==
  PreflightReasons(p.paths, p.allowed, p.blocked, p.present, p.probe, p.writable)

\* A refused start writes its packet, its drafts and its report, and no trust
\* packet; one that goes on forgets the budget decision of an older process.
Preflight ==
  /\ \E p \in Places :
       LET why == SelectSeq(PreflightOrder, LAMBDA r : r \in ReasonsAt(p))
       IN  \/ /\ why = <<>> /\ PreflightPasses
              /\ mem' = [mem EXCEPT !.pre = why, !.budget = "none"]
              /\ todo' = <<"meta">>
           \/ /\ why # <<>> /\ PreflightFails
              /\ mem' = [mem EXCEPT !.pre = why]
              /\ todo' = <<>>
  /\ kept' = Noted'
  /\ UNCHANGED <<cfg, art, now, acts>>

-----------------------------------------------------------------------------
(* An attempt *)

Planned ==
  /\ Plan \/ Execute
  /\ todo = <<>>
  /\ kept' = Noted
  /\ UNCHANGED <<cfg, mem, todo, art, now, acts>>

BudgetWas(why) == mem' = [mem EXCEPT !.budget = why]

OutOfTime ==
  /\ todo = <<>>
  /\ BudgetSpent /\ BudgetWas("wall_clock") /\ kept' = Noted'
  /\ UNCHANGED <<cfg, todo, art, now, acts>>

Log(f) == IF f.kind = "file" THEN f.of ELSE <<>>

\* The workflow ends with o: its log entries are appended as it goes, the
\* performance window and the trace are written by a workflow that did not raise.
Work(o) ==
  /\ pc = "execute" /\ mem.cur = NoAttempt
  /\ mem' = [mem EXCEPT !.cur = [iter |-> st.cur, outcome |-> o, judged |-> FALSE]]
  /\ art' = [art EXCEPT !.exper = IF o.log = <<>> THEN @ ELSE F(Log(@) \o o.log),
                        !.perf = IF o.flow = "raised" THEN @ ELSE Recorded(@, o.run),
                        !.trace = IF o.flow = "raised" THEN @
                                  ELSE F([events |-> Len(o.log), calls |-> Len(o.run.calls)])]
  /\ UNCHANGED <<vars, cfg, kept, todo, now, acts>>

\* What the session will record of the attempt, before the guard's veto.
AttemptOf(a, passed) ==
  [iter |-> a.iter, flow |-> passed, ok |-> passed /\ a.codes = <<>>, guard |-> FALSE,
   gate |-> IF a.gated THEN [gates |-> a.failed, reasons |-> Len(a.codes), evaluated |-> TRUE]
            ELSE NoGates]

\* Which of its two limits the guard names: the count is asked first.
GuardReason(as) ==
  IF ~ GuardStops(as) THEN "none"
  ELSE IF Len(FailingTail(as)) >= MaxGateFailures THEN "repeated" ELSE "no_improvement"

JudgedBy(e) ==
  [iter |-> st.cur, gated |-> TRUE, codes |-> e.codes, failed |-> e.failed,
   composite |-> e.composite]

Judgement(o) ==
  IF gated /\ o.flow # "raised"
  THEN JudgedBy(Evaluate(mem.policies.gates.of, o.rows, o.quality, art.perf, art.base))
  ELSE [iter |-> st.cur, gated |-> FALSE, codes |-> <<>>, failed |-> 0,
        composite |-> [status |-> "none"]]

\* What the files of the session tell of the attempt, its strategy included.
Detail(a, passed, why) ==
  [iter |-> a.iter, gated |-> a.gated, codes |-> a.codes, failed |-> a.failed,
   composite |-> a.composite, ok |-> passed /\ a.codes = <<>> /\ why = "none",
   strategy |-> Strategy(mem.det), guard |-> why]

\* Mutant: the gate results are written only when there is something to fix.
JudgeFailuresOnly ==
  /\ pc = "execute" /\ mem.cur # NoAttempt /\ ~ mem.cur.judged
  /\ LET o == mem.cur.outcome
         a == Judgement(o)
         passed == o.flow = "passed"
         why == GuardReason(Append(st.attempts, AttemptOf(a, passed)))
         attempt == Detail(a, passed, why)
     IN  /\ mem' = [mem EXCEPT !.cur = [iter |-> st.cur, outcome |-> o, judged |-> TRUE],
                               !.det = Append(@, attempt)]
         /\ art' = IF a.gated
                   THEN [art EXCEPT !.base =
                           F(Evaluate(mem.policies.gates.of, o.rows, o.quality, art.perf, @).base)]
                   ELSE art
         /\ todo' = <<"strategy">> \o (IF a.gated /\ a.codes # <<>> THEN <<"gates">> ELSE <<>>)
                    \o (IF Decided(Append(mem.det, attempt)) # <<>> THEN <<"guard">> ELSE <<>>)
  /\ UNCHANGED <<vars, cfg, kept, now, acts>>

\* The gates judge, their history is written, and the attempt joins the others
\* with its strategy and the guard's word; its files follow.
Judge ==
  /\ pc = "execute" /\ mem.cur # NoAttempt /\ ~ mem.cur.judged
  /\ LET o == mem.cur.outcome
         a == Judgement(o)
         passed == o.flow = "passed"
         why == GuardReason(Append(st.attempts, AttemptOf(a, passed)))
         attempt == Detail(a, passed, why)
     IN  /\ mem' = [mem EXCEPT !.cur = [iter |-> st.cur, outcome |-> o, judged |-> TRUE],
                               !.det = Append(@, attempt)]
         /\ art' = IF a.gated
                   THEN [art EXCEPT !.base =
                           F(Evaluate(mem.policies.gates.of, o.rows, o.quality, art.perf, @).base)]
                   ELSE art
         /\ todo' = <<"strategy">> \o (IF a.gated THEN <<"gates">> ELSE <<>>)
                    \o (IF Decided(Append(mem.det, attempt)) # <<>> THEN <<"guard">> ELSE <<>>)
  /\ UNCHANGED <<vars, cfg, kept, now, acts>>

\* The state is persisted with the attempt in it.
AttemptRecorded ==
  /\ mem.cur # NoAttempt /\ mem.cur.judged /\ todo = <<>>
  /\ LET a == mem.det[Len(mem.det)]
         s == AttemptOf(a, mem.cur.outcome.flow = "passed")
     IN  /\ AttemptEnds
         /\ st'.attempts[Len(st'.attempts)].flow = s.flow
         /\ st'.attempts[Len(st'.attempts)].gate = s.gate
  /\ kept' = Noted
  /\ mem' = [mem EXCEPT !.cur = NoAttempt]
  /\ UNCHANGED <<cfg, todo, art, now, acts>>

Decides ==
  /\ \/ (Complete \/ GuardStop \/ Retry) /\ UNCHANGED mem
     \/ IterationsSpent /\ BudgetWas("iterations")
  /\ kept' = Noted'
  /\ UNCHANGED <<cfg, todo, art, now, acts>>

Leaves ==
  /\ LoopEnds /\ todo = <<>>
  /\ UNCHANGED records

-----------------------------------------------------------------------------
(* The end *)

Finishes ==
  /\ Finish
  /\ kept' = Noted /\ todo' = <<"meta", "guard">>
  /\ UNCHANGED <<cfg, mem, art, now, acts>>

Told == [attempts |-> mem.det, preflight |-> mem.pre, resumed |-> mem.resumed,
         budget |-> BudgetCodes(mem.budget, mem.policies.tokens)]

WritesPacket ==
  /\ todo = <<>>
  /\ EmitIncident
  /\ IF ok THEN UNCHANGED <<art, todo>>
     ELSE art' = [art EXCEPT !.packet = F(Packet(Told))] /\ todo' = <<"draft">>
  /\ UNCHANGED <<cfg, mem, kept, now, acts>>

\* The report is the last thing the session itself writes; the trust packet is
\* made of it, except after a refused preflight.
WritesReport ==
  /\ todo = <<>>
  /\ EmitReport
  /\ art' = [art EXCEPT !.report = F(Report(Told, ok))]
  /\ todo' = IF mem.pre = <<>> THEN <<"meta", "trust">> ELSE <<"meta">>
  /\ mem' = NewMem
  /\ UNCHANGED <<cfg, kept, now, acts>>

\* A step of the writer: the next file gets what the process knows now.
Content(name) ==
  CASE name = "strategy" -> StrategyFile(mem.det)
    [] name = "gates" -> Gated(mem.det)
    [] name = "guard" -> GuardFile(mem.det)
    [] name = "trust" -> Trust(art, now)
    [] OTHER -> TRUE

WriteNext ==
  /\ todo # <<>>
  /\ art' = [art EXCEPT ![todo[1]] = F(Content(todo[1]))]
  /\ todo' = Tail(todo)
  /\ UNCHANGED <<vars, cfg, mem, kept, now, acts>>

\* The files as a death leaves them: the one under way may be cut short.
Left == {art} \cup (IF TornFiles /\ todo # <<>> THEN {[art EXCEPT ![todo[1]] = Torn]} ELSE {})

Dies ==
  /\ Crash
  /\ mem' = NewMem /\ todo' = <<>>
  /\ \E a \in Left : art' = IF report' = Torn THEN [a EXCEPT !.report = Torn] ELSE a
  /\ UNCHANGED <<cfg, kept, now, acts>>

\* Death behind the report: the trust packet keeps what an older run left.
DiesLate ==
  /\ pc = "down" /\ todo # <<>>
  /\ todo' = <<>>
  /\ art' \in Left
  /\ UNCHANGED <<vars, cfg, mem, kept, now, acts>>

-----------------------------------------------------------------------------
(* The reviewers *)

Act ==
  /\ Idle /\ acts < MaxActs /\ Found(art.report)
  /\ acts' = acts + 1
  /\ UNCHANGED <<vars, cfg, mem, kept, todo, now>>

Review(r) ==
  /\ Act
  /\ art' = [art EXCEPT !.approvals = Append(@, r)]

Steer(flow) ==
  /\ Act
  /\ art' = [art EXCEPT !.workflow = flow]

Tick ==
  /\ Idle /\ now < MaxHours /\ Found(art.report)
  /\ now' = now + 1
  /\ UNCHANGED <<vars, cfg, mem, kept, todo, art, acts>>

Reviewers ==
  \/ \E r \in Reviews : Review(r)
  \/ \E m \in {"escalated", "cleared"} : Steer([art.workflow EXCEPT !.manual = m, !.snoozed = None])
  \/ Steer([art.workflow EXCEPT !.snoozed = now + 1])
  \/ Tick

RecordsNext ==
  \/ \E c \in Launched : Launch(c)
  \/ Exits \/ Starts \/ Preflight
  \/ Planned \/ OutOfTime \/ \E o \in Outcomes : Work(o)
  \/ Judge \/ AttemptRecorded \/ Decides \/ Leaves
  \/ Finishes \/ WritesPacket \/ WritesReport \/ WriteNext \/ Dies \/ DiesLate
  \/ Reviewers

RecordsSpec == RecordsInit /\ [][RecordsNext]_allVars

-----------------------------------------------------------------------------
(* Properties *)

\* Two parsers, one meaning: what load_config lets pass, _start resolves to the
\* same thresholds without leaving, and every session that starts has limits of
\* at least one (config.py 550-736 against autonomous_mode.py 1415-1468, 3700-3756).
PolicyIsSound ==
  cfg # NoConfig /\ LoadErrors(cfg) = {} =>
    LET c == Load(cfg)
        given == cfg.run.autonomous.gates
        p == QualityGatePolicy(c.run)
        a == RunArguments(c)
    IN  /\ QualityGateOk(p)
        /\ p.k = "gates" =>
             \A s \in GateKeys :
               p.of[s].n = IF given.sections[s].k = "map" THEN given.sections[s].v.n ELSE 0
        /\ Positive(a.parallel) /\ (a.tokens = Null \/ Positive(a.tokens))
        /\ \A r \in DOMAIN a.temps : a.temps[r] # Bad
        /\ Resolution(c) = "session" =>
             LET l == AutonomousPolicy(c.run)
                 g == StopGuardPolicy(c.run)
             IN  \A v \in {l.iterations, l.seconds, g.failures, g.same} : v.n >= 2

\* A strategy of which two gated attempts running brought nothing is not tried
\* a third time, whatever process ran the attempts (_resolve_retry_strategy 1128-1146).
NoThirdTry ==
  \A k \in DOMAIN mem.det :
    k > 2 /\ mem.det[k - 2].gated /\ mem.det[k - 1].gated
    /\ mem.det[k - 2].strategy = mem.det[k - 1].strategy
    /\ ~ Better(mem.det[k - 2], mem.det[k - 1])
    => mem.det[k].strategy # mem.det[k - 1].strategy

LastGated ==
  LET as == file.attempts IN as # <<>> /\ as[Len(as)].gate.evaluated /\ as[Len(as)].iter = file.cur

\* What a summary read from the files f says of a session that ended well or not:
\* its verdict, the gates it passed and failed, its last strategy and the guard's
\* last word.
SummaryTells(f, well, details, as) ==
  LET s == Summary(f)
      gate == {k \in DOMAIN as : as[k].gate.evaluated}
      passed == {k \in gate : Passed(as[k].gate)}
      stopped == {k \in DOMAIN as : as[k].guard}
  IN  /\ s.status = IF well THEN "completed" ELSE "failed"
      /\ s.passes = Cardinality(passed) /\ s.fails = Cardinality(gate \ passed)
      /\ s.strategy = details[Len(details)].strategy
      /\ s.guards = Cardinality(stopped)
      /\ (s.guard # "none") = (stopped # {})

\* Of a session whose last process ran an attempt and came to its end, the
\* summary tells all the attempts, those of earlier processes included, although
\* each of its parts stands in a file of its own and any of them may be older,
\* or cut short, before that (4142-4537).
SummaryTrue ==
  [][WritesReport /\ here # 0 /\ LastGated =>
       SummaryTells(art', ok, mem.det, file.attempts)]_allVars

\* A trust packet asks for no human only when it is written for a completed
\* session none of whose attempts failed a gate, however the files it is made of
\* came about (trust_intelligence.py 477-563, 912-996).
TrustIsEarned ==
  [][LET t == art'.trust
     IN  t # art.trust /\ Found(t) /\ ~ t.of.review /\ LastGated =>
           /\ exit = "zero" /\ file.status = "completed"
           /\ \A k \in DOMAIN file.attempts :
                file.attempts[k].gate.evaluated => Passed(file.attempts[k].gate)]_allVars

\* An approval that is due and not given is escalated, whatever was snoozed or
\* cleared before, and the run goes on asking for a human
\* (trust_intelligence.py 737-765).
OverdueIsEscalated ==
  /\ Idle /\ art.workflow.due # None /\ art.workflow.due < now
  /\ Rows(art.approvals, "approve") = <<>> /\ Rows(art.approvals, "reject") = <<>>
  => \A t \in {Trust(art, now)} :
       t.decision = "review_required" =>
         t.approval = "expired" /\ t.escalation = "escalated" /\ t.review

\* README.md:737: "Legacy top-level `validator_policy` is normalized into
\* `quality_profile.validator_policy`" (it does not hold: a profile without a
\* quality_profile gets the default before the legacy policy is looked at,
\* config.py 163-166).
LegacyPolicyUsed ==
  cfg # NoConfig /\ LoadErrors(cfg) = {} =>
    \A n \in DOMAIN cfg.profiles.of :
      LET p == cfg.profiles.of[n]
      IN  p.legacy.k = "map" => Load(cfg).profiles.of[n].quality.policy = p.legacy

\* README.md:738: "Config load validates validator names and profile structure;
\* invalid entries fail fast with path-specific errors" (it does not hold of
\* run.autonomous: the limits, the stop guard and the incident policy are looked
\* at by autonomous start alone).
ConfigCatchesAll ==
  cfg # NoConfig /\ LoadErrors(cfg) = {} => Resolution(Load(cfg)) # "policy"

\* The trust packet is about the session the report is about (it does not hold:
\* a start refused by its preflight writes a report and no trust packet, and a
\* death between the two leaves the older one, 3638-3700, 4105-4121).
TrustFollowsSession ==
  Idle /\ Found(art.trust) /\ Found(art.report) =>
    art.trust.of.status = IF art.report.of.ok THEN "completed" ELSE "failed"

\* The summary of a session tells that session (it does not hold: a resume that
\* its preflight refuses reports the attempts of its session and leaves the
\* guard's file of an older one, 3623-3700, 4068).
SummaryAlways ==
  Idle /\ exit # "none" /\ file.kind = "state" /\ LastGated =>
    SummaryTells(art, exit = "zero", kept.det, file.attempts)
=============================================================================
