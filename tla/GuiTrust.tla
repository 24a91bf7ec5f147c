------------------------------ MODULE GuiTrust ------------------------------
(* The trust desk of the GUI server: approvals, the workflow file of a run   *)
(* and its log of actions, and the delivery of trust digests to targets,     *)
(* with its state rows and the retry of what has failed.                     *)
EXTENDS GuiRequests, FiniteSetsExt

CONSTANT Targets      \* name of a target to its adapter

\* What is not a retry is a retry of nothing.
ASSUME DeliveryAssumption ==
  \A s \in Scenes : \A r \in s.requests :
    r.kind = "send" => r.of = "" /\ r.targets \in Seq(DOMAIN Targets)

Workflow == [dir |-> "run", at |-> 0, tail |-> 0]

\* A request names no run, one that is gone, one without a report, or the run.
RunProblem(r) == CASE r.run = ""     -> 400
                   [] r.run = "gone" -> 404
                   [] r.run = "bare" -> 400
                   [] OTHER          -> 200

Stay == UNCHANGED <<todo, disk, outcome, counters, history>>
Answers(t, status) == Becomes(t, [h[t] EXCEPT !.at = "audit", !.status = status]) /\ Stay
Aborts(t) == Ends(t, Dropped) /\ UNCHANGED <<todo, disk, counters, history>>

--------------------------------------------------------------------------------
(* Approvals *)

Approve(t) ==
  LET r == h[t].r
      status == IF RunProblem(r) # 200 THEN RunProblem(r)
                ELSE IF r.decision \in {"approve", "reject", "acknowledge"} THEN 200 ELSE 400
  IN /\ h[t].at = "begin" /\ r.kind = "approval"
     /\ IF status # 200 THEN Answers(t, status)
        ELSE /\ Log("approvals", [decision |-> r.decision, role |-> h[t].role, at |-> now])
             /\ Becomes(t, [h[t] EXCEPT !.at = "audit"])
             /\ Touches(t)
             /\ UNCHANGED <<todo, files, sent, runs, outcome, counters, mixed, origin>>

--------------------------------------------------------------------------------
(* The workflow file. A due date of 0 is none, or one that cannot be parsed. *)

NoAction == [id |-> "", action |-> "", role |-> "", at |-> 0, due |-> 0]
NewWorkflow == [form |-> "record", owner |-> "", due |-> 0, state |-> "", snoozed |-> 0, last |-> NoAction]
Existing == IF Workflow \in DOMAIN files THEN files[Workflow] ELSE NewWorkflow

DAY == 24

Patched(w, r) == [w EXCEPT !.owner = IF "owner" \in r.gives THEN r.owner ELSE @,
                           !.due = IF "due" \in r.gives THEN r.due ELSE @]

\* The due date of an extension: the one given, or so many hours later.
Extended(w, r) ==
  IF r.due # 0 THEN r.due
  ELSE (IF w.due # 0 THEN w.due ELSE now) + (IF r.hours = 0 THEN DAY ELSE r.hours)

ActionRow(t, w) ==
  LET r == h[t].r IN
  [id |-> r.id, action |-> r.action, role |-> h[t].role, at |-> now,
   due |-> IF r.action = "extend_due" THEN Extended(w, r) ELSE 0]

Acted(w, row) ==
  [w EXCEPT !.state = IF row.action = "escalate" THEN "escalated" ELSE "cleared",
            !.snoozed = row.due,
            !.due = IF row.action = "extend_due" THEN row.due ELSE @,
            !.last = row]

WritesWorkflow(t, w) ==
  /\ Becomes(t, [h[t] EXCEPT !.at = "write", !.file = Workflow, !.rec = w])
  /\ Stay

UpdateWorkflow(t) ==
  LET r == h[t].r IN
  /\ h[t].at = "begin" /\ r.kind = "workflow"
  /\ CASE RunProblem(r) # 200     -> Answers(t, RunProblem(r))
       [] Existing.form = "torn" /\ RunProblem(r) = 200 -> Answers(t, 422)
       [] OTHER                   -> WritesWorkflow(t, Patched(Existing, r))

\* Hours that are no number raise an error before anything else is looked at.
ActOnWorkflow(t) ==
  LET r == h[t].r
      status == IF r.run = "" \/ r.action \notin {"escalate", "clear_escalation", "extend_due"} THEN 400
                ELSE IF RunProblem(r) # 200 THEN RunProblem(r)
                ELSE IF Existing.form = "torn" THEN 422 ELSE 200
  IN /\ h[t].at = "begin" /\ r.kind = "action"
     /\ IF r.hours < 0 THEN Aborts(t)
        ELSE IF status # 200 THEN Answers(t, status)
        ELSE WritesWorkflow(t, Acted(Existing, ActionRow(t, Existing)))

FillWorkflow(t) ==
  /\ h[t].at = "fill" /\ h[t].file = Workflow
  /\ files' \in Filled(Workflow, h[t].rec)
  /\ Becomes(t, [h[t] EXCEPT !.at = IF h[t].r.kind = "action" THEN "log" ELSE "audit"])
  /\ UNCHANGED <<todo, lines, sent, runs, outcome, counters, history>>

\* Nobody catches the error of a full disk.
WorkflowWriteFails(t) ==
  /\ h[t].at = "fill" /\ h[t].file = Workflow
  /\ faults < MaxFaults
  /\ faults' = faults + 1
  /\ mixed' = mixed \cup {"workflow"}
  /\ Ends(t, Dropped)
  /\ UNCHANGED <<todo, disk, now, deaths, touched, origin>>

LogAction(t) ==
  /\ h[t].at = "log"
  /\ Log("actions", h[t].rec.last)
  /\ Becomes(t, [h[t] EXCEPT !.at = "audit"])
  /\ UNCHANGED <<todo, files, sent, runs, outcome, counters, history>>

--------------------------------------------------------------------------------
(* Delivery. The digest holds the second it was made in, so the key of a row  *)
(* is the target, the mode and that second.                                   *)

Delivers(t, targets) ==
  /\ Becomes(t, [h[t] EXCEPT !.at = "deliver", !.ids = targets, !.seen = lines.rows, !.stamp = now,
                             !.hits = 0, !.outcomes = <<>>])
  /\ Stay

\* The targets of some rows, in the order of the rows.
TargetsOf(places) ==
  LET order == InOrder(places, <) IN [k \in DOMAIN order |-> lines.rows[order[k]].target]

Send(t) ==
  LET r == h[t].r IN
  /\ h[t].at = "begin" /\ r.kind = "send"
  /\ IF r.mode = "run" /\ r.run \in {"", "gone"} THEN Answers(t, 400)
     ELSE Delivers(t, IF r.targets = <<>> THEN <<"stdout">> ELSE r.targets)

\* MUTANT of Resend: every row of the delivery is sent again.
ResendAll(t) ==
  LET r == h[t].r
      rows == {i \in DOMAIN lines.rows : lines.rows[i].delivery = r.of}
  IN /\ h[t].at = "begin" /\ r.kind = "resend"
     /\ IF rows = {} THEN Answers(t, 400) ELSE Delivers(t, TargetsOf(rows))

\* All rows of the delivery that failed, also those sent by an earlier retry.
Resend(t) ==
  LET r == h[t].r
      failed == {i \in DOMAIN lines.rows : lines.rows[i].delivery = r.of /\ lines.rows[i].status = "failed"}
  IN /\ h[t].at = "begin" /\ r.kind = "resend"
     /\ IF failed = {} THEN Answers(t, 400) ELSE Delivers(t, TargetsOf(failed))

Target(t) == Head(h[t].ids)
Adapter(t) == Targets[Target(t)]
Limit(t) == h[t].r.limit
Told(t, status) == Becomes(t, [h[t] EXCEPT !.at = "row", !.rec = [form |-> status]])
Receives(t) == sent' = sent \cup {<<h[t].r.id, Target(t)>>}
AtTarget(t) == h[t].at = "deliver" /\ h[t].ids # <<>>
Posts(t) == Adapter(t) = "webhook" \/ (Adapter(t) = "webhook-signed" /\ h[t].r.secret)

DryRun(t) ==
  /\ AtTarget(t) /\ h[t].r.dryRun
  /\ Told(t, "dry_run") /\ Stay

Rejected(t) ==
  /\ AtTarget(t) /\ ~h[t].r.dryRun
  /\ Adapter(t) = "unsupported" \/ (Adapter(t) = "webhook-signed" /\ ~h[t].r.secret)
  /\ Told(t, "failed") /\ Stay

\* A line on stdout, a file, or a post that is answered.
Delivered(t) ==
  /\ AtTarget(t) /\ ~h[t].r.dryRun
  /\ Adapter(t) \in {"stdout", "file"} \/ Posts(t)
  /\ Told(t, "sent")
  /\ Receives(t) /\ Touches(t)
  /\ UNCHANGED <<todo, files, lines, runs, outcome, counters, mixed, origin>>

\* A post without an answer, received or not, is repeated up to the limit.
PostFails(t) ==
  /\ AtTarget(t) /\ ~h[t].r.dryRun /\ Posts(t)
  /\ faults < MaxFaults
  /\ faults' = faults + 1
  /\ \/ Receives(t) /\ Touches(t)
     \/ UNCHANGED <<sent, touched>>
  /\ IF h[t].hits < Limit(t) THEN Becomes(t, [h[t] EXCEPT !.hits = @ + 1]) ELSE Told(t, "failed")
  /\ UNCHANGED <<todo, files, lines, runs, outcome, now, deaths, mixed, origin>>

FileFails(t) ==
  /\ AtTarget(t) /\ ~h[t].r.dryRun /\ Adapter(t) = "file"
  /\ faults < MaxFaults
  /\ faults' = faults + 1
  /\ Told(t, "failed")
  /\ UNCHANGED <<todo, disk, outcome, now, deaths, history>>

Mode(t) == h[t].r.mode
AttemptNumber(rows, target, key) ==
  1 + Max({0} \cup {rows[i].attempt : i \in {j \in DOMAIN rows : rows[j].target = target /\ rows[j].key = key}})

AppendRow(t) ==
  LET key == <<Mode(t), h[t].stamp>>
      row == [delivery |-> h[t].r.id, of |-> h[t].r.of, target |-> Target(t), status |-> h[t].rec.form,
              key |-> key, attempt |-> AttemptNumber(h[t].seen, Target(t), key)]
  IN /\ h[t].at = "row"
     /\ Log("rows", row)
     /\ Becomes(t, [h[t] EXCEPT !.at = "deliver", !.ids = Tail(@), !.seen = Append(@, row), !.hits = 0,
                       !.outcomes = Append(@, h[t].rec.form)])
     /\ Touches(t)
     /\ UNCHANGED <<todo, files, sent, runs, outcome, counters, mixed, origin>>

\* The delivery log tells the outcome of every target; the answer is 200 even
\* if all of them failed.
CloseDelivery(t) ==
  /\ h[t].at = "deliver" /\ h[t].ids = <<>>
  /\ Log("deliveries", [delivery |-> h[t].r.id, outcomes |-> h[t].outcomes])
  /\ Becomes(t, [h[t] EXCEPT !.at = "audit"])
  /\ UNCHANGED <<todo, files, sent, runs, outcome, counters, history>>

TrustStep(t) ==
  \/ Approve(t) \/ UpdateWorkflow(t) \/ ActOnWorkflow(t) \/ FillWorkflow(t) \/ WorkflowWriteFails(t)
  \/ LogAction(t) \/ Send(t) \/ Resend(t) \/ DryRun(t) \/ Rejected(t) \/ Delivered(t) \/ PostFails(t)
  \/ FileFails(t) \/ AppendRow(t) \/ CloseDelivery(t)
=============================================================================
