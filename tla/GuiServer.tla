------------------------------ MODULE GuiServer ------------------------------
(* The GUI server as a whole: requests of every kind on several threads, the  *)
(* death of the server, the processes it has started, and people who edit     *)
(* its files by hand. What may be relied on, and what may not.                *)
EXTENDS GuiSnapshots, GuiTrust, GuiRuns

CONSTANT Queries      \* the lists that are asked for

ServerInit == \E s \in Scenes : RequestsInit(s) /\ origin = s.origin

\* A snapshot is altered behind the server's back.
Alter ==
  \E f \in SnapshotFiles(files) :
    /\ faults < MaxFaults
    /\ Readable(files[f]) /\ files[f].snap.text # "altered"
    /\ files' = [files EXCEPT ![f].snap.text = "altered"]
    /\ faults' = faults + 1
    /\ UNCHANGED <<todo, h, lines, sent, runs, outcome, now, deaths, history>>

Serve(t) == Truncate(t) \/ SnapshotStep(t) \/ TrustStep(t) \/ RunStep(t) \/ AuditWritten(t) \/ AuditFails(t)

ServerNext == \/ \E t \in Threads : Arrive(t) \/ Serve(t)
        \/ Die \/ Tick \/ Alter
        \/ \E d \in DOMAIN runs : ProcessWrites(d) \/ ProcessEnds(d)

ServerSpec == ServerInit /\ [][ServerNext]_serverVars /\ \A t \in Threads : WF_serverVars(Serve(t))

--------------------------------------------------------------------------------

InService(group) == \E t \in Threads : Busy(t) /\ Group(h[t].r) = group
Last1(s) == s[Len(s)]

(* What a snapshot's integrity mark says is so: it is good exactly as long as *)
(* the content is what was saved, through every edit of its name and marks,   *)
(* by any number of threads. A snapshot saved without markdown is excepted:   *)
(* it gets one when it is loaded and is called altered from the start.        *)
IntegrityTrue ==
  \A f \in DOMAIN origin \cap DOMAIN files :
    Readable(files[f]) /\ origin[f].markdown # Nothing
      => (IntegrityOk(Normalized(files[f])) <=> Content(files[f]) = origin[f])

(* A retention that nobody disturbed has deleted, of the snapshots it may     *)
(* delete, only such as are too old or have `keep' newer ones beside them,    *)
(* and of these all but those it reports as failed; archived and unreadable   *)
(* ones stay, and a dry run loses nothing.                                    *)
RetentionKeepsNewest ==
  \A t \in Threads :
    h[t].at = "audit" /\ h[t].r.kind = "retention" /\ h[t].status = 200 /\ h[t].alone
      => LET r == h[t].r
             fs == h[t].seen
             newer(f) == {g \in Candidates(fs, r) : fs[g].persisted > fs[f].persisted
                             \/ (fs[g].persisted = fs[f].persisted /\ NameBefore(f, g))}
             goes(f) == /\ f \in Candidates(fs, r) /\ ~r.dryRun
                        /\ \/ \E k \in Limits(r.keep) : Cardinality(newer(f)) >= k
                           \/ \E a \in Limits(r.maxAge) : fs[f].persisted > 0 /\ h[t].stamp > fs[f].persisted + a
         IN \A f \in SnapshotFiles(fs) :
              IF goes(f) THEN f \in DOMAIN files => f \in h[t].bad ELSE f \in DOMAIN files

(* The pages of a list, put together, show every readable snapshot that       *)
(* passes the filter once, pinned ones before the others.                     *)
ListingWhole ==
  \A q \in Queries, size \in 1 .. 2 :
    LET shown == {f \in SnapshotFiles(files) : Readable(files[f]) /\ Passes(f, files[f], q)}
        n == CHOOSE k \in 1 .. Cardinality(shown) + 1 :
               k * size >= Cardinality(shown) /\ (k > 1 => (k - 1) * size < Cardinality(shown))
        at(f) == {p \in (1 .. n) \X (1 .. size) :
                    p[2] <= Len(Page(files, q, p[1], size)) /\ Page(files, q, p[1], size)[p[2]] = f}
        before(a, b) == a[1] < b[1] \/ (a[1] = b[1] /\ a[2] < b[2])
    IN /\ \A f \in shown : Cardinality(at(f)) = 1
       /\ \A f, g \in shown : files[f].pinned /\ ~files[g].pinned
            => \A a \in at(f), b \in at(g) : before(a, b)

(* Between requests that did not overlap and were not cut off, the workflow   *)
(* file is the one its log of actions leads to: its last action is the last   *)
(* line, an escalation that stands is not snoozed, an extension is until its  *)
(* due date.                                                                  *)
WorkflowFollowsActions ==
  "workflow" \notin mixed /\ ~InService("workflow") /\ lines.actions # <<>>
    => LET w == Existing
           a == Last1(lines.actions)
       IN /\ w.form = "record" /\ w.last = a
          /\ w.state = IF a.action = "escalate" THEN "escalated" ELSE "cleared"
          /\ w.snoozed = IF a.action = "extend_due" THEN a.due ELSE 0

\* Outcomes that are those of the rows of one delivery, in their order.
Repeats(outcomes, rows, id) ==
  LET mine == {i \in DOMAIN rows : rows[i].delivery = id}
  IN /\ Len(outcomes) = Cardinality(mine)
     /\ \A i \in mine : rows[i].status = outcomes[Cardinality({j \in mine : j <= i})]

(* The rows of deliveries are true: what is called sent was received, what    *)
(* was a dry run was not, a retry goes to targets that failed, whatever an    *)
(* answered delivery handed over has a row, and the delivery log repeats the  *)
(* rows. If deliveries did not overlap, attempts are counted without a gap.   *)
DeliveryRowsTrue ==
  LET rows == lines.rows IN
  /\ \A i \in DOMAIN rows :
       /\ rows[i].status = "sent" => <<rows[i].delivery, rows[i].target>> \in sent
       /\ rows[i].status = "dry_run" => <<rows[i].delivery, rows[i].target>> \notin sent
       /\ rows[i].of # "" => \E j \in 1 .. i - 1 : /\ rows[j].delivery = rows[i].of /\ rows[j].status = "failed"
                                                   /\ rows[j].target = rows[i].target
       /\ "delivery" \notin mixed
            => rows[i].attempt = Cardinality({j \in 1 .. i : rows[j].target = rows[i].target
                                                             /\ rows[j].key = rows[i].key})
  /\ \A x \in sent : outcome[x[1]] = 200 => \E i \in DOMAIN rows : rows[i].delivery = x[1] /\ rows[i].target = x[2]
  /\ \A i \in DOMAIN lines.deliveries : Repeats(lines.deliveries[i].outcomes, rows, lines.deliveries[i].delivery)

(* An answer tells what happened: a request refused with 400, 403 or 404 has  *)
(* changed nothing; one that changed something and was answered with 422 had  *)
(* stopped halfway in its work on a file (the disk was full, a markdown was   *)
(* not removed); and one that changed something and was answered without a    *)
(* server error is in the audit log, with its outcome.                        *)
AnswersAreTrue ==
  \A id \in touched :
    /\ outcome[id] \notin {400, 403, 404}
    /\ outcome[id] = 422 => id \in mixed
    /\ outcome[id] \notin {Open, Lost, Dropped, 500}
         => \E i \in DOMAIN lines.audit : lines.audit[i].id = id /\ lines.audit[i].ok = (outcome[id] = 200)

(* Every request that a thread has taken comes to an end: loops over targets, *)
(* posts and snapshots are bounded, and no thread waits for another.          *)
RequestsEnd == \A t \in Threads : Busy(t) ~> ~Busy(t)

--------------------------------------------------------------------------------
(* What the code does not give; GuiServer.cfg lists them. *)

(* A live directory has one process: resume accepts a run whose status is     *)
(* "running", which is also the status of one that is at work.                *)
OneRunPerDirectory == \A d \in DOMAIN runs : runs[d].live <= 1

(* An audited stop has stopped the process.                                   *)
StoppedIsTrue == [][\A d \in DOMAIN runs : \A t \in Threads :
                      h[t].at = "stop" /\ h'[t].at = "audit" /\ h[t].r.out = d => runs'[d].live = 0]_serverVars

(* A deleted snapshot stays deleted: an edit that had read it writes it back. *)
DeletedStays == [][\A t \in Threads : h[t].at = "write" /\ h'[t].at = "fill" /\ h[t].r.kind \in Edits
                     => h[t].file \in DOMAIN files]_serverVars

(* An integrity mark is good as long as the content is what was saved, also   *)
(* of a snapshot saved without markdown.                                      *)
IntegrityAlways ==
  \A f \in DOMAIN origin \cap DOMAIN files :
    Readable(files[f]) => (IntegrityOk(Normalized(files[f])) <=> Content(files[f]) = origin[f])

(* The workflow file can be written again after whatever has happened to it.  *)
WorkflowWritable == ~InService("workflow") => Existing.form = "record"

(* A target that a retry has reached is not sent to by the next one.          *)
RetriedOnce == \A x, y \in sent : \A r, s \in {q \in UNION {c.requests : c \in Scenes} : q.kind = "resend"} :
                 x[1] = r.id /\ y[1] = s.id /\ r.of = s.of /\ x[2] = y[2] => r = s

(* A request that is refused has changed nothing, also when its deletion of a *)
(* snapshot failed at the markdown.                                           *)
RefusedIsUndone == \A id \in touched : outcome[id] \notin {400, 403, 404, 422}

(* A retention told to keep none keeps none: a 0 given as a number is left    *)
(* out (keep_latest, max_age_days; gui_mvp_server.py 3928-3929).              *)
KeepNoneKeepsNone ==
  \A t \in Threads :
    h[t].at = "audit" /\ h[t].r.kind = "retention" /\ h[t].status = 200 /\ h[t].alone /\ ~h[t].r.dryRun
      => \A x \in h[t].r.keep : x.n = 0
           => \A f \in Candidates(h[t].seen, h[t].r) : f \in DOMAIN files => f \in h[t].bad

(* Every request is answered unless the server dies.                          *)
AlwaysAnswered == \A id \in DOMAIN outcome : outcome[id] # Dropped
=============================================================================
