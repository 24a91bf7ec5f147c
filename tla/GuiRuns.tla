------------------------------ MODULE GuiRuns ------------------------------
(* The run controls of the GUI server over run directories: start, resume,   *)
(* stop and retry. The process table behind them is ProcessManager; here a   *)
(* directory has a number of live processes and the artifacts they write.    *)
EXTENDS GuiRequests

(* The artifacts of a directory: each absent, torn or good; whether the two  *)
(* name the same run, whether the checkpoint has the marks of a resumable    *)
(* run, and the status they give.                                            *)
Empty == [exists |-> FALSE, checkpoint |-> "absent", metadata |-> "absent", agrees |-> TRUE,
          marked |-> FALSE, status |-> "unknown", live |-> 0, known |-> FALSE]

\* What validate_resume_target accepts.
Resumable(d) ==
  /\ d.exists
  /\ d.checkpoint = "good" /\ d.metadata = "good"
  /\ d.agrees /\ d.marked
  /\ d.status \notin {"ok", "failed"}

Answer(t, status) == /\ Becomes(t, [h[t] EXCEPT !.at = "audit", !.status = status])
                     /\ UNCHANGED <<todo, disk, outcome, counters, history>>

(* The checks of the payload come first, then those of the target. A resume  *)
(* and a start without execute answer with the command only.                 *)
Check(t) ==
  LET r == h[t].r
      d == runs[r.out]
      status == CASE ~r.valid                                  -> 422
                  [] r.valid /\ r.kind = "resume" /\ ~Resumable(d) -> 422
                  [] r.valid /\ r.kind \in {"stop", "retry"} /\ ~d.known -> 404
                  [] OTHER                                     -> 200
  IN /\ h[t].at = "begin" /\ r.kind \in RunControls
     /\ IF status # 200 \/ (r.kind # "stop" /\ ~r.execute) THEN Answer(t, status)
        ELSE /\ Becomes(t, [h[t] EXCEPT !.at = IF r.kind = "stop" THEN "stop" ELSE "spawn"])
             /\ UNCHANGED <<todo, disk, outcome, counters, history>>

(* The start of a run or of a retry; the manager answers the replay of an   *)
(* earlier retry with the process it has (ProcessManager).                  *)
Trigger(t) ==
  /\ h[t].at = "spawn"
  /\ LET d == runs[h[t].r.out]
     IN runs' = [runs EXCEPT ![h[t].r.out] = [d EXCEPT !.live = @ + 1, !.known = TRUE]]
  /\ Becomes(t, [h[t] EXCEPT !.at = "audit"])
  /\ Touches(t)
  /\ UNCHANGED <<todo, files, lines, sent, outcome, counters, mixed, origin>>

LaunchFails(t) ==
  /\ h[t].at = "spawn"
  /\ faults < MaxFaults
  /\ faults' = faults + 1
  /\ Becomes(t, [h[t] EXCEPT !.at = "audit", !.status = 500])
  /\ UNCHANGED <<todo, disk, outcome, now, deaths, history>>

\* Whether or not a process has ended by it, the answer is 200.
TriggerStop(t) ==
  /\ h[t].at = "stop"
  /\ \E n \in {0, runs[h[t].r.out].live} : runs' = [runs EXCEPT ![h[t].r.out].live = n]
  /\ Becomes(t, [h[t] EXCEPT !.at = "audit"])
  /\ Touches(t)
  /\ UNCHANGED <<todo, files, lines, sent, outcome, counters, mixed, origin>>

--------------------------------------------------------------------------------
(* What the processes do to their directory. *)

ProcessWrites(d) ==
  /\ runs[d].live > 0
  /\ runs' = [runs EXCEPT ![d] = [@ EXCEPT !.exists = TRUE, !.checkpoint = "good", !.metadata = "good",
                                           !.agrees = TRUE, !.marked = TRUE, !.status = "running"]]
  /\ UNCHANGED <<todo, h, files, lines, sent, outcome, counters, history>>

ProcessEnds(d) ==
  /\ runs[d].live > 0
  /\ \E s \in {"ok", "failed", "running"} :
       runs' = [runs EXCEPT ![d] = [@ EXCEPT !.live = runs[d].live - 1,
                                             !.status = IF runs[d].marked THEN s ELSE runs[d].status]]
  /\ UNCHANGED <<todo, h, files, lines, sent, outcome, counters, history>>

RunStep(t) == Check(t) \/ Trigger(t) \/ LaunchFails(t) \/ TriggerStop(t)
=============================================================================
