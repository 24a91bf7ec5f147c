---------------------------- MODULE IncidentSend ----------------------------
(***************************************************************************)
(* autonomous_incident_send.py and its three callers in autonomous_mode.py:*)
(* the end of a failed session, `incident-send` and `incident-replay`.     *)
(* Each is a process that loads the history of a run directory, decides    *)
(* for every target whether to send or to suppress, and records what it    *)
(* did in the audit trail and in the history.  Processes may overlap and   *)
(* may die at any point.                                                   *)
(*                                                                         *)
(* Time is counted in ticks, some of them to a second: a decision is       *)
(* stamped with whole seconds and compared with the exact time.  Formats,  *)
(* texts, signatures and the seconds of a backoff are left out; a row of   *)
(* an attempt is the status of one target.                                 *)
(*                                                                         *)
(* A definition whose name extends that of the one after it is that        *)
(* definition with a plausible bug; only the mutation runs use it.         *)
(***************************************************************************)
EXTENDS Integers, Sequences, FiniteSets, FiniteSetsExt

CONSTANTS
  Senders,         \* the processes that may run at the same time
  Incidents,       \* incident packets, told apart by their fingerprints
  Targets,         \* the targets
  Webhooks,        \* those reached by HTTP; the others cannot fail
  Loggers,         \* those that write the packet to the log, dry run or not
  Fanouts,         \* the target lists used; one twice is in two formats
  MaxPosts,        \* max_attempts of a webhook
  DedupeWindow,    \* dedupe_window_sec, in ticks; 0 is off
  RateWindow,      \* rate_limit_window_sec, in ticks
  GlobalMax,       \* rate_limit_global_max
  TargetMax,       \* rate_limit_per_target_max
  TicksPerSecond,
  TornWrites,      \* whether a crash may cut the write of the history short
  MaxTime,         \* bound on the time (exploration only)
  MaxSends,        \* bound on the attempts (exploration only)
  None             \* "no value"

ASSUME TargetAssumption ==
  /\ Webhooks \subseteq Targets /\ Loggers \subseteq Targets \ Webhooks
  /\ Fanouts \subseteq Seq(Targets)
  /\ <<>> \notin Fanouts

ASSUME LimitAssumption ==
  /\ MaxPosts \in Nat \ {0} /\ TicksPerSecond \in Nat \ {0}
  /\ DedupeWindow \in Nat /\ RateWindow \in Nat
  /\ GlobalMax \in Nat \ {0} /\ TargetMax \in Nat \ {0}
  /\ TornWrites \in BOOLEAN
  /\ MaxTime \in Nat /\ MaxSends \in Nat

Statuses == {"sent", "failed", "suppressed", "dry_run"}
Callers  == {"session", "send", "replay"}

(* An attempt as the history keeps it. *)
Attempt == [group : 1..MaxSends, incident : Incidents, decided : 0..MaxTime,
            dry : BOOLEAN, targets : Seq(Targets), rows : Seq(Statuses)]

(* A line of the audit trail: one target of one attempt. *)
Entry == [group : 1..MaxSends, index : Nat, target : Targets, status : Statuses]

ASSUME NoneAssumption == None \notin Seq(Attempt)

VARIABLES
  now,        \* in ticks
  packet,     \* autonomous_incident_packet.json
  history,    \* "attempts" of autonomous_incident_send.json; None: not JSON
  audit,      \* the lines of autonomous_incident_send_audit.jsonl
  pc,         \* where a process is
  job,        \* job[s]: the locals of send_incident_packet and its caller
  existing,   \* existing[s]: the history as read before it is rewritten
  (* history variables, read by the properties only *)
  log,        \* log[g]: who made attempt g, when, and what its targets received
  clean       \* no process has died with something sent, none has overlapped

vars == <<now, packet, history, audit, pc, job, existing, log, clean>>
disk == <<packet, history, audit>>

Attempts(h) == IF h = None THEN <<>> ELSE h

Rows(a, status) == Cardinality({i \in DOMAIN a.rows : a.rows[i] = status})

RowsTo(a, status, t) ==
  Cardinality({i \in DOMAIN a.rows : a.rows[i] = status /\ a.targets[i] = t})

Init ==
  /\ now = 0
  /\ packet \in Incidents
  /\ history = <<>> /\ audit = {}
  /\ pc = [s \in Senders |-> "idle"]
  /\ job = [s \in Senders |-> None]
  /\ existing = [s \in Senders |-> <<>>]
  /\ log = <<>> /\ clean = TRUE

----------------------------------------------------------------------------
(* What the history says.                                                  *)

(* decided_at is written with whole seconds. *)
Stamp(t) == t - (t % TicksPerSecond)

(* The live attempts the window still holds. *)
Recent(window) ==
  IF window = 0 THEN {}
  ELSE {Attempts(history)[k] : k \in {i \in DOMAIN Attempts(history) :
          /\ ~ Attempts(history)[i].dry
          /\ Attempts(history)[i].decided >= now - window}}

DedupeHitAllSent(p) ==
  \E a \in Recent(DedupeWindow) : a.incident = p /\ Rows(a, "sent") = Len(a.rows)

(* The packet was sent to at least one target. *)
DedupeHit(p) == \E a \in Recent(DedupeWindow) : a.incident = p /\ Rows(a, "sent") > 0

(* Targets reached in the rate window, overall and by target. *)
SentLately     == MapThenSumSet(LAMBDA a : Rows(a, "sent"), Recent(RateWindow))
SentLatelyTo(t) == MapThenSumSet(LAMBDA a : RowsTo(a, "sent", t), Recent(RateWindow))

----------------------------------------------------------------------------
(* A process begins: it reads the packet and the history once and decides  *)
(* by that reading to the end.                                             *)

Begin(s, caller, p, force, dry, targets) ==
  /\ pc[s] = "idle" /\ Len(log) < MaxSends
  /\ pc' = [pc EXCEPT ![s] = "send"]
  /\ LET policed == caller # "send"
     IN  /\ job' = [job EXCEPT ![s] =
              [group |-> Len(log) + 1, incident |-> p, decided |-> Stamp(now),
               dry |-> dry, force |-> force, targets |-> targets,
               rows |-> <<>>, posts |-> 0, policed |-> policed,
               hit |-> policed /\ DedupeHit(p),
               global |-> SentLately, target |-> [t \in Targets |-> SentLatelyTo(t)]]]
         /\ log' = Append(log, [at |-> now, incident |-> p, dry |-> dry,
              force |-> force, policed |-> policed, targets |-> targets,
              rows |-> <<>>, copies |-> [i \in DOMAIN targets |-> 0]])
  /\ clean' = (clean /\ \A r \in Senders : pc[r] = "idle")
  /\ UNCHANGED <<now, history, audit, existing>>

(* A session with sending enabled has failed: it writes its packet and     *)
(* sends it.                                                               *)
SessionFails(s) ==
  \E p \in Incidents, dry \in BOOLEAN, force \in BOOLEAN, targets \in Fanouts :
    Begin(s, "session", p, force, dry, targets) /\ packet' = p

(* incident-send passes no windows and no limits on: --force-send, which it *)
(* does pass, has nothing to override.                                     *)
OperatorSends(s) ==
  \E dry \in BOOLEAN, targets \in Fanouts :
    Begin(s, "send", packet, FALSE, dry, targets) /\ UNCHANGED packet

(* Audit lines in the order of their indices. *)
ByIndex(group) ==
  CHOOSE es \in [1..Cardinality(group) -> group] :
    \A i, j \in DOMAIN es : i < j => es[i].index < es[j].index

(* The targets of the attempt the entry belongs to, in their order. *)
ReplayTargets(e) ==
  LET group == {x \in audit : x.group = e.group}
  IN  [i \in 1..Cardinality(group) |-> ByIndex(group)[i].target]

(* incident-replay of an audited attempt; live, it is forced. *)
OperatorReplays(s) ==
  \E e \in audit, live \in BOOLEAN :
    /\ Begin(s, "replay", packet, live, ~ live, ReplayTargets(e))
    /\ UNCHANGED packet

----------------------------------------------------------------------------
(* The loop over the targets.                                              *)

Target(j) == j.targets[Len(j.rows) + 1]

LimitedByHistoryOnly(j) ==
  /\ j.policed /\ RateWindow > 0
  /\ j.global >= GlobalMax \/ j.target[Target(j)] >= TargetMax

(* What this attempt has handed to targets so far counts, sent or not. *)
Limited(j) ==
  LET all == IF j.dry THEN 0 ELSE Rows(j, "sent") + Rows(j, "failed")
      to(t) == IF j.dry THEN 0 ELSE RowsTo(j, "sent", t) + RowsTo(j, "failed", t)
  IN  /\ j.policed /\ RateWindow > 0
      /\ \/ j.global + all >= GlobalMax
         \/ j.target[Target(j)] + to(Target(j)) >= TargetMax

Suppressed(j) == (j.hit \/ Limited(j)) /\ ~ j.force

(* The target's row is settled, and the loop goes on. *)
Settle(s, status) ==
  LET j == [job[s] EXCEPT !.rows = Append(@, status), !.posts = 0]
  IN  /\ job' = [job EXCEPT ![s] = j]
      /\ pc' = [pc EXCEPT ![s] = IF Len(j.rows) = Len(j.targets) THEN "audit" ELSE "send"]

(* The target has received the packet n times more. *)
Received(s, n, rows) ==
  LET l == log[job[s].group]
      copies == [l.copies EXCEPT ![Len(job[s].rows) + 1] = @ + n]
  IN  log' = [log EXCEPT ![job[s].group] = [l EXCEPT !.copies = copies, !.rows = rows]]

Suppress(s) ==
  /\ pc[s] = "send" /\ Suppressed(job[s])
  /\ Settle(s, "suppressed")
  /\ Received(s, 0, job'[s].rows)
  /\ UNCHANGED <<now, disk, existing, clean>>

Handling(s) == pc[s] = "send" /\ ~ Suppressed(job[s])

(* The copies a dry run leaves with a target: stdout and the webhook keep  *)
(* theirs back, the log target writes the whole packet all the same.       *)
DryCopies(t) == IF t \in Loggers THEN 1 ELSE 0

(* A dry run calls the handler too; a webhook may find its configuration   *)
(* incomplete.                                                             *)
DryRun(s) ==
  /\ Handling(s) /\ job[s].dry
  /\ \/ /\ Settle(s, "dry_run")
        /\ Received(s, DryCopies(Target(job[s])), job'[s].rows)
     \/ /\ Target(job[s]) \in Webhooks /\ Settle(s, "failed")
        /\ Received(s, 0, job'[s].rows)
  /\ UNCHANGED <<now, disk, existing, clean>>

(* A local target prints or logs, a webhook answers with a 2xx. *)
Delivered(s) ==
  /\ Handling(s) /\ ~ job[s].dry
  /\ Settle(s, "sent")
  /\ Received(s, 1, job'[s].rows)
  /\ UNCHANGED <<now, disk, existing, clean>>

RefusedTaken(s) == Settle(s, "sent")

RefusedRow(s) == Settle(s, "failed")

(* A status or an error that is not retried, or no usable configuration;   *)
(* an unreadable answer leaves open whether the packet was taken.          *)
Refused(s) ==
  /\ Handling(s) /\ ~ job[s].dry /\ Target(job[s]) \in Webhooks
  /\ RefusedRow(s)
  /\ \E n \in {0, 1} : Received(s, n, job'[s].rows)
  /\ UNCHANGED <<now, disk, existing, clean>>

LastPost(s) == job[s].posts + 1 >= MaxPosts

(* 429, 5xx, a timeout or a broken connection: the receiver may or may not *)
(* have taken the packet.  Posted again after a backoff, up to MaxPosts.   *)
Transient(s) ==
  /\ Handling(s) /\ ~ job[s].dry /\ Target(job[s]) \in Webhooks
  /\ IF LastPost(s) THEN Settle(s, "failed")
     ELSE /\ job' = [job EXCEPT ![s].posts = @ + 1]
          /\ UNCHANGED pc
  /\ \E n \in {0, 1} : Received(s, n, job'[s].rows)
  /\ UNCHANGED <<now, disk, existing, clean>>

----------------------------------------------------------------------------
(* _persist_incident_send_attempt.                                         *)

Record(j) == [group |-> j.group, incident |-> j.incident, decided |-> j.decided,
              dry |-> j.dry, targets |-> j.targets, rows |-> j.rows]

Entries(j) ==
  {[group |-> j.group, index |-> i, target |-> j.targets[i], status |-> j.rows[i]] :
     i \in DOMAIN j.rows}

(* The history is read again, and the audit lines are appended. *)
Audit(s) ==
  /\ pc[s] = "audit"
  /\ existing' = [existing EXCEPT ![s] = Attempts(history)]
  /\ audit' = audit \cup Entries(job[s])
  /\ pc' = [pc EXCEPT ![s] = "write"]
  /\ UNCHANGED <<now, packet, history, job, log, clean>>

Written(s) == Append(existing[s], Record(job[s]))

Gone(s) ==
  /\ pc' = [pc EXCEPT ![s] = "idle"]
  /\ job' = [job EXCEPT ![s] = None]
  /\ existing' = [existing EXCEPT ![s] = <<>>]

(* The history read before the audit is written back with the attempt. *)
Write(s) ==
  /\ pc[s] = "write"
  /\ history' = Written(s)
  /\ Gone(s)
  /\ UNCHANGED <<now, packet, audit, log, clean>>

(* The process dies. *)
Crash(s) ==
  /\ pc[s] # "idle"
  /\ \/ /\ UNCHANGED history
        /\ clean' = (clean /\ Rows(job[s], "sent") = 0)
     \/ /\ TornWrites /\ pc[s] = "write"
        /\ history' = None /\ clean' = FALSE
  /\ Gone(s)
  /\ UNCHANGED <<now, packet, audit, log>>

Tick == now < MaxTime /\ now' = now + 1 /\ UNCHANGED <<disk, pc, job, existing, log, clean>>

Step(s) ==
  \/ Suppress(s) \/ DryRun(s) \/ Delivered(s) \/ Refused(s) \/ Transient(s)
  \/ Audit(s) \/ Write(s)

Next ==
  \/ \E s \in Senders : SessionFails(s) \/ OperatorSends(s) \/ OperatorReplays(s)
  \/ \E s \in Senders : Step(s) \/ Crash(s)
  \/ Tick

Spec == Init /\ [][Next]_vars

----------------------------------------------------------------------------
(* Properties.                                                             *)

Running == [group : 1..MaxSends, incident : Incidents, decided : 0..MaxTime,
            dry : BOOLEAN, force : BOOLEAN, targets : Seq(Targets), rows : Seq(Statuses),
            posts : 0..MaxPosts - 1, policed : BOOLEAN, hit : BOOLEAN,
            global : Nat, target : [Targets -> Nat]]

(* Type invariant; a process is at a target exactly while rows are missing. *)
TypeOK ==
  /\ now \in 0..MaxTime /\ packet \in Incidents
  /\ history = None \/ history \in Seq(Attempt)
  /\ audit \subseteq Entry
  /\ pc \in [Senders -> {"idle", "send", "audit", "write"}]
  /\ \A s \in Senders :
       /\ IF pc[s] = "idle" THEN job[s] = None ELSE job[s] \in Running
       /\ pc[s] = "send" => Len(job[s].rows) < Len(job[s].targets)
       /\ pc[s] \in {"audit", "write"} => Len(job[s].rows) = Len(job[s].targets)
  /\ existing \in [Senders -> Seq(Attempt)]
  /\ Len(log) <= MaxSends /\ clean \in BOOLEAN

Groups == DOMAIN log

(* What a row of an attempt says is what its target received, through      *)
(* retries, doubtful answers and crashes: sent is at least one copy and    *)
(* never more than the posts allowed, suppressed is none, and dry_run is   *)
(* none except for a target that logs the packet, which has it once.       *)
RowsAreTrue ==
  \A g \in Groups : \A i \in DOMAIN log[g].rows :
    LET n == log[g].copies[i]
    IN  CASE log[g].rows[i] = "sent"    -> n \in 1..MaxPosts
          [] log[g].rows[i] = "failed"  -> n \in 0..MaxPosts
          [] log[g].rows[i] = "dry_run" -> n = DryCopies(log[g].targets[i])
          [] OTHER                      -> n = 0

(* Not so, for the log target: a dry run hands the packet to nobody.       *)
DryRunsReachNobody ==
  \A g \in Groups : log[g].dry => \A i \in DOMAIN log[g].copies : log[g].copies[i] = 0

(* Every target of every attempt the history keeps has its audit line, so  *)
(* that it can be replayed: the trail is written before the history.       *)
HistoryAudited ==
  \A k \in DOMAIN Attempts(history) : \A i \in DOMAIN history[k].rows :
    [group |-> history[k].group, index |-> i, target |-> history[k].targets[i],
     status |-> history[k].rows[i]] \in audit

Sends(g, status) == ~ log[g].dry /\ Rows(log[g], status) > 0

(* Attempt h goes by the policy of the session. *)
Obeys(h) == log[h].policed /\ ~ log[h].force

(* How long an attempt is remembered for sure, its stamp being cut. *)
Sure(window) == window - (TicksPerSecond - 1)

(* Without overlap and without a crash that hides something sent, one      *)
(* incident is not sent twice inside the dedupe window unless forced, to   *)
(* whatever targets, and whoever sent it first.                            *)
DedupeHolds ==
  clean => \A g, h \in Groups :
    /\ g < h /\ log[g].incident = log[h].incident
    /\ Sends(g, "sent") /\ Sends(h, "sent") /\ Obeys(h)
    => log[h].at - log[g].at > Sure(DedupeWindow)

(* The live attempts up to h inside the rate window of h. *)
LiveBefore(h) == {g \in 1..h : ~ log[g].dry /\ log[h].at - log[g].at <= Sure(RateWindow)}

(* Under the same conditions an attempt that obeys the policy and sends    *)
(* leaves the window within both limits, its own targets included.         *)
RateHolds ==
  clean => \A h \in Groups :
    Obeys(h) /\ Sends(h, "sent") =>
      /\ MapThenSumSet(LAMBDA g : Rows(log[g], "sent"), LiveBefore(h)) <= GlobalMax
      /\ \A t \in Targets : RowsTo(log[h], "sent", t) > 0 =>
           MapThenSumSet(LAMBDA g : RowsTo(log[g], "sent", t), LiveBefore(h)) <= TargetMax
=============================================================================
