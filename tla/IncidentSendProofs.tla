------------------------ MODULE IncidentSendProofs -------------------------
(***************************************************************************)
(* Proofs about IncidentSend, for any number of processes, incidents and   *)
(* targets, any limits and any crashes: RowsAreTrue, HistoryAudited and,   *)
(* where their windows are on, DedupeHolds and RateHolds.                  *)
(*                                                                         *)
(* The argument: a running process's rows are those the log shows for its  *)
(* attempt, and its attempt is nobody else's; the copies of the target it  *)
(* is at are bounded by its posts, those of later targets are none         *)
(* (JobInv).  An attempt in the audit trail is there with all its targets  *)
(* and is over (AuditInv), and an attempt in the history, or in the copy   *)
(* of it a process is about to extend, is one of the log's and is audited  *)
(* (HistoryInv).  For the dedupe, while no process overlapped another and  *)
(* none died with something sent, the history holds every attempt that     *)
(* sent something (DedupeInv), so that a process that found no hit has     *)
(* none to find.  For the limits, what a process counts in the history is  *)
(* at least what the attempts of the window before it sent: the sums are   *)
(* compared attempt by attempt (TotalBelow), and RateInv adds what the     *)
(* process sends itself.                                                   *)
(***************************************************************************)
EXTENDS IncidentSend, FiniteSetTheorems, FunctionTheorems, SequenceTheorems,
        WellFoundedInduction, TLAPS

Logs ==
  [at : 0..MaxTime, incident : Incidents, dry : BOOLEAN, force : BOOLEAN,
   policed : BOOLEAN, targets : Seq(Targets), rows : Seq(Statuses),
   copies : Seq(Nat)]

(* One copy count for every target, one row for the targets that are done. *)
Fits(l) == Len(l.copies) = Len(l.targets) /\ Len(l.rows) <= Len(l.targets)

LogInv ==
  /\ now \in 0..MaxTime /\ packet \in Incidents
  /\ log \in Seq(Logs) /\ Len(log) <= MaxSends
  /\ \A g \in Groups : Fits(log[g])
  /\ pc \in [Senders -> {"idle", "send", "audit", "write"}]

(* The rows of an attempt are true so far; nothing reached a later target. *)
TrueRow(status, t, n) ==
  CASE status = "sent"    -> n \in 1..MaxPosts
    [] status = "failed"  -> n \in 0..MaxPosts
    [] status = "dry_run" -> n = DryCopies(t)
    [] OTHER              -> n = 0

TrueSoFar(l) ==
  /\ \A i \in DOMAIN l.rows : TrueRow(l.rows[i], l.targets[i], l.copies[i])
  /\ \A i \in DOMAIN l.copies : i > Len(l.rows) + 1 => l.copies[i] = 0

(* What process s does is attempt job[s].group of the log, and its alone.  *)
Matches(j, l) ==
  /\ j.incident = l.incident /\ j.dry = l.dry /\ j.force = l.force
  /\ j.policed = l.policed /\ j.targets = l.targets /\ j.rows = l.rows
  /\ j.decided = Stamp(l.at)

AtTarget(j, l) ==
  /\ Len(j.rows) < Len(j.targets)
  /\ l.copies[Len(j.rows) + 1] <= j.posts
  /\ j.posts # 0 => ~ Suppressed(j) /\ ~ j.dry

Fields == {"group", "incident", "decided", "dry", "force", "targets", "rows",
           "posts", "policed", "hit", "global", "target"}

JobInv ==
  /\ DOMAIN job = Senders
  /\ \A s \in Senders : pc[s] # "idle" =>
       /\ DOMAIN job[s] = Fields
       /\ job[s].group \in Groups
       /\ job[s].posts \in 0..MaxPosts - 1
       /\ Matches(job[s], log[job[s].group])
       /\ pc[s] = "send" => AtTarget(job[s], log[job[s].group])
       /\ pc[s] # "send" => Len(job[s].rows) = Len(job[s].targets)
  /\ \A r, s \in Senders :
       pc[r] # "idle" /\ pc[s] # "idle" /\ r # s => job[r].group # job[s].group

RowsInv == \A g \in Groups : TrueSoFar(log[g])

(* An attempt is audited with all its targets when it is over. *)
LinesOf(g) == {x \in audit : x.group = g}

Lines(g) ==
  {[group |-> g, index |-> i, target |-> log[g].targets[i], status |-> log[g].rows[i]] :
     i \in DOMAIN log[g].rows}

Audited(g) == LinesOf(g) = Lines(g) /\ Len(log[g].rows) = Len(log[g].targets)

AuditInv ==
  /\ \A x \in audit : x.group \in Groups /\ Audited(x.group)
  /\ \A s \in Senders : pc[s] \in {"send", "audit"} => LinesOf(job[s].group) = {}
  /\ \A s \in Senders : pc[s] = "write" => Audited(job[s].group)

(* A record of the history is an audited attempt of the log. *)
IsRecord(a) ==
  /\ a.group \in Groups /\ Audited(a.group)
  /\ LET l == log[a.group]
     IN  a.incident = l.incident /\ a.dry = l.dry /\ a.targets = l.targets
         /\ a.rows = l.rows /\ a.decided = Stamp(l.at)

Records(h) == h \in Seq(Attempt) /\ \A k \in DOMAIN h : IsRecord(h[k])

HistoryInv ==
  /\ history # None => Records(history)
  /\ DOMAIN existing = Senders /\ \A s \in Senders : Records(existing[s])

IInv == LogInv /\ JobInv /\ RowsInv /\ AuditInv /\ HistoryInv

(* While clean, one process runs at most, and its attempt is the last one. *)
SentSome(l) == ~ l.dry /\ \E i \in DOMAIN l.rows : l.rows[i] = "sent"

KeptIn(h, g) == \E k \in DOMAIN h : h[k].group = g

(* What was found when the attempt began: no earlier one inside the window, *)
(* where there is one.                                                      *)
NoneLately(h) ==
  DedupeWindow # 0 => \A g \in 1..h - 1 :
    log[g].incident = log[h].incident /\ SentSome(log[g])
      => log[h].at - log[g].at > Sure(DedupeWindow)

DedupeInv ==
  clean =>
    /\ history # None
    /\ \A r, s \in Senders : pc[r] # "idle" /\ pc[s] # "idle" => r = s
    /\ \A s \in Senders : pc[s] # "idle" =>
         /\ job[s].group = Len(log)
         /\ Obeys(Len(log)) /\ ~ job[s].hit => NoneLately(Len(log))
         /\ Obeys(Len(log)) /\ job[s].hit => ~ SentSome(log[Len(log)])
         /\ pc[s] = "write" => existing[s] = history
    /\ \A g \in Groups : SentSome(log[g]) =>
         KeptIn(history, g) \/ \E s \in Senders : pc[s] # "idle" /\ job[s].group = g
    /\ \A h \in Groups : Obeys(h) /\ SentSome(log[h]) => NoneLately(h)

-----------------------------------------------------------------------------
(* The log *)

LEMMA LogGrows ==
  ASSUME LogInv, NEW l \in Logs
  PROVE  LET h == Append(log, l) IN
         /\ h \in Seq(Logs) /\ Len(h) = Len(log) + 1
         /\ DOMAIN h = Groups \cup {Len(log) + 1} /\ Len(log) + 1 \notin Groups
         /\ h[Len(log) + 1] = l /\ \A g \in Groups : h[g] = log[g]
<1> DEFINE h == Append(log, l)
<1>1. log \in Seq(Logs)
  BY DEF LogInv
<1>2. Len(log) \in Nat /\ Groups = 1..Len(log)
  BY <1>1, LenProperties DEF Groups
<1>3. /\ h \in Seq(Logs) /\ Len(h) = Len(log) + 1
      /\ h[Len(log) + 1] = l /\ \A g \in 1..Len(log) : h[g] = log[g]
  BY <1>1, AppendProperties
<1>4. DOMAIN h = 1..Len(h)
  BY <1>3, LenProperties
<1> QED
  BY <1>2, <1>3, <1>4

LEMMA LogChanges ==
  ASSUME LogInv, NEW g \in Groups, NEW l \in Logs
  PROVE  LET h == [log EXCEPT ![g] = l] IN
         /\ h \in Seq(Logs) /\ Len(h) = Len(log) /\ DOMAIN h = Groups
         /\ h[g] = l /\ \A f \in Groups : f # g => h[f] = log[f]
<1> DEFINE h == [log EXCEPT ![g] = l]
<1>1. log \in Seq(Logs)
  BY DEF LogInv
<1>2. Len(log) \in Nat /\ Groups = 1..Len(log) /\ log \in [1..Len(log) -> Logs]
  BY <1>1, LenProperties DEF Groups
<1>3. h \in Seq(Logs) /\ Len(h) = Len(log)
  BY <1>1, <1>2, ExceptSeq
<1> QED
  BY <1>2, <1>3

LEMMA LogTyped ==
  ASSUME LogInv, NEW g \in Groups
  PROVE  /\ log[g] \in Logs /\ log[g].rows \in Seq(Statuses)
         /\ log[g].targets \in Seq(Targets) /\ log[g].copies \in Seq(Nat)
         /\ Len(log[g].rows) \in Nat /\ Len(log[g].targets) \in Nat
         /\ DOMAIN log[g].rows = 1..Len(log[g].rows)
         /\ DOMAIN log[g].targets = 1..Len(log[g].targets)
         /\ DOMAIN log[g].copies = 1..Len(log[g].targets)
         /\ Len(log[g].rows) <= Len(log[g].targets)
<1>1. log[g] \in Logs /\ Fits(log[g])
  BY LenProperties DEF LogInv, Groups
<1>2. /\ log[g].rows \in Seq(Statuses)
      /\ log[g].targets \in Seq(Targets) /\ log[g].copies \in Seq(Nat)
  BY <1>1 DEF Logs
<1> QED
  BY <1>1, <1>2, LenProperties DEF Fits

(* An attempt that is over, or not the one that changes, is audited as before. *)
LEMMA AuditedStays ==
  ASSUME NEW g, Audited(g), log'[g] = log[g], UNCHANGED audit
  PROVE  Audited(g)'
BY DEF Audited, LinesOf, Lines

LEMMA RecordStays ==
  ASSUME NEW a, IsRecord(a), Audited(a.group)', a.group \in Groups',
         log'[a.group] = log[a.group]
  PROVE  IsRecord(a)'
BY DEF IsRecord

LEMMA NotAudited ==
  ASSUME NEW g \in Groups, LinesOf(g) = {}, LogInv, Len(log[g].rows) < Len(log[g].targets)
  PROVE  ~ Audited(g)
BY LogTyped DEF Audited

(* A stamp is at most a second old. *)
LEMMA StampBounds ==
  \A t \in 0..MaxTime : Stamp(t) \in 0..MaxTime /\ Stamp(t) > t - TicksPerSecond
<1> SUFFICES ASSUME NEW t \in 0..MaxTime
             PROVE  Stamp(t) \in 0..MaxTime /\ Stamp(t) > t - TicksPerSecond
  OBVIOUS
<1>1. \A d \in Nat \ {0} : t % d \in 0..d - 1 /\ t % d <= t
  BY LimitAssumption
<1>2. TicksPerSecond \in Nat \ {0} /\ t \in Nat /\ MaxTime \in Nat /\ t <= MaxTime
  BY LimitAssumption
<1>3. t % TicksPerSecond \in 0..TicksPerSecond - 1 /\ t % TicksPerSecond <= t
  BY <1>1, <1>2
<1> QED
  BY <1>2, <1>3 DEF Stamp

-----------------------------------------------------------------------------
(* Replays *)

LEMMA ReplayTyped ==
  ASSUME IInv, NEW e \in audit
  PROVE  ReplayTargets(e) \in Seq(Targets) /\ Len(ReplayTargets(e)) # 0
<1> DEFINE g == e.group
           n == Len(log[g].rows)
           group == LinesOf(g)
           line == [i \in 1..n |-> [group |-> g, index |-> i,
                      target |-> log[g].targets[i], status |-> log[g].rows[i]]]
<1>1. g \in Groups /\ Audited(g)
  BY DEF IInv, AuditInv
<1>2. n \in Nat /\ DOMAIN log[g].rows = 1..n
  BY <1>1, LogTyped DEF IInv
<1>3. \A i \in 1..n : log[g].targets[i] \in Targets
  BY <1>1, <1>2, LogTyped, LenProperties DEF Audited, IInv
<1>4. group = {line[i] : i \in 1..n}
  BY <1>1, <1>2 DEF Audited, Lines
<1>5. line \in [1..n -> group] /\ \A i \in 1..n : line[i].index = i
  BY <1>4
<1>6. \A x \in group : x.target \in Targets
  <2>1. \A i \in 1..n : line[i].target \in Targets
    BY <1>3
  <2> HIDE DEF line, group
  <2> QED
    BY <1>4, <2>1
<1>7. Cardinality(group) = n
  <2>1. \A i, j \in 1..n : line[i] = line[j] => i = j
    BY <1>5
  <2> HIDE DEF line, group
  <2>2. line \in Bijection(1..n, group)
    BY <1>4, <1>5, <2>1, Fun_IsBij
  <2> QED
    BY <1>2, <2>2, FS_CountingElements, FS_NatBijection DEF ExistsBijection
<1> HIDE DEF line
<1>8. ByIndex(group) \in [1..n -> group]
  <2> DEFINE Sorted(es) == /\ es \in [1..Cardinality(group) -> group]
                           /\ \A i, j \in DOMAIN es : i < j => es[i].index < es[j].index
  <2>1. Sorted(line)
    BY <1>5, <1>7
  <2>2. Sorted(ByIndex(group))
    BY <2>1 DEF ByIndex
  <2> QED
    BY <1>7, <2>2
<1>9. ReplayTargets(e) = [i \in 1..n |-> ByIndex(group)[i].target]
  BY <1>7 DEF ReplayTargets, LinesOf
<1> HIDE DEF group, n
<1>10. ReplayTargets(e) \in [1..n -> Targets]
  BY <1>6, <1>8, <1>9
<1>11. n # 0
  BY <1>2, <1>4 DEF LinesOf, group
<1> QED
  BY <1>2, <1>10, <1>11

-----------------------------------------------------------------------------
(* A process begins *)

LEMMA BeginKeeps ==
  ASSUME IInv, NEW s \in Senders, NEW caller \in Callers, NEW p \in Incidents,
         NEW force \in BOOLEAN, NEW dry \in BOOLEAN, NEW targets \in Seq(Targets),
         Begin(s, caller, p, force, dry, targets), packet' \in Incidents,
         Len(targets) # 0
  PROVE  IInv'
<1> DEFINE n == Len(log) + 1
           policed == caller # "send"
           l == [at |-> now, incident |-> p, dry |-> dry, force |-> force,
                 policed |-> policed, targets |-> targets, rows |-> <<>>,
                 copies |-> [i \in DOMAIN targets |-> 0]]
           j == [group |-> n, incident |-> p, decided |-> Stamp(now), dry |-> dry,
                 force |-> force, targets |-> targets, rows |-> <<>>, posts |-> 0,
                 policed |-> policed, hit |-> policed /\ DedupeHit(p),
                 global |-> SentLately, target |-> [t \in Targets |-> SentLatelyTo(t)]]
<1>1. /\ pc[s] = "idle" /\ pc' = [pc EXCEPT ![s] = "send"]
      /\ job' = [job EXCEPT ![s] = j] /\ log' = Append(log, l)
      /\ UNCHANGED <<now, history, audit, existing>>
  BY DEF Begin
<1>2. Len(targets) \in Nat \ {0} /\ DOMAIN targets = 1..Len(targets)
  BY LenProperties
<1>3. /\ l \in Logs /\ Fits(l) /\ l.rows = <<>>
      /\ \A i \in DOMAIN l.copies : l.copies[i] = 0
  <2>1. /\ [i \in DOMAIN targets |-> 0] \in Seq(Nat)
        /\ Len([i \in DOMAIN targets |-> 0]) = Len(targets)
    BY <1>2
  <2>2. <<>> \in Seq(Statuses) /\ Len(<<>>) = 0
    OBVIOUS
  <2>3. now \in 0..MaxTime /\ policed \in BOOLEAN
    BY DEF IInv, LogInv
  <2> HIDE DEF policed
  <2>4. l \in Logs
    BY <2>1, <2>2, <2>3 DEF Logs
  <2>5. Fits(l)
    BY <1>2, <2>1, <2>2 DEF Fits
  <2> QED
    BY <2>4, <2>5
<1>4. /\ DOMAIN j = Fields /\ j.group = n /\ j.posts = 0 /\ j.rows = <<>>
      /\ j.targets = targets /\ Matches(j, l)
  <2> HIDE DEF policed
  <2> QED
    BY DEF Fields, Matches
<1> HIDE DEF l, j, policed
<1>5. /\ log' \in Seq(Logs) /\ Len(log') = n
      /\ Groups' = Groups \cup {n} /\ n \notin Groups
      /\ log'[n] = l /\ \A g \in Groups : log'[g] = log[g]
  <2>1. /\ log' \in Seq(Logs) /\ Len(log') = Len(log) + 1
        /\ DOMAIN log' = Groups \cup {Len(log) + 1} /\ Len(log) + 1 \notin Groups
        /\ log'[Len(log) + 1] = l /\ \A g \in Groups : log'[g] = log[g]
    <3> DEFINE h == Append(log, l)
    <3>1. LogInv /\ l \in Logs /\ log' = h
      BY <1>1, <1>3 DEF IInv
    <3>2. /\ h \in Seq(Logs) /\ Len(h) = Len(log) + 1
          /\ DOMAIN h = Groups \cup {Len(log) + 1} /\ Len(log) + 1 \notin Groups
          /\ h[Len(log) + 1] = l /\ \A g \in Groups : h[g] = log[g]
      BY <3>1, LogGrows
    <3> QED
      BY <3>1, <3>2
  <2> QED
    BY <2>1 DEF Groups
<1>6. n <= MaxSends
  <2>1. Len(log) < MaxSends /\ Len(log) \in Nat
    BY LenProperties DEF Begin, IInv, LogInv
  <2> QED
    BY <2>1, LimitAssumption
<1> HIDE DEF n
<1>7. LogInv'
  BY <1>1, <1>3, <1>5, <1>6 DEF IInv, LogInv
<1>8. job'[s] = j /\ pc'[s] = "send"
      /\ \A r \in Senders : r # s => job'[r] = job[r] /\ pc'[r] = pc[r]
  BY <1>1 DEF IInv, LogInv, JobInv
<1>9. JobInv'
  <2>1. \A r \in Senders \ {s} : pc[r] # "idle" => job[r].group \in Groups
    BY DEF IInv, JobInv
  <2>2. 0 \in 0..MaxPosts - 1
    BY LimitAssumption
  <2>3. AtTarget(j, l)
    <3>1. Len(l.copies) = Len(l.targets) /\ l.targets = targets /\ l.copies \in Seq(Nat)
      BY <1>3, <1>4 DEF Fits, Logs, Matches
    <3>2. 1 \in DOMAIN l.copies
      BY <1>2, <3>1, LenProperties
    <3>3. l.copies[1] = 0
      BY <1>3, <3>2
    <3> QED
      BY <1>2, <1>4, <3>3 DEF AtTarget
  <2>4. DOMAIN job' = Senders
    BY <1>1 DEF IInv, JobInv
  <2>5. /\ DOMAIN job'[s] = Fields /\ job'[s].group \in Groups' /\ job'[s].group = n
        /\ job'[s].posts \in 0..MaxPosts - 1
        /\ Matches(job'[s], log'[n]) /\ AtTarget(job'[s], log'[n])
    BY <1>4, <1>5, <1>8, <2>2, <2>3
  <2>6. ASSUME NEW r \in Senders \ {s}, pc'[r] # "idle"
        PROVE  /\ DOMAIN job'[r] = Fields
               /\ job'[r].group \in Groups' /\ job'[r].group # n
               /\ job'[r].posts \in 0..MaxPosts - 1
               /\ Matches(job'[r], log'[job'[r].group])
               /\ pc'[r] = "send" => AtTarget(job'[r], log'[job'[r].group])
               /\ pc'[r] # "send" => Len(job'[r].rows) = Len(job'[r].targets)
    BY <1>5, <1>8, <2>1, <2>6 DEF IInv, JobInv
  <2> QED
    BY <1>8, <2>4, <2>5, <2>6 DEF IInv, JobInv
<1>10. RowsInv'
  <2>1. TrueSoFar(l)
    BY <1>3 DEF TrueSoFar
  <2> QED
    BY <1>5, <2>1 DEF IInv, RowsInv
<1>11. \A g \in Groups : Audited(g) => Audited(g)'
  BY <1>1, <1>5, AuditedStays
<1>12. AuditInv'
  <2>1. \A r \in Senders \ {s} : pc[r] # "idle" => job[r].group \in Groups
    BY DEF IInv, JobInv
  <2>2. \A x \in audit : x.group # n
    BY <1>5 DEF IInv, AuditInv
  <2>3. LinesOf(n) = {}
    BY <2>2 DEF LinesOf
  <2> QED
    BY <1>1, <1>4, <1>5, <1>8, <1>11, <2>1, <2>3 DEF IInv, AuditInv, LinesOf
<1>13. HistoryInv'
  <2>1. \A a : IsRecord(a) => IsRecord(a)'
    BY <1>5, <1>11, RecordStays DEF IsRecord
  <2> QED
    BY <1>1, <2>1 DEF IInv, HistoryInv, Records
<1> QED
  BY <1>7, <1>9, <1>10, <1>12, <1>13 DEF IInv
LEMMA StartKeeps ==
  ASSUME IInv, NEW s \in Senders,
         SessionFails(s) \/ OperatorSends(s) \/ OperatorReplays(s)
  PROVE  IInv'
<1>1. \A targets \in Fanouts : targets \in Seq(Targets) /\ Len(targets) # 0
  <2> SUFFICES ASSUME NEW targets \in Fanouts
               PROVE  targets \in Seq(Targets) /\ Len(targets) # 0
    OBVIOUS
  <2>1. targets \in Seq(Targets) /\ targets # <<>>
    BY TargetAssumption
  <2> QED
    BY <2>1, EmptySeq
<1>2. CASE SessionFails(s)
  BY <1>1, <1>2, BeginKeeps DEF SessionFails, Callers
<1>3. CASE OperatorSends(s)
  BY <1>1, <1>3, BeginKeeps DEF OperatorSends, Callers, IInv, LogInv
<1>4. CASE OperatorReplays(s)
  <2>1. PICK e \in audit, live \in BOOLEAN :
          /\ Begin(s, "replay", packet, live, ~ live, ReplayTargets(e))
          /\ UNCHANGED packet
    BY <1>4 DEF OperatorReplays
  <2>2. ReplayTargets(e) \in Seq(Targets) /\ Len(ReplayTargets(e)) # 0
    BY ReplayTyped
  <2>3. packet \in Incidents
    BY DEF IInv, LogInv
  <2> QED
    BY <2>1, <2>2, <2>3, BeginKeeps DEF Callers
<1> QED
  BY <1>2, <1>3, <1>4
-----------------------------------------------------------------------------
(* A process at a target *)

(* The log after the target of process s received n copies more. *)
After(s, n, rows, k) ==
  LET g == job[s].group
      i == Len(job[s].rows) + 1
  IN  /\ k \in Logs /\ log' = [log EXCEPT ![g] = k]
      /\ k.at = log[g].at /\ k.incident = log[g].incident /\ k.dry = log[g].dry
      /\ k.force = log[g].force /\ k.policed = log[g].policed
      /\ k.targets = log[g].targets /\ k.rows = rows
      /\ Len(k.copies) = Len(log[g].copies) /\ DOMAIN k.copies = DOMAIN log[g].copies
      /\ k.copies[i] = log[g].copies[i] + n
      /\ \A m \in DOMAIN log[g].copies : m # i => k.copies[m] = log[g].copies[m]

(* What is known of a process at a target. *)
LEMMA AtSend ==
  ASSUME IInv, NEW s \in Senders, pc[s] = "send"
  PROVE  LET g == job[s].group
             l == log[g]
             i == Len(l.rows) + 1
         IN  /\ g \in Groups /\ l \in Logs /\ DOMAIN job[s] = Fields
             /\ Matches(job[s], l) /\ AtTarget(job[s], l)
             /\ job[s].posts \in 0..MaxPosts - 1
             /\ l.rows \in Seq(Statuses) /\ l.targets \in Seq(Targets)
             /\ l.copies \in Seq(Nat) /\ Len(l.copies) = Len(l.targets)
             /\ Len(l.rows) \in Nat /\ Len(l.targets) \in Nat
             /\ DOMAIN l.rows = 1..Len(l.rows) /\ DOMAIN l.copies = 1..Len(l.targets)
             /\ i \in DOMAIN l.copies /\ i <= Len(l.targets)
             /\ l.copies[i] \in Nat /\ l.copies[i] <= job[s].posts
             /\ TrueSoFar(l) /\ ~ Audited(g)
<1> DEFINE g == job[s].group
           l == log[g]
           i == Len(l.rows) + 1
<1>1. /\ g \in Groups /\ DOMAIN job[s] = Fields
      /\ Matches(job[s], l) /\ AtTarget(job[s], l)
      /\ job[s].posts \in 0..MaxPosts - 1
  BY DEF IInv, JobInv
<1>2. /\ l \in Logs /\ l.rows \in Seq(Statuses) /\ l.targets \in Seq(Targets)
      /\ l.copies \in Seq(Nat)
      /\ Len(l.rows) \in Nat /\ Len(l.targets) \in Nat
      /\ DOMAIN l.rows = 1..Len(l.rows) /\ DOMAIN l.copies = 1..Len(l.targets)
  BY <1>1, LogTyped DEF IInv
<1>3. Len(l.copies) = Len(l.targets)
  BY <1>1 DEF IInv, LogInv, Fits
<1>4. job[s].rows = l.rows /\ job[s].targets = l.targets
  BY <1>1 DEF Matches
<1>5. Len(l.rows) < Len(l.targets) /\ l.copies[i] <= job[s].posts
  BY <1>1, <1>4 DEF AtTarget
<1>6. i \in DOMAIN l.copies /\ i <= Len(l.targets)
  <2> HIDE DEF l
  <2> QED
    BY <1>2, <1>5
<1>7. l.copies[i] \in Nat
  BY <1>2, <1>6, LenProperties
<1>8. TrueSoFar(l)
  BY <1>1 DEF IInv, RowsInv
<1>9. ~ Audited(g)
  BY <1>1, <1>5, NotAudited DEF IInv, AuditInv
<1> QED
  BY <1>1, <1>2, <1>3, <1>5, <1>6, <1>7, <1>8, <1>9

LEMMA ReceivedIs ==
  ASSUME IInv, NEW s \in Senders, pc[s] = "send", NEW n \in {0, 1},
         NEW rows \in Seq(Statuses), Received(s, n, rows)
  PROVE  \E k : After(s, n, rows, k)
<1> DEFINE g == job[s].group
           l == log[g]
           i == Len(job[s].rows) + 1
           c == [l.copies EXCEPT ![i] = @ + n]
           k == [l EXCEPT !.copies = c, !.rows = rows]
<1>1. /\ g \in Groups /\ l \in Logs /\ l.copies \in Seq(Nat)
      /\ i \in DOMAIN l.copies /\ l.copies[i] \in Nat
      /\ DOMAIN l.copies = 1..Len(l.copies)
  BY AtSend, LenProperties DEF Matches
<1>2. /\ c \in Seq(Nat) /\ Len(c) = Len(l.copies) /\ DOMAIN c = DOMAIN l.copies
      /\ c[i] = l.copies[i] + n
      /\ \A m \in DOMAIN l.copies : m # i => c[m] = l.copies[m]
  <2> HIDE DEF l, i
  <2>1. l.copies[i] + n \in Nat
    BY <1>1
  <2> QED
    BY <1>1, <2>1, ExceptSeq
<1>3. log' = [log EXCEPT ![g] = k]
  BY DEF Received
<1> HIDE DEF c
<1>4. k \in Logs
  BY <1>1, <1>2 DEF Logs
<1>5. /\ k.at = l.at /\ k.incident = l.incident /\ k.dry = l.dry
      /\ k.force = l.force /\ k.policed = l.policed
      /\ k.targets = l.targets /\ k.rows = rows /\ k.copies = c
  BY <1>1 DEF Logs
<1> HIDE DEF k
<1> QED
  BY <1>2, <1>3, <1>4, <1>5 DEF After
(* Whatever process s did at its target: its locals and its log entry agree. *)
LEMMA TargetKeeps ==
  ASSUME IInv, NEW s \in Senders, pc[s] = "send", NEW n, NEW k, NEW j, NEW q,
         After(s, n, j.rows, k), job' = [job EXCEPT ![s] = j],
         DOMAIN j = Fields, j.group = job[s].group, j.posts \in 0..MaxPosts - 1,
         Matches(j, k), TrueSoFar(k), Fits(k),
         pc' = [pc EXCEPT ![s] = q], q \in {"send", "audit"},
         q = "send" => AtTarget(j, k), q = "audit" => Len(j.rows) = Len(j.targets),
         UNCHANGED <<now, disk, existing>>
  PROVE  IInv'
<1> DEFINE g == job[s].group
<1>1. g \in Groups /\ ~ Audited(g)
  BY AtSend
<1>2. /\ log' \in Seq(Logs) /\ Len(log') = Len(log)
      /\ Groups' = Groups /\ log'[g] = k
      /\ \A f \in Groups : f # g => log'[f] = log[f]
  <2>1. k \in Logs /\ log' = [log EXCEPT ![g] = k]
    BY DEF After
  <2> DEFINE h == [log EXCEPT ![g] = k]
  <2>2. LogInv
    BY DEF IInv
  <2> HIDE DEF g
  <2>3. /\ h \in Seq(Logs) /\ Len(h) = Len(log) /\ DOMAIN h = Groups
        /\ h[g] = k /\ \A f \in Groups : f # g => h[f] = log[f]
    BY <1>1, <2>1, <2>2, LogChanges
  <2> QED
    BY <2>1, <2>3 DEF Groups
<1>3. /\ job'[s] = j /\ pc'[s] = q
      /\ \A r \in Senders : r # s => job'[r] = job[r] /\ pc'[r] = pc[r]
      /\ DOMAIN job' = Senders
  BY DEF IInv, LogInv, JobInv
<1>4. \A r \in Senders : r # s /\ pc[r] # "idle" => job[r].group \in Groups /\ job[r].group # g
  BY DEF IInv, JobInv
<1> HIDE DEF g
<1>5. LogInv'
  BY <1>1, <1>2 DEF IInv, LogInv, disk
<1>6. JobInv'
  <2>1. ASSUME NEW r \in Senders, r # s, pc'[r] # "idle"
        PROVE  /\ job'[r].group \in Groups' /\ job'[r].group # g
               /\ DOMAIN job'[r] = Fields
               /\ job'[r].posts \in 0..MaxPosts - 1
               /\ Matches(job'[r], log'[job'[r].group])
               /\ pc'[r] = "send" => AtTarget(job'[r], log'[job'[r].group])
               /\ pc'[r] # "send" => Len(job'[r].rows) = Len(job'[r].targets)
    BY <1>2, <1>3, <1>4, <2>1 DEF IInv, JobInv
  <2>2. job'[s].group = g
    BY <1>3 DEF g
  <2> QED
    BY <1>1, <1>2, <1>3, <2>1, <2>2 DEF IInv, JobInv
<1>7. RowsInv'
  BY <1>1, <1>2 DEF IInv, RowsInv
<1>8. \A f \in Groups : Audited(f) => Audited(f)' /\ log'[f] = log[f]
  BY <1>1, <1>2, AuditedStays DEF disk
<1>9. AuditInv'
  <2>1. LinesOf(g) = {}
    BY DEF IInv, AuditInv, g
  <2>2. UNCHANGED audit
    BY DEF disk
  <2>3. \A x \in audit' : x.group \in Groups' /\ Audited(x.group)'
    BY <1>2, <1>8, <2>2 DEF IInv, AuditInv
  <2>4. ASSUME NEW r \in Senders, pc'[r] \in {"send", "audit"}
        PROVE  LinesOf(job[r].group)' = {}
    BY <1>3, <1>4, <2>1, <2>2, <2>4 DEF IInv, AuditInv, LinesOf, g
  <2>5. ASSUME NEW r \in Senders, pc'[r] = "write"
        PROVE  Audited(job[r].group)'
    BY <1>3, <1>4, <1>8, <2>5 DEF IInv, AuditInv
  <2> QED
    BY <2>3, <2>4, <2>5 DEF AuditInv
<1>10. HistoryInv'
  <2>1. \A a : IsRecord(a) => IsRecord(a)'
    BY <1>2, <1>8, RecordStays DEF IsRecord
  <2> QED
    BY <2>1 DEF IInv, HistoryInv, Records, disk
<1> QED
  BY <1>5, <1>6, <1>7, <1>9, <1>10 DEF IInv
(* The row of the target is settled: by what it says, n copies more or not. *)
LEMMA SettleKeeps ==
  ASSUME IInv, NEW s \in Senders, pc[s] = "send", NEW n \in {0, 1},
         NEW status \in Statuses, Settle(s, status), Received(s, n, job'[s].rows),
         TrueRow(status, Target(job[s]),
                 log[job[s].group].copies[Len(job[s].rows) + 1] + n),
         UNCHANGED <<now, disk, existing>>
  PROVE  IInv'
<1> DEFINE l == log[job[s].group]
           i == Len(l.rows) + 1
           rows == Append(job[s].rows, status)
           j == [job[s] EXCEPT !.rows = rows, !.posts = 0]
           q == IF Len(j.rows) = Len(j.targets) THEN "audit" ELSE "send"
<1>1. job' = [job EXCEPT ![s] = j] /\ pc' = [pc EXCEPT ![s] = q]
  BY DEF Settle
<1>2. /\ DOMAIN job[s] = Fields /\ Matches(job[s], l) /\ TrueSoFar(l) /\ l \in Logs
      /\ l.rows \in Seq(Statuses) /\ l.copies \in Seq(Nat) /\ l.targets \in Seq(Targets)
      /\ Len(l.rows) \in Nat /\ Len(l.targets) \in Nat /\ Len(l.copies) = Len(l.targets)
      /\ DOMAIN l.rows = 1..Len(l.rows) /\ DOMAIN l.copies = 1..Len(l.targets)
      /\ i \in DOMAIN l.copies /\ i <= Len(l.targets)
  BY AtSend
<1>3. job[s].rows = l.rows /\ job[s].targets = l.targets
  BY <1>2 DEF Matches
<1>4. /\ rows \in Seq(Statuses) /\ Len(rows) = i /\ DOMAIN rows = 1..i
      /\ rows[i] = status /\ \A m \in 1..Len(l.rows) : rows[m] = l.rows[m]
  <2>1. /\ rows \in Seq(Statuses) /\ Len(rows) = i
        /\ rows[i] = status /\ \A m \in 1..Len(l.rows) : rows[m] = l.rows[m]
    <3>1. rows = Append(l.rows, status) /\ l.rows \in Seq(Statuses)
      BY <1>2, <1>3
    <3> HIDE DEF rows, l
    <3> QED
      BY <3>1, AppendProperties
  <2> HIDE DEF rows, i
  <2> QED
    BY <2>1, LenProperties
<1>5. /\ j.rows = rows /\ j.posts = 0 /\ j.group = job[s].group /\ DOMAIN j = Fields
      /\ j.incident = job[s].incident /\ j.dry = job[s].dry /\ j.force = job[s].force
      /\ j.policed = job[s].policed /\ j.targets = job[s].targets
      /\ j.decided = job[s].decided
  BY <1>2 DEF Fields
<1>6. job'[s] = j
  BY <1>1 DEF IInv, JobInv
<1> HIDE DEF rows, j
<1>7. PICK k : After(s, n, rows, k)
  BY <1>4, <1>5, <1>6, ReceivedIs
<1>8. Matches(j, k)
  BY <1>2, <1>5, <1>7 DEF Matches, After
<1>9. /\ k.rows = rows /\ k.targets = l.targets
      /\ Len(k.copies) = Len(l.copies) /\ DOMAIN k.copies = DOMAIN l.copies
      /\ k.copies[i] = l.copies[i] + n
      /\ \A m \in DOMAIN l.copies : m # i => k.copies[m] = l.copies[m]
  BY <1>3, <1>7 DEF After
<1>10. TrueRow(status, k.targets[i], k.copies[i])
  BY <1>3, <1>9 DEF Target
<1> HIDE DEF l
<1>11. TrueSoFar(k)
  <2>1. ASSUME NEW m \in DOMAIN k.rows
        PROVE  TrueRow(k.rows[m], k.targets[m], k.copies[m])
    <3>1. CASE m = i
      BY <1>4, <1>9, <1>10, <3>1
    <3>2. CASE m # i
      <4>1. DOMAIN k.rows = 1..Len(l.rows) + 1 /\ k.rows = rows
        BY <1>4, <1>9
      <4>2. m \in 1..Len(l.rows)
        BY <1>2, <3>2, <4>1
      <4>3. k.rows[m] = l.rows[m]
        BY <1>4, <4>1, <4>2
      <4>4. m \in DOMAIN l.rows /\ m \in DOMAIN l.copies
        BY <1>2, <4>2
      <4>5. k.copies[m] = l.copies[m]
        BY <1>9, <3>2, <4>4
      <4> QED
        BY <1>2, <1>9, <4>3, <4>4, <4>5 DEF TrueSoFar
    <3> QED
      BY <3>1, <3>2
  <2>2. ASSUME NEW m \in DOMAIN k.copies, m > Len(k.rows) + 1
        PROVE  k.copies[m] = 0
    <3>1. m # i /\ m > Len(l.rows) + 1 /\ m \in DOMAIN l.copies
      BY SMTT(30), <1>2, <1>4, <1>9, <2>2
    <3> QED
      BY <1>2, <1>9, <3>1 DEF TrueSoFar
  <2> QED
    BY <2>1, <2>2 DEF TrueSoFar
<1>12. Fits(k)
  BY <1>2, <1>4, <1>9 DEF Fits
<1>13. q = "send" => AtTarget(j, k)
  <2> SUFFICES ASSUME q = "send" PROVE AtTarget(j, k)
    OBVIOUS
  <2>1. Len(rows) < Len(l.targets)
    BY <1>2, <1>3, <1>4, <1>5
  <2>2. i + 1 \in DOMAIN l.copies /\ i + 1 # i /\ i + 1 > Len(l.rows) + 1
    BY SMTT(30), <1>2, <1>4, <2>1
  <2>3. k.copies[i + 1] = 0
    BY <1>2, <1>9, <2>2 DEF TrueSoFar
  <2> QED
    BY <1>3, <1>4, <1>5, <2>1, <2>3 DEF AtTarget
<1>14. 0 \in 0..MaxPosts - 1
  BY LimitAssumption
<1>15. After(s, n, j.rows, k)
  BY <1>5, <1>7
<1>16. q = "audit" => Len(j.rows) = Len(j.targets)
  OBVIOUS
<1>17. q \in {"send", "audit"}
  OBVIOUS
<1> HIDE DEF q
<1> QED
  BY <1>1, <1>5, <1>8, <1>11, <1>12, <1>13, <1>14, <1>15, <1>16, <1>17, TargetKeeps

(* Whether a target is suppressed does not depend on the posts made. *)
LEMMA StaysUnsuppressed ==
  ASSUME NEW j, NEW i, j.rows = i.rows, j.targets = i.targets, j.dry = i.dry,
         j.force = i.force, j.policed = i.policed, j.hit = i.hit,
         j.global = i.global, j.target = i.target
  PROVE  Suppressed(j) = Suppressed(i)
<1>1. Target(j) = Target(i)
  BY DEF Target
<1>2. \A status : Rows(j, status) = Rows(i, status)
  BY DEF Rows
<1>3. \A status, t : RowsTo(j, status, t) = RowsTo(i, status, t)
  BY DEF RowsTo
<1>4. Limited(j) = Limited(i)
  BY <1>1, <1>2, <1>3 DEF Limited
<1> QED
  BY <1>4 DEF Suppressed

(* The target is posted to again. *)
LEMMA RetryKeeps ==
  ASSUME IInv, NEW s \in Senders, Handling(s), ~ job[s].dry, NEW n \in {0, 1},
         ~ LastPost(s), job' = [job EXCEPT ![s].posts = @ + 1], UNCHANGED pc,
         Received(s, n, job'[s].rows), UNCHANGED <<now, disk, existing>>
  PROVE  IInv'
<1> DEFINE l == log[job[s].group]
           i == Len(l.rows) + 1
           j == [job[s] EXCEPT !.posts = @ + 1]
<1>1. pc[s] = "send" /\ ~ Suppressed(job[s])
  BY DEF Handling
<1>2. /\ DOMAIN job[s] = Fields /\ Matches(job[s], l) /\ TrueSoFar(l) /\ l \in Logs
      /\ AtTarget(job[s], l) /\ job[s].posts \in 0..MaxPosts - 1
      /\ l.rows \in Seq(Statuses) /\ l.copies \in Seq(Nat)
      /\ Len(l.rows) \in Nat /\ Len(l.targets) \in Nat /\ Len(l.copies) = Len(l.targets)
      /\ DOMAIN l.rows = 1..Len(l.rows) /\ DOMAIN l.copies = 1..Len(l.targets)
      /\ i \in DOMAIN l.copies /\ i <= Len(l.targets)
      /\ l.copies[i] \in Nat /\ l.copies[i] <= job[s].posts
  BY <1>1, AtSend
<1>3. job[s].rows = l.rows /\ job[s].targets = l.targets
  BY <1>2 DEF Matches
<1>4. /\ DOMAIN j = Fields /\ j.posts = job[s].posts + 1 /\ j.group = job[s].group
      /\ j.rows = job[s].rows /\ j.targets = job[s].targets /\ j.dry = job[s].dry
      /\ j.incident = job[s].incident /\ j.force = job[s].force
      /\ j.policed = job[s].policed /\ j.decided = job[s].decided
      /\ j.hit = job[s].hit /\ j.global = job[s].global /\ j.target = job[s].target
  BY <1>2 DEF Fields
<1>5. job' = [job EXCEPT ![s] = j] /\ job'[s] = j
  BY DEF IInv, JobInv
<1> HIDE DEF j
<1>6. ~ Suppressed(j)
  BY <1>1, <1>4, StaysUnsuppressed
<1>7. PICK k : After(s, n, j.rows, k)
  BY <1>1, <1>2, <1>3, <1>4, <1>5, ReceivedIs
<1>8. Matches(j, k)
  BY <1>2, <1>4, <1>7 DEF Matches, After
<1>9. /\ k.rows = l.rows /\ k.targets = l.targets
      /\ Len(k.copies) = Len(l.copies) /\ DOMAIN k.copies = DOMAIN l.copies
      /\ k.copies[i] = l.copies[i] + n
      /\ \A m \in DOMAIN l.copies : m # i => k.copies[m] = l.copies[m]
  BY <1>3, <1>4, <1>7 DEF After
<1> HIDE DEF l
<1>10. TrueSoFar(k)
  <2>1. \A m \in DOMAIN l.rows : m \in DOMAIN l.copies /\ m # i
    BY <1>2
  <2>2. \A m \in DOMAIN l.copies : m > Len(l.rows) + 1 => m # i
    BY <1>2
  <2> QED
    BY <1>2, <1>9, <2>1, <2>2 DEF TrueSoFar
<1>11. Fits(k)
  BY <1>2, <1>9 DEF Fits
<1>12. j.posts \in 0..MaxPosts - 1
  <2>1. job[s].posts \in Nat /\ job[s].posts + 1 < MaxPosts /\ MaxPosts \in Nat
    <3>1. job[s].posts \in 0..MaxPosts - 1 /\ ~ (job[s].posts + 1 >= MaxPosts)
      BY <1>2 DEF LastPost
    <3>2. \A m \in 0..MaxPosts - 1 :
            ~ (m + 1 >= MaxPosts) => m \in Nat /\ m + 1 < MaxPosts /\ MaxPosts \in Nat
      BY LimitAssumption
    <3> QED
      BY <3>1, <3>2
  <2>2. \A m \in Nat : m + 1 < MaxPosts /\ MaxPosts \in Nat => m + 1 \in 0..MaxPosts - 1
    OBVIOUS
  <2> QED
    BY <1>4, <2>1, <2>2
<1>13. AtTarget(j, k)
  <2>1. k.copies[i] <= j.posts
    BY SMTT(30), <1>2, <1>4, <1>9
  <2> QED
    BY <1>2, <1>3, <1>4, <1>6, <2>1 DEF AtTarget
<1>14. pc' = [pc EXCEPT ![s] = "send"]
  BY <1>1 DEF IInv, LogInv
<1> QED
  BY <1>1, <1>4, <1>5, <1>7, <1>8, <1>10, <1>11, <1>12, <1>13, <1>14, TargetKeeps
LEMMA TargetStepKeeps ==
  ASSUME IInv, NEW s \in Senders,
         Suppress(s) \/ DryRun(s) \/ Delivered(s) \/ Refused(s) \/ Transient(s)
  PROVE  IInv'
<1> DEFINE g == job[s].group
           c == log[g].copies[Len(job[s].rows) + 1]
           t == Target(job[s])
<1>1. pc[s] = "send"
  BY DEF Suppress, DryRun, Delivered, Refused, Transient, Handling
<1>2. /\ Matches(job[s], log[g]) /\ AtTarget(job[s], log[g])
      /\ job[s].posts \in 0..MaxPosts - 1 /\ c \in Nat /\ c <= job[s].posts
  BY <1>1, AtSend DEF Matches
<1>3. job[s].posts = 0 => c = 0
  <2> HIDE DEF c
  <2> QED
    BY <1>2
<1>4. c + 0 \in 0..MaxPosts /\ c + 1 \in 1..MaxPosts /\ c + 1 \in 0..MaxPosts
  <2> HIDE DEF c
  <2> QED
    BY <1>2, LimitAssumption
<1> HIDE DEF t
<1>5. CASE Suppress(s)
  <2>1. c + 0 = 0
    <3> HIDE DEF c
    <3> QED
      BY <1>2, <1>3, <1>5 DEF Suppress, AtTarget
  <2>2. TrueRow("suppressed", t, c + 0)
    BY <2>1 DEF TrueRow
  <2> QED
    BY <1>1, <1>5, <2>2, SettleKeeps DEF Suppress, Statuses, t
<1>6. CASE DryRun(s)
  <2>1. c + 0 = 0
    <3> HIDE DEF c
    <3> QED
      BY <1>2, <1>3, <1>6 DEF DryRun, AtTarget
  <2>2. DryCopies(t) \in {0, 1} /\ c + DryCopies(t) = DryCopies(t)
    <3>1. c = 0 /\ DryCopies(t) \in {0, 1}
      BY <1>2, <2>1 DEF DryCopies
    <3> HIDE DEF c
    <3> QED
      BY <3>1
  <2>3. TrueRow("dry_run", t, c + DryCopies(t)) /\ TrueRow("failed", t, c + 0)
    BY <1>4, <2>2 DEF TrueRow
  <2>4. CASE Settle(s, "dry_run") /\ Received(s, DryCopies(t), job'[s].rows)
    BY <1>1, <1>6, <2>2, <2>3, <2>4, SettleKeeps DEF DryRun, Statuses, t
  <2>5. CASE Settle(s, "failed") /\ Received(s, 0, job'[s].rows)
    BY <1>1, <1>6, <2>3, <2>5, SettleKeeps DEF DryRun, Statuses, t
  <2> QED
    BY <1>6, <2>4, <2>5 DEF DryRun, t
<1>7. CASE Delivered(s)
  <2>1. TrueRow("sent", t, c + 1)
    BY <1>4 DEF TrueRow
  <2> QED
    BY <1>1, <1>7, <2>1, SettleKeeps DEF Delivered, Statuses, t
<1>8. \A n \in {0, 1} : TrueRow("failed", t, c + n)
  BY <1>4 DEF TrueRow
<1>9. CASE Refused(s)
  BY <1>1, <1>8, <1>9, SettleKeeps DEF Refused, RefusedRow, Statuses, t
<1>10. CASE Transient(s)
  <2>1. PICK n \in {0, 1} : Received(s, n, job'[s].rows)
    BY <1>10 DEF Transient
  <2>2. CASE LastPost(s)
    BY <1>1, <1>8, <1>10, <2>1, <2>2, SettleKeeps DEF Transient, Statuses, t
  <2>3. CASE ~ LastPost(s)
    BY <1>10, <2>1, <2>3, RetryKeeps DEF Transient
  <2> QED
    BY <2>2, <2>3
<1> QED
  BY <1>5, <1>6, <1>7, <1>9, <1>10

-----------------------------------------------------------------------------
(* The audit trail and the history *)

LEMMA AuditKeeps ==
  ASSUME IInv, NEW s \in Senders, Audit(s)
  PROVE  IInv'
<1> PICK g : g = job[s].group
  OBVIOUS
<1>1. /\ pc[s] = "audit" /\ pc' = [pc EXCEPT ![s] = "write"]
      /\ existing' = [existing EXCEPT ![s] = Attempts(history)]
      /\ audit' = audit \cup Entries(job[s])
      /\ UNCHANGED <<now, packet, history, job, log>>
  BY DEF Audit
<1>2. /\ g \in Groups /\ LinesOf(g) = {} /\ Matches(job[s], log[g])
      /\ Len(job[s].rows) = Len(job[s].targets)
  BY <1>1 DEF IInv, JobInv, AuditInv
<1>3. /\ pc'[s] = "write" /\ \A r \in Senders : r # s => pc'[r] = pc[r]
      /\ Groups' = Groups
  BY <1>1 DEF IInv, LogInv, Groups
<1>4. Entries(job[s]) = Lines(g)
  BY <1>2 DEF Entries, Lines, Matches
<1>5. \A x \in Entries(job[s]) : x.group = g
  BY <1>4 DEF Lines
<1>6. Audited(g)'
  <2>1. LinesOf(g)' = Lines(g)
    BY <1>1, <1>2, <1>4, <1>5 DEF LinesOf
  <2>2. Lines(g)' = Lines(g) /\ Len(log[g].rows) = Len(log[g].targets)
    BY <1>1, <1>2 DEF Lines, Matches
  <2> QED
    BY <1>1, <2>1, <2>2 DEF Audited
<1>7. \A f : f # g => LinesOf(f)' = LinesOf(f) /\ Lines(f)' = Lines(f)
  BY <1>1, <1>5 DEF LinesOf, Lines
<1>8. \A f : Audited(f) => Audited(f)'
  <2>1. \A f : f # g /\ Audited(f) => Audited(f)'
    BY <1>1, <1>7 DEF Audited
  <2> QED
    BY <1>6, <2>1
<1>9. \A r \in Senders : r # s /\ pc[r] # "idle" => job[r].group # g
  BY <1>1 DEF IInv, JobInv
<1>10. LogInv'
  BY <1>1, <1>3 DEF IInv, LogInv
<1>11. JobInv'
  BY <1>1, <1>2, <1>3 DEF IInv, JobInv
<1>12. RowsInv'
  BY <1>1, <1>3 DEF IInv, RowsInv
<1>13. AuditInv'
  <2>1. ASSUME NEW x \in audit'
        PROVE  x.group \in Groups /\ Audited(x.group)'
    <3>1. CASE x \in audit
      BY <1>8, <3>1 DEF IInv, AuditInv
    <3>2. CASE x \in Entries(job[s])
      <4>1. x.group = g
        BY <1>5, <3>2
      <4> QED
        BY <1>2, <1>6, <4>1
    <3> QED
      BY <1>1, <3>1, <3>2
  <2>2. ASSUME NEW r \in Senders, pc'[r] \in {"send", "audit"}
        PROVE  LinesOf(job[r].group)' = {}
    BY <1>1, <1>3, <1>7, <1>9, <2>2 DEF IInv, AuditInv
  <2>3. ASSUME NEW r \in Senders, pc'[r] = "write"
        PROVE  Audited(job[r].group)'
    BY <1>1, <1>3, <1>6, <1>8, <1>9, <2>3 DEF IInv, AuditInv
  <2> QED
    BY <1>3, <2>1, <2>2, <2>3 DEF AuditInv
<1>14. HistoryInv'
  <2>1. \A a : IsRecord(a) => IsRecord(a)'
    BY <1>1, <1>3, <1>8, RecordStays DEF IsRecord
  <2>2. Records(Attempts(history))
    <3>1. Records(<<>>)
      BY EmptySeq DEF Records
    <3> QED
      BY <3>1 DEF IInv, HistoryInv, Attempts
  <2> QED
    BY <1>1, <2>1, <2>2 DEF IInv, HistoryInv, Records
<1> QED
  BY <1>10, <1>11, <1>12, <1>13, <1>14 DEF IInv

(* A process that is gone leaves log and trail as they are. *)
LEMMA GoneKeeps ==
  ASSUME IInv, NEW s \in Senders, Gone(s), UNCHANGED <<now, packet, audit, log>>,
         history' # None => Records(history')
  PROVE  IInv'
<1>1. /\ pc'[s] = "idle" /\ \A r \in Senders : r # s => pc'[r] = pc[r] /\ job'[r] = job[r]
      /\ \A r \in Senders : r # s => existing'[r] = existing[r]
      /\ DOMAIN job' = Senders /\ DOMAIN existing' = Senders /\ existing'[s] = <<>>
      /\ pc' \in [Senders -> {"idle", "send", "audit", "write"}]
      /\ Groups' = Groups
  BY DEF Gone, IInv, LogInv, JobInv, HistoryInv, Groups
<1>2. \A f : Audited(f) => Audited(f)'
  BY AuditedStays
<1>3. \A a : IsRecord(a) => IsRecord(a)'
  BY <1>1, <1>2, RecordStays DEF IsRecord
<1>4. LogInv'
  BY <1>1 DEF IInv, LogInv
<1>5. JobInv'
  BY <1>1 DEF IInv, JobInv
<1>6. RowsInv'
  BY <1>1 DEF IInv, RowsInv
<1>7. AuditInv'
  <2>1. \A x \in audit' : x.group \in Groups /\ Audited(x.group)'
    BY <1>2 DEF IInv, AuditInv
  <2>2. \A r \in Senders : pc'[r] # "idle" => pc'[r] = pc[r] /\ job'[r] = job[r]
    BY <1>1
  <2>3. ASSUME NEW r \in Senders, pc'[r] \in {"send", "audit"}
        PROVE  LinesOf(job[r].group)' = {}
    BY <2>2, <2>3 DEF IInv, AuditInv, LinesOf
  <2>4. ASSUME NEW r \in Senders, pc'[r] = "write"
        PROVE  Audited(job[r].group)'
    <3>1. Audited(job[r].group) /\ job'[r] = job[r]
      BY <2>2, <2>4 DEF IInv, AuditInv
    <3> QED
      BY <3>1, AuditedStays DEF Audited, LinesOf, Lines
  <2> QED
    BY <1>1, <2>1, <2>3, <2>4 DEF AuditInv
<1>8. HistoryInv'
  <2>1. Records(<<>>)'
    BY EmptySeq DEF Records
  <2>2. \A h : Records(h) => Records(h)'
    BY <1>3 DEF Records
  <2>3. history' # None => Records(history)'
    BY <1>3 DEF Records
  <2> QED
    BY <1>1, <2>1, <2>2, <2>3 DEF IInv, HistoryInv
<1> QED
  BY <1>4, <1>5, <1>6, <1>7, <1>8 DEF IInv

LEMMA RecordTyped ==
  ASSUME IInv, NEW s \in Senders, pc[s] = "write"
  PROVE  Record(job[s]) \in Attempt
<1> DEFINE g == job[s].group
<1>1. g \in Groups /\ Matches(job[s], log[g])
  BY DEF IInv, JobInv
<1>2. log[g] \in Logs /\ Groups \subseteq 1..MaxSends
  BY <1>1, LogTyped, LenProperties, LimitAssumption DEF IInv, LogInv, Groups
<1>3. Stamp(log[g].at) \in 0..MaxTime
  BY <1>2, StampBounds DEF Logs
<1> QED
  BY <1>1, <1>2, <1>3 DEF Attempt, Record, Matches, Logs

LEMMA WriteKeeps ==
  ASSUME IInv, NEW s \in Senders, Write(s)
  PROVE  IInv'
<1> DEFINE a == Record(job[s])
           g == job[s].group
<1>1. pc[s] = "write" /\ history' = Append(existing[s], a) /\ Gone(s)
      /\ UNCHANGED <<now, packet, audit, log>>
  BY DEF Write, Written
<1>2. g \in Groups /\ Matches(job[s], log[g]) /\ Audited(g)
  BY <1>1 DEF IInv, JobInv, AuditInv
<1>3. IsRecord(a)
  BY <1>2 DEF IsRecord, Record, Matches
<1>4. a \in Attempt
  BY <1>1, RecordTyped
<1> HIDE DEF a, g
<1>5. Records(Append(existing[s], a))
  <2>1. existing[s] \in Seq(Attempt) /\ \A k \in DOMAIN existing[s] : IsRecord(existing[s][k])
    BY DEF IInv, HistoryInv, Records
  <2> DEFINE h == existing[s]
             i == Append(h, a)
  <2>2. /\ i \in Seq(Attempt) /\ Len(i) = Len(h) + 1 /\ i[Len(h) + 1] = a
        /\ \A k \in 1..Len(h) : i[k] = h[k]
        /\ Len(h) \in Nat /\ DOMAIN h = 1..Len(h)
    BY <1>4, <2>1, AppendProperties, LenProperties
  <2> HIDE DEF i
  <2>3. DOMAIN i = 1..Len(h) + 1
    BY <2>2, LenProperties
  <2>4. \A k \in DOMAIN i : IsRecord(i[k])
    <3> SUFFICES ASSUME NEW k \in DOMAIN i PROVE IsRecord(i[k])
      OBVIOUS
    <3>1. k = Len(h) + 1 \/ k \in 1..Len(h)
      BY <2>2, <2>3
    <3> QED
      BY <1>3, <2>1, <2>2, <3>1
  <2> QED
    BY <2>2, <2>4 DEF Records, i
<1> QED
  BY <1>1, <1>5, GoneKeeps

LEMMA CrashKeeps ==
  ASSUME IInv, NEW s \in Senders, Crash(s)
  PROVE  IInv'
<1>1. history' = history \/ history' = None
  BY DEF Crash
<1>2. history' # None => Records(history')
  BY <1>1 DEF IInv, HistoryInv
<1> QED
  BY <1>2, GoneKeeps DEF Crash

LEMMA IdleKeeps ==
  ASSUME IInv, Tick \/ UNCHANGED vars
  PROVE  IInv'
<1>1. /\ UNCHANGED <<packet, history, audit, pc, job, existing, log>>
      /\ now' \in 0..MaxTime
  BY LimitAssumption DEF Tick, vars, disk, IInv, LogInv
<1>2. Groups' = Groups
  BY <1>1 DEF Groups
<1>3. \A g : Audited(g)' = Audited(g) /\ LinesOf(g)' = LinesOf(g)
  BY <1>1 DEF Audited, LinesOf, Lines
<1>4. \A a : IsRecord(a)' = IsRecord(a)
  BY <1>1, <1>2, <1>3 DEF IsRecord
<1>5. LogInv' /\ JobInv' /\ RowsInv'
  BY <1>1, <1>2 DEF IInv, LogInv, JobInv, RowsInv
<1>6. AuditInv'
  BY <1>1, <1>2, <1>3 DEF IInv, AuditInv
<1>7. HistoryInv'
  BY <1>1, <1>4 DEF IInv, HistoryInv, Records
<1> QED
  BY <1>5, <1>6, <1>7 DEF IInv

LEMMA InitInv == Init => IInv
<1> SUFFICES ASSUME Init PROVE IInv
  OBVIOUS
<1>1. log \in Seq(Logs) /\ Groups = {}
  BY EmptySeq DEF Init, Groups
<1>2. LogInv
  BY <1>1, LimitAssumption DEF Init, LogInv
<1>3. JobInv /\ RowsInv
  BY <1>1 DEF Init, JobInv, RowsInv
<1>4. AuditInv
  BY DEF Init, AuditInv
<1>5. HistoryInv
  BY EmptySeq DEF Init, HistoryInv, Records
<1> QED
  BY <1>2, <1>3, <1>4, <1>5 DEF IInv

LEMMA InvInductive == IInv /\ [Next]_vars => IInv'
BY StartKeeps, TargetStepKeeps, AuditKeeps, WriteKeeps, CrashKeeps, IdleKeeps DEF Next, Step

(* A row says what its target received, through retries, doubtful answers,   *)
(* crashes and processes that overlap.                                       *)
THEOREM RowsTrue == Spec => []RowsAreTrue
<1>1. IInv => RowsAreTrue
  BY DEF IInv, RowsInv, TrueSoFar, TrueRow, RowsAreTrue
<1> QED
  BY InitInv, InvInductive, <1>1, PTL DEF Spec

(* Every target of every attempt in the history has its audit line, however  *)
(* the processes interleave and wherever they die.                           *)
THEOREM HistoryIsAudited == Spec => []HistoryAudited
<1>1. IInv => HistoryAudited
  <2> SUFFICES ASSUME IInv, NEW k \in DOMAIN Attempts(history),
                      NEW i \in DOMAIN history[k].rows
               PROVE  [group |-> history[k].group, index |-> i,
                       target |-> history[k].targets[i],
                       status |-> history[k].rows[i]] \in audit
    BY DEF HistoryAudited
  <2>1. history # None
    BY EmptySeq DEF Attempts
  <2>2. IsRecord(history[k])
    BY <2>1 DEF IInv, HistoryInv, Records, Attempts
  <2> DEFINE g == history[k].group
  <2>3. /\ LinesOf(g) = Lines(g)
        /\ history[k].targets = log[g].targets /\ history[k].rows = log[g].rows
    BY <2>2 DEF IsRecord, Audited
  <2>4. [group |-> g, index |-> i, target |-> history[k].targets[i],
         status |-> history[k].rows[i]] \in Lines(g)
    BY <2>3 DEF Lines
  <2> QED
    BY <2>3, <2>4 DEF LinesOf
<1> QED
  BY InitInv, InvInductive, <1>1, PTL DEF Spec
-----------------------------------------------------------------------------
(* The dedupe window *)

LEMMA RowsCounted ==
  ASSUME NEW a, a.rows \in Seq(Statuses), NEW status
  PROVE  Rows(a, status) > 0 <=> \E i \in DOMAIN a.rows : a.rows[i] = status
<1> DEFINE D == {i \in DOMAIN a.rows : a.rows[i] = status}
<1>1. Len(a.rows) \in Nat /\ DOMAIN a.rows = 1..Len(a.rows)
  BY LenProperties
<1>2. IsFiniteSet(D)
  <2>1. IsFiniteSet(DOMAIN a.rows) /\ D \subseteq DOMAIN a.rows
    BY <1>1, FS_Interval
  <2> QED
    BY <2>1, FS_Subset
<1>3. Rows(a, status) = Cardinality(D)
  BY DEF Rows
<1>4. Cardinality(D) \in Nat /\ (Cardinality(D) = 0 <=> D = {})
  <2> HIDE DEF D
  <2> QED
    BY <1>2, FS_CardinalityType, FS_EmptySet
<1>5. D # {} <=> \E i \in DOMAIN a.rows : a.rows[i] = status
  OBVIOUS
<1> QED
  BY <1>3, <1>4, <1>5

LEMMA SendsIs ==
  ASSUME LogInv, NEW g \in Groups
  PROVE  Sends(g, "sent") <=> SentSome(log[g])
BY LogTyped, RowsCounted DEF Sends, SentSome

(* Who finds no hit has no earlier attempt in the window that the history    *)
(* holds and that sent something.                                            *)
LEMMA NoHit ==
  ASSUME IInv, DedupeWindow # 0, history # None, NEW p, ~ DedupeHit(p),
         NEW g \in Groups, KeptIn(history, g), log[g].incident = p, SentSome(log[g])
  PROVE  now - log[g].at > Sure(DedupeWindow)
<1>1. PICK k \in DOMAIN history : history[k].group = g
  BY DEF KeptIn
<1> DEFINE a == history[k]
<1>2. IsRecord(a) /\ Attempts(history) = history
  BY <1>1 DEF IInv, HistoryInv, Records, Attempts
<1>3. /\ a.incident = p /\ ~ a.dry /\ a.rows = log[g].rows
      /\ a.decided = Stamp(log[g].at)
  BY <1>1, <1>2 DEF IsRecord, SentSome
<1>4. Rows(a, "sent") > 0
  <2>1. a.rows \in Seq(Statuses)
    BY <1>3, LogTyped DEF IInv
  <2> HIDE DEF a
  <2> QED
    BY <1>3, <2>1, RowsCounted DEF SentSome
<1>5. ~ (a.decided >= now - DedupeWindow)
  <2>1. a \notin Recent(DedupeWindow)
    BY <1>3, <1>4 DEF DedupeHit
  <2> QED
    BY <1>1, <1>2, <1>3, <2>1 DEF Recent
<1>6. log[g].at \in 0..MaxTime
  BY LogTyped DEF IInv, Logs
<1>7. Stamp(log[g].at) \in Int /\ Stamp(log[g].at) > log[g].at - TicksPerSecond
  BY <1>6, StampBounds
<1>8. log[g].at \in Int /\ now \in Int /\ DedupeWindow \in Int /\ TicksPerSecond \in Int
  BY <1>6, LimitAssumption DEF IInv, LogInv
<1> HIDE DEF a
<1> QED
  BY <1>3, <1>5, <1>7, <1>8 DEF Sure

LEMMA DedupeInit == Init => DedupeInv
<1> SUFFICES ASSUME Init PROVE DedupeInv
  OBVIOUS
<1>1. <<>> \in Seq(Attempt) /\ DOMAIN log = {}
  BY EmptySeq DEF Init
<1>2. history # None
  BY <1>1, NoneAssumption DEF Init
<1> QED
  BY <1>1, <1>2 DEF Init, DedupeInv, Groups

(* An attempt begins while no other runs. *)
LEMMA DedupeBegin ==
  ASSUME IInv, DedupeInv, NEW s \in Senders, NEW caller,
         NEW p, NEW force, NEW dry, NEW targets,
         Begin(s, caller, p, force, dry, targets), IInv'
  PROVE  DedupeInv'
<1> SUFFICES ASSUME clean' PROVE DedupeInv'
  BY DEF DedupeInv
<1> DEFINE l == [at |-> now, incident |-> p, dry |-> dry, force |-> force,
                 policed |-> caller # "send", targets |-> targets, rows |-> <<>>,
                 copies |-> [i \in DOMAIN targets |-> 0]]
<1> PICK n : n = Len(log) + 1
  OBVIOUS
<1>1. /\ clean /\ \A r \in Senders : pc[r] = "idle"
      /\ pc' = [pc EXCEPT ![s] = "send"] /\ log' = Append(log, l)
      /\ UNCHANGED <<history, existing>>
  BY DEF Begin
<1>2. /\ job'[s].group = n
      /\ job'[s].hit = (caller # "send" /\ DedupeHit(p))
  BY DEF Begin, IInv, JobInv
<1>3. /\ log \in Seq(Logs) /\ Len(log) \in Nat /\ Groups = 1..Len(log)
      /\ log' \in Seq(Logs)
  BY LenProperties DEF IInv, LogInv, Groups
<1>4. /\ Len(log') = n /\ Groups' = Groups \cup {n} /\ n \notin Groups
      /\ log'[n] = l /\ \A g \in Groups : log'[g] = log[g]
  <2>1. Len(log') = n
    BY <1>1, <1>3
  <2>2. log'[n] = l /\ \A g \in 1..Len(log) : log'[g] = log[g]
    BY <1>1, <1>3
  <2>3. Groups' = 1..n
    BY <1>3, <2>1, LenProperties DEF Groups
  <2> QED
    BY <1>3, <2>1, <2>2, <2>3
<1>5. /\ l.incident = p /\ l.at = now /\ l.policed = (caller # "send")
      /\ ~ SentSome(l)
  BY DEF SentSome
<1> HIDE DEF l
<1>6. /\ pc'[s] = "send" /\ \A r \in Senders : r # s => pc'[r] = "idle"
  BY <1>1 DEF IInv, LogInv
<1>7. history # None
  BY <1>1 DEF DedupeInv
<1>8. \A g \in Groups : SentSome(log[g]) => KeptIn(history, g)
  BY <1>1 DEF DedupeInv
<1>9. \A h \in Groups : 1..h - 1 \subseteq Groups /\ h # n
  BY <1>3, <1>4
<1>10. Obeys(n)' /\ ~ job'[s].hit => NoneLately(n)'
  <2> SUFFICES ASSUME Obeys(n)', ~ job'[s].hit, DedupeWindow # 0, NEW g \in 1..n - 1,
                      log'[g].incident = log'[n].incident, SentSome(log'[g])
               PROVE  log'[n].at - log'[g].at > Sure(DedupeWindow)
    BY DEF NoneLately, SentSome, Sure
  <2>1. g \in Groups /\ log'[g] = log[g]
    BY <1>3, <1>4
  <2>2. ~ DedupeHit(p)
    BY <1>2, <1>4, <1>5 DEF Obeys
  <2> QED
    BY <1>4, <1>5, <1>7, <1>8, <2>1, <2>2, NoHit
<1>11. \A h \in Groups : Obeys(h)' /\ SentSome(log'[h]) => NoneLately(h)'
  <2> SUFFICES ASSUME NEW h \in Groups, Obeys(h)', SentSome(log'[h])
               PROVE  NoneLately(h)'
    OBVIOUS
  <2>1. NoneLately(h)
    BY <1>1, <1>4 DEF DedupeInv, Obeys
  <2> QED
    BY <1>4, <1>9, <2>1 DEF NoneLately, SentSome, Sure
<1>12. \A r \in Senders : pc'[r] # "idle" => r = s
  BY <1>6
<1>13. /\ Obeys(Len(log))' /\ ~ job'[s].hit => NoneLately(Len(log))'
       /\ ~ SentSome(log'[Len(log')])
  BY <1>4, <1>5, <1>10 DEF Obeys, NoneLately
<1>14. \A g \in Groups' : SentSome(log'[g]) => KeptIn(history', g)
  BY <1>1, <1>4, <1>5, <1>8
<1>15. \A h \in Groups' : Obeys(h)' /\ SentSome(log'[h]) => NoneLately(h)'
  BY <1>4, <1>5, <1>11
<1> QED
  BY <1>1, <1>2, <1>4, <1>6, <1>7, <1>12, <1>13, <1>14, <1>15 DEF DedupeInv

LEMMA RowsGrow ==
  ASSUME NEW rows \in Seq(Statuses), NEW status \in Statuses
  PROVE  LET more == Append(rows, status) IN
         /\ more \in Seq(Statuses) /\ Len(rows) \in Nat
         /\ DOMAIN rows = 1..Len(rows) /\ DOMAIN more = 1..Len(rows) + 1
         /\ more[Len(rows) + 1] = status /\ \A i \in 1..Len(rows) : more[i] = rows[i]
         /\ \A i \in DOMAIN more :
              (i \in DOMAIN rows /\ more[i] = rows[i]) \/ more[i] = status
<1> DEFINE more == Append(rows, status)
<1>1. /\ more \in Seq(Statuses) /\ Len(more) = Len(rows) + 1
      /\ more[Len(rows) + 1] = status /\ \A i \in 1..Len(rows) : more[i] = rows[i]
      /\ Len(rows) \in Nat /\ DOMAIN rows = 1..Len(rows)
  BY AppendProperties, LenProperties
<1> HIDE DEF more
<1>2. DOMAIN more = 1..Len(rows) + 1
  BY <1>1, LenProperties
<1>3. \A i \in DOMAIN more :
        (i \in DOMAIN rows /\ more[i] = rows[i]) \/ more[i] = status
  BY <1>1, <1>2
<1> QED
  BY <1>1, <1>2, <1>3 DEF more

(* A process at a target: its row is sent only if it was not suppressed. *)
RowOf(s, k) ==
  LET rows == log[job[s].group].rows
  IN  \/ k.rows = rows
      \/ \E status \in Statuses : /\ k.rows = Append(rows, status)
                                  /\ status = "sent" => ~ Suppressed(job[s])

LEMMA TargetStepIs ==
  ASSUME IInv, NEW s \in Senders,
         Suppress(s) \/ DryRun(s) \/ Delivered(s) \/ Refused(s) \/ Transient(s)
  PROVE  /\ pc[s] = "send" /\ pc'[s] \in {"send", "audit"}
         /\ \A r \in Senders : r # s => pc'[r] = pc[r] /\ job'[r] = job[r]
         /\ job'[s].group = job[s].group /\ job'[s].hit = job[s].hit
         /\ job'[s].global = job[s].global /\ job'[s].target = job[s].target
         /\ UNCHANGED <<history, existing, clean>>
         /\ \E n, k : After(s, n, job'[s].rows, k) /\ RowOf(s, k)
<1>1. pc[s] = "send" /\ UNCHANGED <<history, existing, clean>>
  BY DEF Suppress, DryRun, Delivered, Refused, Transient, Handling, disk
<1>2. /\ DOMAIN job[s] = Fields /\ job[s].rows \in Seq(Statuses)
      /\ job[s].rows = log[job[s].group].rows
  BY <1>1, AtSend DEF Matches
<1>3. DOMAIN job = Senders /\ DOMAIN pc = Senders
  BY DEF IInv, JobInv, LogInv
<1> DEFINE Settles == \E status \in Statuses :
             /\ Settle(s, status)
             /\ status = "sent" => ~ Suppressed(job[s])
           Retries == job' = [job EXCEPT ![s].posts = @ + 1] /\ UNCHANGED pc
<1>4. Settles \/ Retries
  BY DEF Suppress, DryRun, Delivered, Refused, RefusedRow, Transient, Handling, Statuses
<1>5. \E n \in {0, 1} : Received(s, n, job'[s].rows)
  BY DEF Suppress, DryRun, Delivered, Refused, Transient, DryCopies
<1>6. CASE Settles
  <2>1. PICK status \in Statuses :
          Settle(s, status) /\ (status = "sent" => ~ Suppressed(job[s]))
    BY <1>6
  <2>2. /\ job'[s] = [job[s] EXCEPT !.rows = Append(job[s].rows, status), !.posts = 0]
        /\ \A r \in Senders : r # s => job'[r] = job[r] /\ pc'[r] = pc[r]
        /\ pc'[s] \in {"send", "audit"}
    BY <1>3, <2>1 DEF Settle
  <2>3. /\ job'[s].group = job[s].group /\ job'[s].hit = job[s].hit
        /\ job'[s].global = job[s].global /\ job'[s].target = job[s].target
        /\ job'[s].rows = Append(job[s].rows, status)
    BY <1>2, <2>2 DEF Fields
  <2>4. job'[s].rows \in Seq(Statuses)
    BY <1>2, <2>3, AppendProperties
  <2>5. PICK n, k : n \in {0, 1} /\ After(s, n, job'[s].rows, k)
    BY <1>1, <1>5, <2>4, ReceivedIs
  <2>6. k.rows = Append(log[job[s].group].rows, status)
    BY <1>2, <2>3, <2>5 DEF After
  <2> QED
    BY <1>1, <2>1, <2>2, <2>3, <2>5, <2>6 DEF RowOf
<1>7. CASE Retries
  <2>1. /\ job'[s] = [job[s] EXCEPT !.posts = @ + 1]
        /\ \A r \in Senders : r # s => job'[r] = job[r] /\ pc'[r] = pc[r]
        /\ pc'[s] = "send"
    BY <1>1, <1>3, <1>7
  <2>2. /\ job'[s].group = job[s].group /\ job'[s].hit = job[s].hit
        /\ job'[s].global = job[s].global /\ job'[s].target = job[s].target
        /\ job'[s].rows = job[s].rows
    BY <1>2, <2>1 DEF Fields
  <2>3. PICK n, k : n \in {0, 1} /\ After(s, n, job'[s].rows, k)
    BY <1>1, <1>2, <1>5, <2>2, ReceivedIs
  <2>4. k.rows = log[job[s].group].rows
    BY <1>2, <2>2, <2>3 DEF After
  <2> QED
    BY <1>1, <2>1, <2>2, <2>3, <2>4 DEF RowOf
<1> QED
  BY <1>4, <1>6, <1>7

LEMMA DedupeTarget ==
  ASSUME IInv, DedupeInv, NEW s \in Senders,
         Suppress(s) \/ DryRun(s) \/ Delivered(s) \/ Refused(s) \/ Transient(s)
  PROVE  DedupeInv'
<1> SUFFICES ASSUME clean' PROVE DedupeInv'
  BY DEF DedupeInv
<1>1. /\ pc[s] = "send" /\ pc'[s] \in {"send", "audit"}
      /\ \A r \in Senders : r # s => pc'[r] = pc[r] /\ job'[r] = job[r]
      /\ job'[s].group = job[s].group /\ job'[s].hit = job[s].hit
      /\ UNCHANGED <<history, existing, clean>>
  BY TargetStepIs
<1> PICK g : g = job[s].group
  OBVIOUS
<1>2. PICK n, k : /\ After(s, n, job'[s].rows, k)
                  /\ SentSome(k) => SentSome(log[g]) \/ ~ Suppressed(job[s])
  <2>1. PICK n, k : After(s, n, job'[s].rows, k) /\ RowOf(s, k)
    BY TargetStepIs
  <2>2. k.dry = log[g].dry
    BY <2>1 DEF After
  <2>3. log[g].rows \in Seq(Statuses)
    BY <1>1, AtSend
  <2>4. SentSome(k) => SentSome(log[g]) \/ ~ Suppressed(job[s])
    <3>1. CASE k.rows = log[g].rows
      BY <2>2, <3>1 DEF SentSome
    <3>2. ASSUME NEW status \in Statuses, k.rows = Append(log[g].rows, status),
                 status = "sent" => ~ Suppressed(job[s])
          PROVE  SentSome(k) => SentSome(log[g]) \/ ~ Suppressed(job[s])
      <4>1. \A i \in DOMAIN k.rows :
              \/ i \in DOMAIN log[g].rows /\ k.rows[i] = log[g].rows[i]
              \/ k.rows[i] = status
        BY <2>3, <3>2, RowsGrow
      <4> QED
        BY <2>2, <3>2, <4>1 DEF SentSome
    <3> QED
      BY <2>1, <3>1, <3>2 DEF RowOf
  <2> QED
    BY <2>1, <2>4
<1>3. g \in Groups /\ Matches(job[s], log[g])
  BY <1>1, AtSend
<1>4. g = Len(log) /\ \A r \in Senders : r # s => pc[r] = "idle"
  BY <1>1 DEF DedupeInv
<1>5. /\ k.at = log[g].at /\ k.incident = log[g].incident /\ k.dry = log[g].dry
      /\ k.force = log[g].force /\ k.policed = log[g].policed
  BY <1>2 DEF After
<1>6. /\ Groups' = Groups /\ Len(log') = Len(log) /\ log'[g] = k
      /\ \A f \in Groups : f # g => log'[f] = log[f]
  <2>1. k \in Logs /\ log' = [log EXCEPT ![g] = k] /\ LogInv
    BY <1>2 DEF After, IInv
  <2> QED
    BY <1>3, <2>1, LogChanges DEF Groups
<1>7. Groups = 1..g /\ g \in Nat
  BY <1>4, LenProperties DEF IInv, LogInv, Groups
<1>8. \A h \in Groups : Obeys(h)' = Obeys(h)
  BY <1>5, <1>6 DEF Obeys
<1>9. \A h \in Groups : NoneLately(h) => NoneLately(h)'
  <2> SUFFICES ASSUME NEW h \in Groups, NoneLately(h), DedupeWindow # 0, NEW f \in 1..h - 1,
                      log'[f].incident = log'[h].incident, SentSome(log'[f])
               PROVE  log'[h].at - log'[f].at > Sure(DedupeWindow)
    BY DEF NoneLately, SentSome, Sure
  <2>1. f \in Groups /\ f # g /\ log'[f] = log[f]
    BY <1>6, <1>7
  <2>2. log'[h].at = log[h].at /\ log'[h].incident = log[h].incident
    BY <1>5, <1>6
  <2> QED
    BY <2>1, <2>2 DEF NoneLately
<1>10. Obeys(g) /\ SentSome(k) => SentSome(log[g]) \/ ~ job[s].hit
  <2>1. job[s].force = log[g].force /\ job[s].policed = log[g].policed
    BY <1>3 DEF Matches
  <2> QED
    BY <1>2, <2>1 DEF Obeys, Suppressed
<1>11. Obeys(g) /\ ~ job[s].hit => NoneLately(g)
  BY <1>1, <1>4 DEF DedupeInv
<1>12. Obeys(g) /\ job[s].hit => ~ SentSome(k)
  <2>1. Obeys(g) /\ job[s].hit => ~ SentSome(log[g])
    BY <1>1, <1>4 DEF DedupeInv
  <2> QED
    BY <1>10, <2>1
<1>13. \A h \in Groups : Obeys(h) /\ SentSome(log'[h]) => NoneLately(h)'
  <2>1. \A h \in Groups : Obeys(h) /\ SentSome(log[h]) => NoneLately(h)
    BY <1>1 DEF DedupeInv
  <2>2. Obeys(g) /\ SentSome(k) => NoneLately(g)
    BY <1>3, <1>10, <1>11, <2>1
  <2> QED
    BY <1>3, <1>6, <1>9, <2>1, <2>2
<1>14. \A f \in Groups : f # g /\ SentSome(log'[f]) => KeptIn(history, f)
  BY <1>1, <1>4, <1>6 DEF DedupeInv
<1>15. history # None
  BY <1>1 DEF DedupeInv
<1>16. /\ Obeys(Len(log))' /\ ~ job'[s].hit => NoneLately(Len(log))'
       /\ Obeys(Len(log))' /\ job'[s].hit => ~ SentSome(log'[Len(log')])
  <2>1. Obeys(Len(log))' = Obeys(g)
    BY <1>3, <1>4, <1>5, <1>6 DEF Obeys
  <2>2. NoneLately(g) => NoneLately(Len(log))'
    BY <1>3, <1>4, <1>6, <1>9 DEF NoneLately
  <2> QED
    BY <1>1, <1>4, <1>6, <1>11, <1>12, <2>1, <2>2
<1>17. \A h \in Groups' : Obeys(h)' /\ SentSome(log'[h]) => NoneLately(h)'
  BY <1>6, <1>8, <1>13
<1>18. \A r \in Senders : pc'[r] # "idle" => r = s
  BY <1>1, <1>4
<1>19. \A f \in Groups' : SentSome(log'[f]) => KeptIn(history', f) \/ f = job'[s].group
  BY <1>1, <1>6, <1>14
<1> QED
  BY <1>1, <1>4, <1>6, <1>15, <1>16, <1>17, <1>18, <1>19 DEF DedupeInv

(* What the later steps of a process leave alone. *)
LEMMA SameLog ==
  ASSUME UNCHANGED log
  PROVE  /\ Groups' = Groups /\ \A h : Obeys(h)' = Obeys(h)
         /\ \A h : NoneLately(h)' = NoneLately(h)
BY DEF Groups, Obeys, NoneLately, SentSome, Sure

LEMMA DedupeAudit ==
  ASSUME IInv, DedupeInv, NEW s \in Senders, Audit(s)
  PROVE  DedupeInv'
<1> SUFFICES ASSUME clean' PROVE DedupeInv'
  BY DEF DedupeInv
<1>1. /\ clean /\ pc[s] = "audit" /\ pc' = [pc EXCEPT ![s] = "write"]
      /\ existing' = [existing EXCEPT ![s] = Attempts(history)]
      /\ UNCHANGED <<history, job, log>>
  BY DEF Audit
<1>2. pc'[s] = "write" /\ \A r \in Senders : r # s => pc'[r] = "idle"
  BY <1>1 DEF IInv, LogInv, DedupeInv
<1>3. history # None
  BY <1>1 DEF DedupeInv
<1>4. existing'[s] = history
  BY <1>1, <1>3 DEF IInv, HistoryInv, Attempts
<1>5. /\ job[s].group = Len(log)
      /\ Obeys(Len(log)) /\ ~ job[s].hit => NoneLately(Len(log))
      /\ Obeys(Len(log)) /\ job[s].hit => ~ SentSome(log[Len(log)])
  BY <1>1 DEF DedupeInv
<1>6. \A g \in Groups : SentSome(log[g]) => KeptIn(history, g) \/ job[s].group = g
  BY <1>1 DEF DedupeInv
<1>7. \A h \in Groups : Obeys(h) /\ SentSome(log[h]) => NoneLately(h)
  BY <1>1 DEF DedupeInv
<1>8. /\ Groups' = Groups /\ \A h : Obeys(h)' = Obeys(h)
      /\ \A h : NoneLately(h)' = NoneLately(h)
  BY <1>1, SameLog
<1>9. /\ Obeys(Len(log))' = Obeys(Len(log)) /\ NoneLately(Len(log))' = NoneLately(Len(log))
  BY <1>1 DEF Obeys, NoneLately, SentSome, Sure
<1> QED
  BY <1>1, <1>2, <1>3, <1>4, <1>5, <1>6, <1>7, <1>8, <1>9 DEF DedupeInv

(* A process that is gone has left what it sent in the history, or has sent  *)
(* nothing.                                                                  *)
LEMMA DedupeGone ==
  ASSUME IInv, DedupeInv, NEW s \in Senders, pc[s] # "idle", Gone(s), UNCHANGED log,
         clean' => /\ clean /\ history' # None
                   /\ \A g \in Groups : KeptIn(history, g) => KeptIn(history', g)
                   /\ SentSome(log[job[s].group]) => KeptIn(history', job[s].group)
  PROVE  DedupeInv'
<1> SUFFICES ASSUME clean' PROVE DedupeInv'
  BY DEF DedupeInv
<1>1. \A r \in Senders : pc'[r] = "idle"
  BY DEF Gone, IInv, LogInv, DedupeInv
<1>2. \A g \in Groups : SentSome(log[g]) => KeptIn(history, g) \/ job[s].group = g
  BY DEF DedupeInv
<1>3. \A h \in Groups : Obeys(h) /\ SentSome(log[h]) => NoneLately(h)
  BY DEF DedupeInv
<1>4. /\ Groups' = Groups /\ \A h : Obeys(h)' = Obeys(h)
      /\ \A h : NoneLately(h)' = NoneLately(h)
  BY SameLog
<1> QED
  BY <1>1, <1>2, <1>3, <1>4 DEF DedupeInv

LEMMA DedupeWrite ==
  ASSUME IInv, DedupeInv, NEW s \in Senders, Write(s), IInv'
  PROVE  DedupeInv'
<1>1. /\ pc[s] = "write" /\ Gone(s) /\ UNCHANGED <<log, clean>>
      /\ history' = Append(existing[s], Record(job[s]))
  BY DEF Write, Written
<1>2. ASSUME clean'
      PROVE  /\ clean /\ history' # None
             /\ \A g \in Groups : KeptIn(history, g) => KeptIn(history', g)
             /\ KeptIn(history', job[s].group)
  <2> DEFINE h == existing[s]
             a == Record(job[s])
             i == Append(h, a)
  <2>1. clean /\ h = history
    BY <1>1, <1>2 DEF DedupeInv
  <2>2. h \in Seq(Attempt) /\ a.group = job[s].group
    BY DEF IInv, HistoryInv, Records, Record
  <2>3. a \in Attempt
    BY <1>1, RecordTyped
  <2> HIDE DEF a
  <2>4. /\ i \in Seq(Attempt) /\ Len(i) = Len(h) + 1 /\ i[Len(h) + 1] = a
        /\ \A k \in 1..Len(h) : i[k] = h[k]
        /\ Len(h) \in Nat /\ DOMAIN h = 1..Len(h)
    BY <2>2, <2>3, AppendProperties, LenProperties
  <2>5. i = history'
    BY <1>1 DEF a
  <2> HIDE DEF i, h
  <2>6. DOMAIN i = 1..Len(h) + 1
    BY <2>4, LenProperties
  <2>7. i # None
    BY <2>4, NoneAssumption
  <2>8. \A g \in Groups : KeptIn(h, g) => KeptIn(i, g)
    BY <2>4, <2>6 DEF KeptIn
  <2>9. KeptIn(i, job[s].group)
    BY <2>2, <2>4, <2>6 DEF KeptIn
  <2> QED
    BY <2>1, <2>5, <2>7, <2>8, <2>9
<1> QED
  BY <1>1, <1>2, DedupeGone

LEMMA DedupeCrash ==
  ASSUME IInv, DedupeInv, NEW s \in Senders, Crash(s)
  PROVE  DedupeInv'
<1>1. pc[s] # "idle" /\ Gone(s) /\ UNCHANGED log
  BY DEF Crash
<1>2. ASSUME clean'
      PROVE  clean /\ UNCHANGED history /\ ~ SentSome(log[job[s].group])
  <2>1. clean /\ UNCHANGED history /\ Rows(job[s], "sent") = 0
    BY <1>2 DEF Crash
  <2>2. /\ job[s].group \in Groups
        /\ job[s].rows = log[job[s].group].rows
    BY <1>1 DEF IInv, JobInv, Matches
  <2>3. log[job[s].group].rows \in Seq(Statuses)
    BY <2>2, LogTyped DEF IInv
  <2>4. ~ \E i \in DOMAIN job[s].rows : job[s].rows[i] = "sent"
    BY <2>1, <2>2, <2>3, RowsCounted
  <2> QED
    BY <2>1, <2>2, <2>4 DEF SentSome
<1>3. clean => history # None
  BY DEF DedupeInv
<1> QED
  BY <1>1, <1>2, <1>3, DedupeGone

LEMMA DedupeIdle ==
  ASSUME IInv, DedupeInv, Tick \/ UNCHANGED vars
  PROVE  DedupeInv'
<1>1. UNCHANGED <<history, pc, job, existing, log, clean>>
  BY DEF Tick, vars, disk
<1>2. /\ Groups' = Groups /\ \A h : Obeys(h)' = Obeys(h)
      /\ \A h : NoneLately(h)' = NoneLately(h)
  BY <1>1, SameLog
<1>3. Obeys(Len(log))' = Obeys(Len(log)) /\ NoneLately(Len(log))' = NoneLately(Len(log))
  BY <1>1 DEF Obeys, NoneLately, SentSome, Sure
<1> QED
  BY <1>1, <1>2, <1>3 DEF DedupeInv

LEMMA DedupeInductive ==
  IInv /\ DedupeInv /\ [Next]_vars => DedupeInv'
<1> SUFFICES ASSUME IInv, DedupeInv, [Next]_vars PROVE DedupeInv'
  OBVIOUS
<1>1. IInv'
  BY InvInductive
<1>2. ASSUME NEW s \in Senders, SessionFails(s) \/ OperatorSends(s) \/ OperatorReplays(s)
      PROVE  DedupeInv'
  BY <1>1, <1>2, DedupeBegin DEF SessionFails, OperatorSends, OperatorReplays
<1>3. ASSUME NEW s \in Senders, Step(s)
      PROVE  DedupeInv'
  BY <1>1, <1>3, DedupeTarget, DedupeAudit, DedupeWrite DEF Step
<1>4. ASSUME NEW s \in Senders, Crash(s)
      PROVE  DedupeInv'
  BY <1>4, DedupeCrash
<1> QED
  BY <1>2, <1>3, <1>4, DedupeIdle DEF Next

(* Without overlap and without a crash that hides something sent, an attempt *)
(* by the policy of the session sends nothing of an incident that was sent   *)
(* inside the dedupe window, however many targets each has.  With the window *)
(* at 0 the code looks for no earlier attempt, and nothing is promised.      *)
THEOREM DedupeHolding ==
  ASSUME DedupeWindow # 0
  PROVE  Spec => []DedupeHolds
<1>1. IInv /\ DedupeInv => DedupeHolds
  <2> SUFFICES ASSUME IInv, DedupeInv, clean, NEW g \in Groups, NEW h \in Groups,
                      g < h, log[g].incident = log[h].incident,
                      Sends(g, "sent"), Sends(h, "sent"), Obeys(h)
               PROVE  log[h].at - log[g].at > Sure(DedupeWindow)
    BY DEF DedupeHolds
  <2>1. SentSome(log[g]) /\ SentSome(log[h])
    BY SendsIs DEF IInv
  <2>2. NoneLately(h)
    BY <2>1 DEF DedupeInv
  <2>3. g \in 1..h - 1
    BY LenProperties DEF IInv, LogInv, Groups
  <2> QED
    BY <2>1, <2>2, <2>3 DEF NoneLately
<1>2. Init => IInv /\ DedupeInv
  BY InitInv, DedupeInit
<1>3. IInv /\ DedupeInv /\ [Next]_vars => IInv' /\ DedupeInv'
  BY InvInductive, DedupeInductive
<1> QED
  BY <1>1, <1>2, <1>3, PTL DEF Spec

-----------------------------------------------------------------------------
(* Sums of functions over finite sets *)

(* A set of numbers has a least one. *)
LEMMA LeastNumber ==
  ASSUME NEW T \in SUBSET Nat, T # {}
  PROVE  \E m \in T : \A k \in T : m <= k
<1> DEFINE Less == {ss \in Nat \X Nat : ss[1] < ss[2]}
<1>1. IsWellFoundedOn(Less, Nat)
  BY NatLessThanWellFounded DEF OpToRel
<1>2. PICK m \in T : \A y \in T : ~ (<<y, m>> \in Less)
  BY <1>1, WFMin
<1>3. \A y \in T : ~ (y < m)
  BY <1>2
<1> QED
  BY <1>3

(* Numbers over a finite set. *)
Counts(f, S) == IsFiniteSet(S) /\ f \in [S -> Nat]

(* m leads whatever f counts in s to as much, or more, that g counts in t. *)
Found(m, f, s, g, t) == \A x \in s : f[x] # 0 => m[x] \in t /\ f[x] <= g[m[x]]

(* m keeps apart what f counts. *)
Apart(m, f, S) == \A x, y \in S : f[x] # 0 /\ f[y] # 0 /\ m[x] = m[y] => x = y

(* h adds up f over each set of `sets`. *)
Sums(h, sets, f) ==
  h = [s \in sets |->
         IF s = {} THEN 0
         ELSE LET x == CHOOSE x \in s : TRUE IN f[x] + h[s \ {x}]]

(* The sum of f over its domain. *)
Total(f) == (CHOOSE h : Sums(h, SUBSET DOMAIN f, f))[DOMAIN f]

LEMMA SumExists ==
  ASSUME NEW S, IsFiniteSet(S), NEW f
  PROVE  \E h : Sums(h, SUBSET S, f)
<1> DEFINE upTo(k) == {s \in SUBSET S : Cardinality(s) <= k}
           good(k) == \E h : Sums(h, upTo(k), f)
           bad == {k \in Nat : ~ good(k)}
           n == Cardinality(S)
<1>1. \A s \in SUBSET S : IsFiniteSet(s) /\ Cardinality(s) \in Nat /\ Cardinality(s) <= n
  BY FS_Subset, FS_CardinalityType
<1>2. ASSUME NEW s \in SUBSET S, s # {}
      PROVE  LET x == CHOOSE x \in s : TRUE
             IN  s \ {x} \in SUBSET S /\ Cardinality(s \ {x}) = Cardinality(s) - 1
  BY <1>1, <1>2, FS_RemoveElement
<1>3. good(0)
  <2> DEFINE h == [s \in upTo(0) |-> 0]
  <2>1. \A s \in upTo(0) : s = {}
    BY <1>1, FS_EmptySet
  <2>2. Sums(h, upTo(0), f)
    BY <2>1 DEF Sums
  <2> QED
    BY <2>2
<1>4. ASSUME NEW k \in Nat, good(k)
      PROVE  good(k + 1)
  <2>1. PICK g : Sums(g, upTo(k), f)
    BY <1>4
  <2> DEFINE h == [s \in upTo(k + 1) |->
                     IF s = {} THEN 0
                     ELSE LET x == CHOOSE x \in s : TRUE IN f[x] + g[s \ {x}]]
             next(s) == IF s = {} THEN 0
                        ELSE LET x == CHOOSE x \in s : TRUE IN f[x] + h[s \ {x}]
  <2>2. ASSUME NEW s \in upTo(k + 1), s # {}
        PROVE  s \ {CHOOSE x \in s : TRUE} \in upTo(k)
    BY <1>1, <1>2, <2>2
  <2>3. \A s \in upTo(k) : s \in upTo(k + 1)
    BY <1>1
  <2>4. \A s \in upTo(k) : h[s] = g[s]
    BY <2>1, <2>3 DEF Sums
  <2>5. ASSUME NEW s \in upTo(k + 1)
        PROVE  h[s] = next(s)
    <3>1. CASE s = {}
      BY <3>1
    <3>2. CASE s # {}
      <4> DEFINE x == CHOOSE x \in s : TRUE
      <4>1. h[s \ {x}] = g[s \ {x}]
        BY <2>2, <2>4, <3>2
      <4>2. h[s] = f[x] + g[s \ {x}]
        BY <3>2
      <4> HIDE DEF h
      <4> QED
        BY <3>2, <4>1, <4>2
    <3> QED
      BY <3>1, <3>2
  <2>6. h = [s \in upTo(k + 1) |-> h[s]]
    OBVIOUS
  <2> HIDE DEF h, upTo
  <2>7. h = [s \in upTo(k + 1) |-> next(s)]
    BY <2>5, <2>6
  <2> QED
    BY <2>7 DEF Sums
<1>5. bad = {}
  <2>1. SUFFICES ASSUME bad # {}
                 PROVE  FALSE
    OBVIOUS
  <2>2. PICK m \in bad : \A k \in bad : m <= k
    BY <2>1, LeastNumber
  <2> HIDE DEF good
  <2>3. m # 0 /\ m - 1 \in Nat
    BY <1>3, <2>2
  <2>4. good(m - 1)
    BY <2>2, <2>3
  <2> QED
    BY <1>4, <2>2, <2>3, <2>4
<1>6. good(n) /\ upTo(n) = SUBSET S
  <2> HIDE DEF good
  <2> QED
    BY <1>1, <1>5, FS_CardinalityType
<1> QED
  BY <1>6

Adds(h, S, f) == Sums(h, SUBSET S, f)

(* A sum of numbers is a number, and any element may be taken out of it. *)
LEMMA SumSplits ==
  ASSUME NEW S, NEW f, Counts(f, S), NEW h, Adds(h, S, f)
  PROVE  \A s \in SUBSET S : h[s] \in Nat /\ \A x \in s : h[s] = f[x] + h[s \ {x}]
<1> DEFINE fine(s) == h[s] \in Nat /\ \A x \in s : h[s] = f[x] + h[s \ {x}]
           bad == {Cardinality(s) : s \in {s \in SUBSET S : ~ fine(s)}}
<1>1. \A s \in SUBSET S : IsFiniteSet(s) /\ Cardinality(s) \in Nat
  BY FS_Subset, FS_CardinalityType DEF Counts
<1>2. SUFFICES ASSUME NEW z \in SUBSET S, ~ fine(z)
               PROVE  FALSE
  OBVIOUS
<1>3. bad \in SUBSET Nat /\ bad # {}
  BY <1>1, <1>2
<1>4. PICK m \in bad : \A k \in bad : m <= k
  BY <1>3, LeastNumber
<1> HIDE DEF fine
<1>5. PICK s \in SUBSET S : ~ fine(s) /\ Cardinality(s) = m
  BY <1>4
<1>6. \A t \in SUBSET s : t # s => fine(t)
  <2> SUFFICES ASSUME NEW t \in SUBSET s, t # s
               PROVE  fine(t)
    OBVIOUS
  <2>1. Cardinality(t) < Cardinality(s)
    BY <1>1, FS_Subset
  <2> QED
    BY <1>1, <1>4, <1>5, <2>1
<1>7. s # {}
  BY <1>5 DEF fine, Adds, Sums
<1> DEFINE c == CHOOSE x \in s : TRUE
<1>8. c \in s /\ h[s] = f[c] + h[s \ {c}]
  BY <1>7 DEF Adds, Sums
<1> HIDE DEF c
<1>9. h[s \ {c}] \in Nat
  BY <1>6, <1>8 DEF fine
<1>10. ASSUME NEW x \in s
       PROVE  h[s] = f[x] + h[s \ {x}]
  <2>1. CASE x = c
    BY <1>8, <2>1
  <2>2. CASE x # c
    <3> DEFINE rest == s \ {c, x}
    <3>1. rest = (s \ {c}) \ {x} /\ rest = (s \ {x}) \ {c}
      OBVIOUS
    <3>2. h[s \ {c}] = f[x] + h[rest]
      BY <1>6, <1>8, <2>2, <3>1 DEF fine
    <3>3. h[s \ {x}] = f[c] + h[rest]
      BY SMTT(30), <1>6, <1>8, <2>2, <3>1 DEF fine
    <3>4. h[rest] \in Nat
      BY <1>6, <1>8 DEF fine
    <3>5. f[x] \in Nat /\ f[c] \in Nat
      BY <1>8 DEF Counts
    <3> HIDE DEF rest
    <3> QED
      BY <1>8, <3>2, <3>3, <3>4, <3>5
  <2> QED
    BY <2>1, <2>2
<1>11. h[s] \in Nat
  BY <1>8, <1>9 DEF Counts
<1> QED
  BY <1>5, <1>10, <1>11 DEF fine

(* What counts over S is found, one by one, over T. *)
LEMMA SumCompared ==
  ASSUME NEW S, NEW f, Counts(f, S), NEW h, Adds(h, S, f),
         NEW T, NEW g, Counts(g, T), NEW k, Adds(k, T, g),
         NEW m, Apart(m, f, S)
  PROVE  \A s \in SUBSET S : \A t \in SUBSET T : Found(m, f, s, g, t) => h[s] <= k[t]
<1> DEFINE fine(s) == \A t \in SUBSET T : Found(m, f, s, g, t) => h[s] <= k[t]
           bad == {Cardinality(s) : s \in {s \in SUBSET S : ~ fine(s)}}
<1>1. \A s \in SUBSET S : IsFiniteSet(s) /\ Cardinality(s) \in Nat
  BY FS_Subset, FS_CardinalityType DEF Counts
<1>2. SUFFICES ASSUME NEW z \in SUBSET S, ~ fine(z)
               PROVE  FALSE
  OBVIOUS
<1>3. bad \in SUBSET Nat /\ bad # {}
  BY <1>1, <1>2
<1>4. PICK n \in bad : \A l \in bad : n <= l
  BY <1>3, LeastNumber
<1> HIDE DEF fine
<1>5. PICK s \in SUBSET S : ~ fine(s) /\ Cardinality(s) = n
  BY <1>4
<1>6. PICK t \in SUBSET T : Found(m, f, s, g, t) /\ ~ (h[s] <= k[t])
  BY <1>5 DEF fine
<1>7. /\ \A r \in SUBSET S : h[r] \in Nat /\ \A x \in r : h[r] = f[x] + h[r \ {x}]
      /\ \A r \in SUBSET T : k[r] \in Nat /\ \A x \in r : k[r] = g[x] + k[r \ {x}]
  BY SumSplits
<1>8. s # {}
  <2> SUFFICES ASSUME s = {} PROVE FALSE
    OBVIOUS
  <2>1. h[s] = 0
    BY DEF Adds, Sums
  <2> QED
    BY <1>6, <1>7, <2>1
<1>9. PICK x : x \in s
  BY <1>8
<1> DEFINE rest == s \ {x}
<1>10. rest \in SUBSET S /\ fine(rest)
  <2>1. Cardinality(rest) = Cardinality(s) - 1
    BY <1>1, <1>9, FS_RemoveElement
  <2> QED
    BY <1>1, <1>4, <1>5, <2>1
<1>11. h[s] = f[x] + h[rest] /\ h[rest] \in Nat /\ f[x] \in Nat /\ k[t] \in Nat
  BY <1>7, <1>9, <1>10 DEF Counts
<1>12. CASE f[x] = 0
  <2>1. Found(m, f, rest, g, t)
    BY <1>6 DEF Found
  <2>2. h[rest] <= k[t]
    BY <1>10, <2>1 DEF fine
  <2> QED
    BY <1>6, <1>11, <1>12, <2>2
<1>13. CASE f[x] # 0
  <2>1. m[x] \in t /\ f[x] <= g[m[x]]
    BY <1>6, <1>9, <1>13 DEF Found
  <2>2. Found(m, f, rest, g, t \ {m[x]})
    BY <1>6, <1>9, <1>13 DEF Found, Apart
  <2>3. t \ {m[x]} \in SUBSET T
    OBVIOUS
  <2>4. h[rest] <= k[t \ {m[x]}]
    BY <1>10, <2>2, <2>3 DEF fine
  <2>5. k[t] = g[m[x]] + k[t \ {m[x]}] /\ k[t \ {m[x]}] \in Nat /\ g[m[x]] \in Nat
    BY <1>7, <2>1, <2>3 DEF Counts
  <2> HIDE DEF rest
  <2> QED
    BY <1>6, <1>11, <2>1, <2>4, <2>5
<1> QED
  BY <1>12, <1>13

LEMMA TotalIs ==
  ASSUME NEW S, NEW f, Counts(f, S)
  PROVE  \E h : Adds(h, S, f) /\ Total(f) = h[S]
<1> DEFINE h == CHOOSE h : Adds(h, S, f)
<1>1. Adds(h, S, f)
  BY SumExists DEF Counts, Adds
<1>2. DOMAIN f = S
  BY DEF Counts
<1>3. Total(f) = h[S]
  BY <1>2 DEF Total, Adds
<1> HIDE DEF h
<1> QED
  BY <1>1, <1>3

LEMMA TotalType ==
  ASSUME NEW S, NEW f, Counts(f, S)
  PROVE  Total(f) \in Nat
<1>1. PICK h : Adds(h, S, f) /\ Total(f) = h[S]
  BY TotalIs
<1> QED
  BY <1>1, SumSplits

LEMMA TotalBelow ==
  ASSUME NEW S, NEW f, Counts(f, S), NEW T, NEW g, Counts(g, T),
         NEW m, Apart(m, f, S), Found(m, f, S, g, T)
  PROVE  Total(f) <= Total(g)
<1>1. PICK h : Adds(h, S, f) /\ Total(f) = h[S]
  BY TotalIs
<1>2. PICK k : Adds(k, T, g) /\ Total(g) = k[T]
  BY TotalIs
<1>3. S \in SUBSET S /\ T \in SUBSET T
  OBVIOUS
<1> QED
  BY <1>1, <1>2, <1>3, SumCompared

LEMMA TotalSplits ==
  ASSUME NEW S, NEW f, Counts(f, S), NEW x \in S
  PROVE  LET g == [y \in S \ {x} |-> f[y]]
         IN  Counts(g, S \ {x}) /\ Total(f) = f[x] + Total(g)
<1> DEFINE T == S \ {x}
           g == [y \in T |-> f[y]]
           m == [y \in S |-> y]
<1>1. Counts(g, T)
  BY FS_Subset DEF Counts
<1>2. PICK h : Adds(h, S, f) /\ Total(f) = h[S]
  BY TotalIs
<1> HIDE DEF g
<1>3. PICK k : Adds(k, T, g) /\ Total(g) = k[T]
  BY <1>1, TotalIs
<1>4. T \in SUBSET S /\ S \in SUBSET S /\ T \in SUBSET T
  OBVIOUS
<1>5. h[S] = f[x] + h[T] /\ h[T] \in Nat
  BY SMTT(30), <1>2, <1>4, SumSplits
<1>6. k[T] \in Nat
  BY <1>1, <1>3, <1>4, SumSplits
<1>7. /\ Apart(m, f, S) /\ Apart(m, g, T)
      /\ Found(m, f, T, g, T) /\ Found(m, g, T, f, T)
  BY DEF Apart, Found, g, Counts
<1> HIDE DEF m, T
<1>8. h[T] <= k[T]
  BY <1>1, <1>2, <1>3, <1>4, <1>7, SumCompared
<1>9. k[T] <= h[T]
  BY <1>1, <1>2, <1>3, <1>4, <1>7, SumCompared
<1>10. Total(f) = f[x] + Total(g)
  BY <1>2, <1>3, <1>5, <1>6, <1>8, <1>9
<1> QED
  BY <1>1, <1>10 DEF g, T
-----------------------------------------------------------------------------
(* The rate window *)

(* The rows that say sent to a target of T. *)
SentTo(l, T) == Cardinality({i \in DOMAIN l.rows : l.rows[i] = "sent" /\ l.targets[i] \in T})

(* What the attempts before h inside its window sent to T. *)
Earlier(h, T) == [g \in LiveBefore(h) \ {h} |-> SentTo(log[g], T)]

Within(h, T, max) == SentTo(log[h], T) > 0 => Total(Earlier(h, T)) + SentTo(log[h], T) <= max

(* A process knows of at least what was sent before it. *)
Known(h, T, n) == n \in Nat /\ Total(Earlier(h, T)) <= n

RateInv ==
  clean =>
    /\ \A s \in Senders : pc[s] # "idle" /\ Obeys(Len(log)) =>
         /\ Known(Len(log), Targets, job[s].global)
         /\ \A t \in Targets : Known(Len(log), {t}, job[s].target[t])
    /\ \A h \in Groups : Obeys(h) /\ ~ log[h].dry =>
         Within(h, Targets, GlobalMax) /\ \A t \in Targets : Within(h, {t}, TargetMax)

LEMMA SentToType ==
  ASSUME NEW l, l.rows \in Seq(Statuses), NEW T
  PROVE  /\ SentTo(l, T) \in Nat
         /\ SentTo(l, T) > 0 => \E i \in DOMAIN l.rows : l.rows[i] = "sent"
<1> DEFINE D == {i \in DOMAIN l.rows : l.rows[i] = "sent" /\ l.targets[i] \in T}
<1>1. IsFiniteSet(D)
  <2>1. Len(l.rows) \in Nat /\ DOMAIN l.rows = 1..Len(l.rows)
    BY LenProperties
  <2>2. IsFiniteSet(DOMAIN l.rows) /\ D \subseteq DOMAIN l.rows
    BY <2>1, FS_Interval
  <2> QED
    BY <2>2, FS_Subset
<1>2. SentTo(l, T) = Cardinality(D)
  BY DEF SentTo
<1>3. Cardinality(D) \in Nat /\ (Cardinality(D) > 0 => D # {})
  <2> HIDE DEF D
  <2> QED
    BY <1>1, FS_CardinalityType, FS_EmptySet
<1> QED
  BY <1>2, <1>3

Grown(l, k, status) ==
  /\ l.rows \in Seq(Statuses) /\ status \in Statuses
  /\ k.rows = Append(l.rows, status) /\ k.targets = l.targets

LEMMA SentToGrows ==
  ASSUME NEW l, NEW k, NEW status, Grown(l, k, status)
  PROVE  \A T : SentTo(k, T) = IF status = "sent" /\ l.targets[Len(l.rows) + 1] \in T
                               THEN SentTo(l, T) + 1 ELSE SentTo(l, T)
<1> TAKE T
<1> DEFINE D == {i \in DOMAIN l.rows : l.rows[i] = "sent" /\ l.targets[i] \in T}
           E == {i \in DOMAIN k.rows : k.rows[i] = "sent" /\ k.targets[i] \in T}
           n == Len(l.rows) + 1
           more == status = "sent" /\ l.targets[n] \in T
<1>1. /\ Len(l.rows) \in Nat /\ DOMAIN l.rows = 1..Len(l.rows)
      /\ DOMAIN k.rows = 1..n /\ k.rows[n] = status
      /\ \A i \in 1..Len(l.rows) : k.rows[i] = l.rows[i]
  BY RowsGrow DEF Grown
<1>2. E = IF more THEN D \cup {n} ELSE D
  BY <1>1 DEF Grown
<1>3. n \notin D /\ IsFiniteSet(D)
  <2>1. IsFiniteSet(DOMAIN l.rows) /\ D \subseteq DOMAIN l.rows
    BY <1>1, FS_Interval
  <2>2. n \notin D
    BY <1>1
  <2> QED
    BY <2>1, <2>2, FS_Subset
<1>4. SentTo(l, T) = Cardinality(D) /\ SentTo(k, T) = Cardinality(E)
  BY DEF SentTo
<1>5. Cardinality(D \cup {n}) = Cardinality(D) + 1
  <2> HIDE DEF D
  <2> QED
    BY <1>3, FS_AddElement
<1> QED
  BY <1>2, <1>4, <1>5

LEMMA RowsAreSentTo ==
  ASSUME NEW l, l.rows \in Seq(Statuses), l.targets \in Seq(Targets),
         Len(l.rows) <= Len(l.targets)
  PROVE  /\ Rows(l, "sent") = SentTo(l, Targets)
         /\ \A t : RowsTo(l, "sent", t) = SentTo(l, {t})
<1>1. \A i \in DOMAIN l.rows : l.targets[i] \in Targets
  BY LenProperties
<1>2. {i \in DOMAIN l.rows : l.rows[i] = "sent"}
        = {i \in DOMAIN l.rows : l.rows[i] = "sent" /\ l.targets[i] \in Targets}
  BY <1>1
<1>3. \A t : {i \in DOMAIN l.rows : l.rows[i] = "sent" /\ l.targets[i] = t}
        = {i \in DOMAIN l.rows : l.rows[i] = "sent" /\ l.targets[i] \in {t}}
  OBVIOUS
<1>4. Rows(l, "sent") = SentTo(l, Targets)
  BY <1>2 DEF Rows, SentTo
<1>5. \A t : RowsTo(l, "sent", t) = SentTo(l, {t})
  BY <1>3 DEF RowsTo, SentTo
<1> QED
  BY <1>4, <1>5

(* The sums of the model are totals. *)
LEMMA LogSum ==
  ASSUME NEW S
  PROVE  MapThenSumSet(LAMBDA g : Rows(log[g], "sent"), S)
           = Total([g \in S |-> Rows(log[g], "sent")])
<1> DEFINE f == [g \in S |-> Rows(log[g], "sent")]
           Adding(h) == h = [s \in SUBSET S |->
                               IF s = {} THEN 0
                               ELSE LET x == CHOOSE x \in s : TRUE
                                    IN  Rows(log[x], "sent") + h[s \ {x}]]
<1>1. MapThenSumSet(LAMBDA g : Rows(log[g], "sent"), S) = (CHOOSE h : Adding(h))[S]
  BY DEF MapThenSumSet, MapThenFoldSet
<1>2. ASSUME NEW h
      PROVE  Adding(h) <=> Sums(h, SUBSET S, f)
  BY DEF Sums
<1>3. (CHOOSE h : Adding(h)) = (CHOOSE h : Sums(h, SUBSET S, f))
  <2> HIDE DEF Adding, f
  <2> QED
    BY <1>2
<1> QED
  BY <1>1, <1>3 DEF Total

LEMMA LogSumTo ==
  ASSUME NEW S, NEW t
  PROVE  MapThenSumSet(LAMBDA g : RowsTo(log[g], "sent", t), S)
           = Total([g \in S |-> RowsTo(log[g], "sent", t)])
<1> DEFINE f == [g \in S |-> RowsTo(log[g], "sent", t)]
           Adding(h) == h = [s \in SUBSET S |->
                               IF s = {} THEN 0
                               ELSE LET x == CHOOSE x \in s : TRUE
                                    IN  RowsTo(log[x], "sent", t) + h[s \ {x}]]
<1>1. MapThenSumSet(LAMBDA g : RowsTo(log[g], "sent", t), S) = (CHOOSE h : Adding(h))[S]
  BY DEF MapThenSumSet, MapThenFoldSet
<1>2. ASSUME NEW h
      PROVE  Adding(h) <=> Sums(h, SUBSET S, f)
  BY DEF Sums
<1>3. (CHOOSE h : Adding(h)) = (CHOOSE h : Sums(h, SUBSET S, f))
  <2> HIDE DEF Adding, f
  <2> QED
    BY <1>2
<1> QED
  BY <1>1, <1>3 DEF Total

LEMMA RecentSum ==
  SentLately = Total([a \in Recent(RateWindow) |-> Rows(a, "sent")])
<1> DEFINE S == Recent(RateWindow)
           f == [a \in S |-> Rows(a, "sent")]
           Adding(h) == h = [s \in SUBSET S |->
                               IF s = {} THEN 0
                               ELSE LET x == CHOOSE x \in s : TRUE
                                    IN  Rows(x, "sent") + h[s \ {x}]]
<1>1. SentLately = (CHOOSE h : Adding(h))[S]
  BY DEF SentLately, MapThenSumSet, MapThenFoldSet
<1> HIDE DEF S
<1>2. ASSUME NEW h
      PROVE  Adding(h) <=> Sums(h, SUBSET S, f)
  BY DEF Sums
<1>3. (CHOOSE h : Adding(h)) = (CHOOSE h : Sums(h, SUBSET S, f))
  <2> HIDE DEF Adding, f
  <2> QED
    BY <1>2
<1> QED
  BY <1>1, <1>3 DEF Total, S

LEMMA RecentSumTo ==
  ASSUME NEW t
  PROVE  SentLatelyTo(t) = Total([a \in Recent(RateWindow) |-> RowsTo(a, "sent", t)])
<1> DEFINE S == Recent(RateWindow)
           f == [a \in S |-> RowsTo(a, "sent", t)]
           Adding(h) == h = [s \in SUBSET S |->
                               IF s = {} THEN 0
                               ELSE LET x == CHOOSE x \in s : TRUE
                                    IN  RowsTo(x, "sent", t) + h[s \ {x}]]
<1>1. SentLatelyTo(t) = (CHOOSE h : Adding(h))[S]
  BY DEF SentLatelyTo, MapThenSumSet, MapThenFoldSet
<1> HIDE DEF S
<1>2. ASSUME NEW h
      PROVE  Adding(h) <=> Sums(h, SUBSET S, f)
  BY DEF Sums
<1>3. (CHOOSE h : Adding(h)) = (CHOOSE h : Sums(h, SUBSET S, f))
  <2> HIDE DEF Adding, f
  <2> QED
    BY <1>2
<1> QED
  BY <1>1, <1>3 DEF Total, S

(* Sums over attempts of the log count numbers. *)
LEMMA EarlierCounts ==
  ASSUME LogInv, NEW S \in SUBSET Groups, NEW T
  PROVE  Counts([g \in S |-> SentTo(log[g], T)], S)
<1>1. IsFiniteSet(S)
  <2>1. Groups = 1..Len(log) /\ Len(log) \in Nat
    BY LenProperties DEF LogInv, Groups
  <2>2. IsFiniteSet(Groups)
    BY <2>1, FS_Interval
  <2> QED
    BY <2>2, FS_Subset
<1>2. \A g \in S : SentTo(log[g], T) \in Nat
  BY LogTyped, SentToType
<1> QED
  BY <1>1, <1>2 DEF Counts

LEMMA LiveInLog ==
  ASSUME LogInv, NEW h \in Groups
  PROVE  LiveBefore(h) \in SUBSET Groups
<1>1. Groups = 1..Len(log) /\ Len(log) \in Nat
  BY LenProperties DEF LogInv, Groups
<1> QED
  BY <1>1 DEF LiveBefore

(* Before an attempt begins: what it reads in the history is at least what   *)
(* was sent inside its window.                                               *)
Lately == {g \in Groups : ~ log[g].dry /\ now - log[g].at <= Sure(RateWindow)}

LEMMA LatelyRecent ==
  ASSUME IInv, history # None, RateWindow # 0, NEW g \in Lately, KeptIn(history, g)
  PROVE  \E a \in Recent(RateWindow) : /\ a.group = g /\ a.rows = log[g].rows
                                       /\ a.targets = log[g].targets
<1>1. PICK k \in DOMAIN history : history[k].group = g
  BY DEF KeptIn
<1> DEFINE a == history[k]
<1>2. IsRecord(a) /\ Attempts(history) = history /\ g \in Groups
  BY <1>1 DEF IInv, HistoryInv, Records, Attempts, Lately
<1>3. /\ ~ a.dry /\ a.rows = log[g].rows /\ a.targets = log[g].targets
      /\ a.decided = Stamp(log[g].at)
  BY <1>1, <1>2 DEF IsRecord, Lately
<1>4. log[g].at \in 0..MaxTime /\ now - log[g].at <= Sure(RateWindow)
  BY <1>2, LogTyped DEF IInv, Logs, Lately
<1>5. a.decided >= now - RateWindow
  <2>1. Stamp(log[g].at) \in Int /\ Stamp(log[g].at) > log[g].at - TicksPerSecond
    BY <1>4, StampBounds
  <2>2. log[g].at \in Int /\ now \in Int /\ RateWindow \in Int /\ TicksPerSecond \in Int
    BY <1>4, LimitAssumption DEF IInv, LogInv
  <2> HIDE DEF a
  <2> QED
    BY <1>3, <1>4, <2>1, <2>2 DEF Sure
<1>6. a \in Recent(RateWindow)
  BY <1>1, <1>2, <1>3, <1>5 DEF Recent
<1> QED
  BY <1>1, <1>3, <1>6

LEMMA RecentTyped ==
  ASSUME IInv
  PROVE  /\ IsFiniteSet(Recent(RateWindow))
         /\ \A a \in Recent(RateWindow) :
              /\ a.rows \in Seq(Statuses) /\ a.targets \in Seq(Targets)
              /\ Len(a.rows) <= Len(a.targets)
<1> DEFINE h == Attempts(history)
           S == {i \in DOMAIN h : ~ h[i].dry /\ h[i].decided >= now - RateWindow}
<1>1. Records(h)
  BY EmptySeq DEF IInv, HistoryInv, Attempts, Records
<1>2. Len(h) \in Nat /\ DOMAIN h = 1..Len(h)
  BY <1>1, LenProperties DEF Records
<1>3. IsFiniteSet(S)
  <2>1. IsFiniteSet(DOMAIN h) /\ S \subseteq DOMAIN h
    BY <1>2, FS_Interval
  <2> QED
    BY <2>1, FS_Subset
<1>4. Recent(RateWindow) = IF RateWindow = 0 THEN {} ELSE {h[i] : i \in S}
  BY DEF Recent
<1>5. IsFiniteSet({h[i] : i \in S})
  <2> DEFINE f == [i \in S |-> h[i]]
  <2>1. f \in Surjection(S, {h[i] : i \in S})
    BY DEF Surjection
  <2> HIDE DEF f, S, h
  <2> QED
    BY <1>3, <2>1, FS_Surjection
<1>6. ASSUME NEW i \in S
      PROVE  /\ h[i].rows \in Seq(Statuses) /\ h[i].targets \in Seq(Targets)
             /\ Len(h[i].rows) <= Len(h[i].targets)
  <2>1. IsRecord(h[i])
    BY <1>1 DEF Records
  <2>2. h[i].group \in Groups /\ h[i].rows = log[h[i].group].rows
        /\ h[i].targets = log[h[i].group].targets
    BY <2>1 DEF IsRecord
  <2> QED
    BY <2>2, LogTyped DEF IInv
<1> HIDE DEF S, h
<1> QED
  BY <1>4, <1>5, <1>6, FS_EmptySet

LEMMA LatelyBelow ==
  ASSUME IInv, history # None, RateWindow # 0, NEW T,
         \A g \in Groups : SentSome(log[g]) => KeptIn(history, g)
  PROVE  LET kept == [a \in Recent(RateWindow) |-> SentTo(a, T)]
         IN  /\ Total(kept) \in Nat
             /\ Total([g \in Lately |-> SentTo(log[g], T)]) <= Total(kept)
<1> DEFINE S == Recent(RateWindow)
           f == [g \in Lately |-> SentTo(log[g], T)]
           kept == [a \in S |-> SentTo(a, T)]
           m == [g \in Lately |-> CHOOSE a \in S : /\ a.group = g /\ a.rows = log[g].rows
                                                   /\ a.targets = log[g].targets]
<1>1. Lately \in SUBSET Groups
  BY DEF Lately
<1>2. Counts(f, Lately)
  BY <1>1, EarlierCounts DEF IInv
<1>3. Counts(kept, S)
  <2>1. IsFiniteSet(S) /\ \A a \in S : SentTo(a, T) \in Nat
    BY RecentTyped, SentToType
  <2> QED
    BY <2>1 DEF Counts
<1>4. ASSUME NEW g \in Lately, f[g] # 0
      PROVE  m[g] \in S /\ m[g].group = g /\ f[g] = kept[m[g]]
  <2>1. SentTo(log[g], T) > 0 /\ log[g].rows \in Seq(Statuses)
    BY <1>1, <1>4, LogTyped, SentToType DEF IInv
  <2>2. SentSome(log[g])
    BY <2>1, SentToType DEF SentSome, Lately
  <2>3. \E a \in S : /\ a.group = g /\ a.rows = log[g].rows
                     /\ a.targets = log[g].targets
    BY <1>1, <2>2, LatelyRecent
  <2>4. /\ m[g] \in S /\ m[g].group = g /\ m[g].rows = log[g].rows
        /\ m[g].targets = log[g].targets
    BY <2>3
  <2> HIDE DEF m, S
  <2> QED
    BY <2>4 DEF SentTo
<1> HIDE DEF f, kept, m, S
<1>5. Apart(m, f, Lately)
  BY <1>4 DEF Apart
<1>6. Found(m, f, Lately, kept, S)
  <2>1. \A g \in Lately : f[g] \in Nat
    BY <1>2 DEF Counts
  <2> QED
    BY <1>4, <2>1 DEF Found
<1>7. Total(f) <= Total(kept) /\ Total(kept) \in Nat
  BY <1>2, <1>3, <1>5, <1>6, TotalBelow, TotalType
<1> QED
  BY <1>7 DEF f, kept, S

(* What a process reads as it begins. *)
LEMMA ReadsEnough ==
  ASSUME IInv, history # None, RateWindow # 0,
         \A g \in Groups : SentSome(log[g]) => KeptIn(history, g)
  PROVE  /\ SentLately \in Nat
         /\ Total([g \in Lately |-> SentTo(log[g], Targets)]) <= SentLately
         /\ \A t : /\ SentLatelyTo(t) \in Nat
                   /\ Total([g \in Lately |-> SentTo(log[g], {t})]) <= SentLatelyTo(t)
<1> DEFINE S == Recent(RateWindow)
<1>1. \A a \in S : Rows(a, "sent") = SentTo(a, Targets)
  BY RecentTyped, RowsAreSentTo
<1>2. \A t : \A a \in S : RowsTo(a, "sent", t) = SentTo(a, {t})
  BY RecentTyped, RowsAreSentTo
<1>3. SentLately = Total([a \in S |-> SentTo(a, Targets)])
  <2>1. [a \in S |-> Rows(a, "sent")] = [a \in S |-> SentTo(a, Targets)]
    BY <1>1
  <2> QED
    BY <2>1, RecentSum
<1>4. ASSUME NEW t
      PROVE  SentLatelyTo(t) = Total([a \in S |-> SentTo(a, {t})])
  <2>1. [a \in S |-> RowsTo(a, "sent", t)] = [a \in S |-> SentTo(a, {t})]
    BY <1>2
  <2> QED
    BY <2>1, RecentSumTo
<1>5. /\ SentLately \in Nat
      /\ Total([g \in Lately |-> SentTo(log[g], Targets)]) <= SentLately
  BY <1>3, LatelyBelow
<1>6. ASSUME NEW t
      PROVE  /\ SentLatelyTo(t) \in Nat
             /\ Total([g \in Lately |-> SentTo(log[g], {t})]) <= SentLatelyTo(t)
  BY <1>4, LatelyBelow
<1> QED
  BY <1>5, <1>6

LEMMA RateInit == Init => RateInv
<1> SUFFICES ASSUME Init PROVE RateInv
  OBVIOUS
<1>1. DOMAIN log = {}
  BY EmptySeq DEF Init
<1> QED
  BY <1>1 DEF Init, RateInv, Groups

LEMMA EarlierStays ==
  ASSUME NEW h \in Int, \A g \in 1..h - 1 : log'[g] = log[g],
         log'[h].at = log[h].at, log'[h].dry = log[h].dry
  PROVE  \A T : Earlier(h, T)' = Earlier(h, T)
<1>1. LiveBefore(h)' = LiveBefore(h)
  BY DEF LiveBefore, Sure
<1>2. \A T : Earlier(h, T)' = [g \in LiveBefore(h) \ {h} |-> SentTo(log'[g], T)]
  BY <1>1 DEF Earlier, SentTo
<1>3. \A g \in LiveBefore(h) \ {h} : log'[g] = log[g]
  BY DEF LiveBefore
<1> QED
  BY <1>2, <1>3 DEF Earlier

LEMMA RateBegin ==
  ASSUME IInv, DedupeInv, RateInv, RateWindow # 0, NEW s \in Senders, NEW caller,
         NEW p, NEW force, NEW dry, NEW targets,
         Begin(s, caller, p, force, dry, targets)
  PROVE  RateInv'
<1> SUFFICES ASSUME clean' PROVE RateInv'
  BY DEF RateInv
<1> DEFINE l == [at |-> now, incident |-> p, dry |-> dry, force |-> force,
                 policed |-> caller # "send", targets |-> targets, rows |-> <<>>,
                 copies |-> [i \in DOMAIN targets |-> 0]]
<1> PICK n : n = Len(log) + 1
  OBVIOUS
<1>1. /\ clean /\ \A r \in Senders : pc[r] = "idle"
      /\ pc' = [pc EXCEPT ![s] = "send"] /\ log' = Append(log, l)
  BY DEF Begin
<1>2. /\ job'[s].global = SentLately
      /\ \A t \in Targets : job'[s].target[t] = SentLatelyTo(t)
  BY DEF Begin, IInv, JobInv
<1>3. /\ log \in Seq(Logs) /\ Len(log) \in Nat /\ Groups = 1..Len(log)
  BY LenProperties DEF IInv, LogInv, Groups
<1>4. /\ Len(log') = n /\ Groups' = Groups \cup {n} /\ n \notin Groups
      /\ log'[n] = l /\ \A g \in Groups : log'[g] = log[g]
  <2>1. Len(log') = n /\ log'[n] = l /\ \A g \in 1..Len(log) : log'[g] = log[g]
    BY <1>1, <1>3
  <2>2. Groups' = 1..n
    BY <1>1, <1>3, <2>1 DEF Groups
  <2> QED
    BY <1>3, <2>1, <2>2
<1>5. l.at = now /\ l.rows = <<>>
  OBVIOUS
<1> HIDE DEF l
<1>6. \A r \in Senders : pc'[r] # "idle" => r = s
  BY <1>1 DEF IInv, LogInv
<1>7. history # None /\ \A g \in Groups : SentSome(log[g]) => KeptIn(history, g)
  BY <1>1 DEF DedupeInv
<1>8. ASSUME NEW T
      PROVE  Earlier(n, T)' = [g \in Lately |-> SentTo(log[g], T)]
  <2>1. LiveBefore(n)' \ {n} = Lately
    BY <1>3, <1>4, <1>5 DEF LiveBefore, Lately, Sure
  <2>2. Earlier(n, T)' = [g \in Lately |-> SentTo(log'[g], T)]
    BY <2>1 DEF Earlier, SentTo
  <2>3. \A g \in Lately : log'[g] = log[g]
    BY <1>4 DEF Lately
  <2> QED
    BY <2>2, <2>3
<1>9. /\ Known(n, Targets, job[s].global)'
      /\ \A t \in Targets : Known(n, {t}, job[s].target[t])'
  BY <1>2, <1>7, <1>8, ReadsEnough DEF Known
<1>10. ASSUME NEW h \in Groups, Obeys(h)', ~ log'[h].dry
       PROVE  /\ Within(h, Targets, GlobalMax)'
              /\ \A t \in Targets : Within(h, {t}, TargetMax)'
  <2>1. Obeys(h) /\ ~ log[h].dry
    BY <1>4, <1>10 DEF Obeys
  <2>2. h \in Int /\ \A g \in 1..h : log'[g] = log[g]
    BY <1>3, <1>4
  <2>3. \A T : Earlier(h, T)' = Earlier(h, T)
    <3>1. /\ \A g \in 1..h - 1 : log'[g] = log[g]
          /\ log'[h].at = log[h].at /\ log'[h].dry = log[h].dry
      BY <1>4, <2>2
    <3> QED
      BY <2>2, <3>1, EarlierStays
  <2>4. Within(h, Targets, GlobalMax) /\ \A t \in Targets : Within(h, {t}, TargetMax)
    BY <1>1, <2>1 DEF RateInv
  <2> QED
    BY <1>4, <2>3, <2>4 DEF Within
<1>11. \A T, max : Within(n, T, max)'
  <2>1. log'[n].rows \in Seq(Statuses) /\ DOMAIN log'[n].rows = {}
    BY <1>4, <1>5, EmptySeq
  <2>2. \A T : ~ (SentTo(log'[n], T) > 0)
    BY <2>1, SentToType
  <2> QED
    BY <2>2 DEF Within
<1> QED
  BY <1>4, <1>6, <1>9, <1>10, <1>11 DEF RateInv

(* A delivery that was not suppressed was within both limits.                *)
LEMMA Allowed ==
  ASSUME NEW j, ~ Suppressed(j), j.policed, ~ j.force, ~ j.dry, RateWindow # 0,
         j.rows \in Seq(Statuses), j.targets \in Seq(Targets),
         Len(j.rows) < Len(j.targets), j.global \in Nat,
         \A t \in Targets : j.target[t] \in Nat
  PROVE  LET t == Target(j)
         IN  /\ t \in Targets /\ t = j.targets[Len(j.rows) + 1]
             /\ j.global + SentTo(j, Targets) + 1 <= GlobalMax
             /\ j.target[t] + SentTo(j, {t}) + 1 <= TargetMax
<1> DEFINE t == Target(j)
<1>1. t \in Targets /\ t = j.targets[Len(j.rows) + 1]
  <2>1. Len(j.rows) \in Nat /\ Len(j.targets) \in Nat
    BY LenProperties
  <2>2. Len(j.rows) + 1 \in 1..Len(j.targets)
    BY <2>1
  <2> QED
    BY <2>2, LenProperties DEF Target
<1>2. Rows(j, "sent") = SentTo(j, Targets) /\ RowsTo(j, "sent", t) = SentTo(j, {t})
  BY RowsAreSentTo, LenProperties
<1>3. Rows(j, "failed") \in Nat /\ RowsTo(j, "failed", t) \in Nat
  <2> DEFINE D == {i \in DOMAIN j.rows : j.rows[i] = "failed"}
             E == {i \in DOMAIN j.rows : j.rows[i] = "failed" /\ j.targets[i] = t}
  <2>1. Len(j.rows) \in Nat /\ DOMAIN j.rows = 1..Len(j.rows)
    BY LenProperties
  <2>2. IsFiniteSet(DOMAIN j.rows)
    BY <2>1, FS_Interval
  <2> D \subseteq DOMAIN j.rows /\ E \subseteq DOMAIN j.rows
    OBVIOUS
  <2>3. IsFiniteSet(D) /\ IsFiniteSet(E)
    <3> HIDE DEF D, E
    <3> QED
      BY <2>2, FS_Subset
  <2>4. Cardinality(D) \in Nat /\ Cardinality(E) \in Nat
    <3> HIDE DEF D, E
    <3> QED
      BY <2>3, FS_CardinalityType
  <2> QED
    BY <2>4 DEF Rows, RowsTo
<1>4. SentTo(j, Targets) \in Nat /\ SentTo(j, {t}) \in Nat
  BY SentToType
<1>5. RateWindow > 0 /\ GlobalMax \in Nat /\ TargetMax \in Nat
  BY LimitAssumption
<1>6. ~ Limited(j)
  BY DEF Suppressed
<1>7. /\ ~ (j.global + (Rows(j, "sent") + Rows(j, "failed")) >= GlobalMax)
      /\ ~ (j.target[t] + (RowsTo(j, "sent", t) + RowsTo(j, "failed", t)) >= TargetMax)
  BY <1>5, <1>6 DEF Limited
<1>8. j.global + SentTo(j, Targets) + 1 <= GlobalMax
  BY <1>2, <1>3, <1>4, <1>5, <1>7
<1>9. j.target[t] + SentTo(j, {t}) + 1 <= TargetMax
  <2>1. j.target[t] \in Nat
    BY <1>1
  <2> HIDE DEF t
  <2> QED
    BY SMTT(60), <1>2, <1>3, <1>4, <1>5, <1>7, <2>1
<1> QED
  BY <1>1, <1>8, <1>9

LEMMA EarlierTotal ==
  ASSUME LogInv, NEW h \in Groups, NEW T
  PROVE  Total(Earlier(h, T)) \in Nat
<1>1. LiveBefore(h) \ {h} \in SUBSET Groups
  BY LiveInLog
<1>2. Counts(Earlier(h, T), LiveBefore(h) \ {h})
  BY <1>1, EarlierCounts DEF Earlier
<1> QED
  BY <1>2, TotalType

(* A process at a target: the limits stay kept by its attempt.               *)
LEMMA RateTarget ==
  ASSUME IInv, DedupeInv, RateInv, RateWindow # 0, NEW s \in Senders,
         Suppress(s) \/ DryRun(s) \/ Delivered(s) \/ Refused(s) \/ Transient(s)
  PROVE  RateInv'
<1> SUFFICES ASSUME clean' PROVE RateInv'
  BY DEF RateInv
<1>1. /\ pc[s] = "send" /\ clean
      /\ \A r \in Senders : r # s => pc'[r] = pc[r]
      /\ job'[s].global = job[s].global /\ job'[s].target = job[s].target
  BY TargetStepIs
<1> PICK g : g = job[s].group
  OBVIOUS
<1> PICK l : l = log[g]
  OBVIOUS
<1>2. PICK n, k : After(s, n, job'[s].rows, k) /\ RowOf(s, k)
  BY TargetStepIs
<1>3. /\ g \in Groups /\ Matches(job[s], l) /\ Len(l.rows) < Len(l.targets)
      /\ l.rows \in Seq(Statuses) /\ l.targets \in Seq(Targets)
  BY <1>1, AtSend DEF AtTarget, Matches
<1>4. g = Len(log) /\ \A r \in Senders : r # s => pc[r] = "idle"
  BY <1>1 DEF DedupeInv
<1>5. /\ k.at = l.at /\ k.dry = l.dry /\ k.force = l.force /\ k.policed = l.policed
      /\ k.targets = l.targets
  BY <1>2 DEF After
<1>6. /\ Groups' = Groups /\ Len(log') = Len(log) /\ log'[g] = k
      /\ \A f \in Groups : f # g => log'[f] = log[f]
  <2>1. k \in Logs /\ log' = [log EXCEPT ![g] = k] /\ LogInv
    BY <1>2 DEF After, IInv
  <2> QED
    BY <1>3, <2>1, LogChanges DEF Groups
<1>7. Groups = 1..g /\ g \in Nat
  BY <1>4, LenProperties DEF IInv, LogInv, Groups
<1>8. \A h \in Groups : Obeys(h)' = Obeys(h)
  BY <1>5, <1>6 DEF Obeys
<1>9. ASSUME NEW h \in Groups
      PROVE  \A T : Earlier(h, T)' = Earlier(h, T)
  <2>1. /\ h \in Int /\ \A f \in 1..h - 1 : log'[f] = log[f]
        /\ log'[h].at = log[h].at /\ log'[h].dry = log[h].dry
    BY <1>5, <1>6, <1>7
  <2> QED
    BY <2>1, EarlierStays
<1>10. Obeys(g) => /\ Known(g, Targets, job[s].global)
                   /\ \A t \in Targets : Known(g, {t}, job[s].target[t])
  BY <1>1, <1>4 DEF RateInv
<1>11. ASSUME Obeys(g)
       PROVE  /\ Known(g, Targets, job[s].global)'
              /\ \A t \in Targets : Known(g, {t}, job[s].target[t])'
  <2>1. \A T : Earlier(g, T)' = Earlier(g, T)
    BY <1>3, <1>9
  <2>2. /\ Known(g, Targets, job[s].global)
        /\ \A t \in Targets : Known(g, {t}, job[s].target[t])
    BY <1>10, <1>11
  <2> QED
    BY <1>1, <2>1, <2>2 DEF Known
<1>12. ASSUME NEW h \in Groups, h # g, Obeys(h), ~ log[h].dry
       PROVE  /\ Within(h, Targets, GlobalMax)'
              /\ \A t \in Targets : Within(h, {t}, TargetMax)'
  <2>1. Within(h, Targets, GlobalMax) /\ \A t \in Targets : Within(h, {t}, TargetMax)
    BY <1>1, <1>12 DEF RateInv
  <2> QED
    BY <1>6, <1>9, <1>12, <2>1 DEF Within
<1>13. ASSUME Obeys(g), ~ l.dry
       PROVE  /\ Within(g, Targets, GlobalMax)'
              /\ \A t \in Targets : Within(g, {t}, TargetMax)'
  <2>1. Within(g, Targets, GlobalMax) /\ \A t \in Targets : Within(g, {t}, TargetMax)
    BY <1>1, <1>3, <1>13 DEF RateInv
  <2>2. CASE k.rows = l.rows
    <3>1. \A T : SentTo(k, T) = SentTo(l, T)
      BY <1>5, <2>2 DEF SentTo
    <3> QED
      BY <1>3, <1>6, <1>9, <2>1, <3>1 DEF Within
  <2>3. ASSUME NEW status \in Statuses, k.rows = Append(l.rows, status),
               status = "sent" => ~ Suppressed(job[s])
        PROVE  /\ Within(g, Targets, GlobalMax)'
               /\ \A t \in Targets : Within(g, {t}, TargetMax)'
    <3>1. \A T : SentTo(k, T) = IF status = "sent" /\ l.targets[Len(l.rows) + 1] \in T
                                THEN SentTo(l, T) + 1 ELSE SentTo(l, T)
      <4>1. Grown(l, k, status)
        BY <1>3, <1>5, <2>3 DEF Grown
      <4> QED
        BY <4>1, SentToGrows
    <3>2. CASE status # "sent"
      <4>1. \A T : SentTo(k, T) = SentTo(l, T)
        BY <3>1, <3>2
      <4> QED
        BY <1>3, <1>6, <1>9, <2>1, <4>1 DEF Within
    <3>3. CASE status = "sent"
      <4> DEFINE j == job[s]
                 t == Target(j)
      <4>1. /\ ~ Suppressed(j) /\ j.policed /\ ~ j.force /\ ~ j.dry
            /\ j.rows = l.rows /\ j.targets = l.targets
        BY <1>3, <1>13, <2>3, <3>3 DEF Matches, Obeys
      <4>2. /\ j.global \in Nat /\ \A u \in Targets : j.target[u] \in Nat
            /\ Total(Earlier(g, Targets)) <= j.global
            /\ \A u \in Targets : Total(Earlier(g, {u})) <= j.target[u]
        BY <1>10, <1>13 DEF Known
      <4>3. \A T : SentTo(j, T) = SentTo(l, T) /\ SentTo(l, T) \in Nat
        <5>1. \A T : SentTo(j, T) = SentTo(l, T)
          BY <4>1 DEF SentTo
        <5>2. \A T : SentTo(l, T) \in Nat
          BY <1>3, SentToType
        <5> QED
          BY <5>1, <5>2
      <4>4. /\ t \in Targets /\ t = l.targets[Len(l.rows) + 1]
            /\ j.global + SentTo(l, Targets) + 1 <= GlobalMax
            /\ j.target[t] + SentTo(l, {t}) + 1 <= TargetMax
        BY <1>3, <4>1, <4>2, <4>3, Allowed
      <4>5. \A T : Total(Earlier(g, T)) \in Nat
        BY <1>3, EarlierTotal DEF IInv
      <4> HIDE DEF j, t
      <4>6. SentTo(k, Targets) = SentTo(l, Targets) + 1
        BY <3>1, <3>3, <4>4
      <4>7. Within(g, Targets, GlobalMax)'
        <5>1. Total(Earlier(g, Targets)) + SentTo(k, Targets) <= GlobalMax
          <6> DEFINE before == Total(Earlier(g, Targets))
                     sent == SentTo(l, Targets)
          <6>1. before \in Nat /\ sent \in Nat /\ j.global \in Nat
            BY <4>2, <4>3, <4>5
          <6>2. before <= j.global /\ j.global + sent + 1 <= GlobalMax /\ GlobalMax \in Nat
            BY <4>2, <4>4, LimitAssumption
          <6> HIDE DEF before, sent
          <6>3. before + (sent + 1) <= GlobalMax
            BY ONLY <6>1, <6>2
          <6> QED
            BY <4>6, <6>3 DEF before, sent
        <5> QED
          BY <1>3, <1>6, <1>9, <5>1 DEF Within
      <4>8. ASSUME NEW u \in Targets
            PROVE  Within(g, {u}, TargetMax)'
        <5>1. CASE u = t
          <6>1. SentTo(k, {t}) = SentTo(l, {t}) + 1
            BY <3>1, <3>3, <4>4
          <6>2. j.target[t] \in Nat /\ Total(Earlier(g, {t})) <= j.target[t]
            BY <4>2, <4>4
          <6>3. Total(Earlier(g, {t})) \in Nat /\ SentTo(l, {t}) \in Nat
            BY <4>3, <4>5
          <6>4. j.target[t] + SentTo(l, {t}) + 1 <= TargetMax /\ TargetMax \in Nat
            BY <4>4, LimitAssumption
          <6>5. Total(Earlier(g, {t})) + SentTo(k, {t}) <= TargetMax
            BY <6>1, <6>2, <6>3, <6>4
          <6> QED
            BY <1>3, <1>6, <1>9, <5>1, <6>5 DEF Within
        <5>2. CASE u # t
          <6>1. SentTo(k, {u}) = SentTo(l, {u})
            BY <3>1, <4>4, <5>2
          <6> QED
            BY <1>3, <1>6, <1>9, <2>1, <6>1 DEF Within
        <5> QED
          BY <5>1, <5>2
      <4> QED
        BY <4>7, <4>8
    <3> QED
      BY <3>2, <3>3
  <2> QED
    BY <1>2, <2>2, <2>3 DEF RowOf
<1>14. \A r \in Senders : pc'[r] # "idle" => r = s
  BY <1>1, <1>4
<1>15. \A h \in Groups : log'[h].dry = log[h].dry
  BY <1>5, <1>6
<1>16. \A r \in Senders : pc'[r] # "idle" /\ Obeys(g) =>
         /\ Known(g, Targets, job[r].global)'
         /\ \A t \in Targets : Known(g, {t}, job[r].target[t])'
  BY <1>11, <1>14
<1>17. \A h \in Groups : Obeys(h) /\ ~ log[h].dry =>
         /\ Within(h, Targets, GlobalMax)'
         /\ \A t \in Targets : Within(h, {t}, TargetMax)'
  BY <1>12, <1>13
<1>18. /\ \A r : Known(Len(log), Targets, job[r].global)' = Known(g, Targets, job[r].global)'
       /\ \A r, t : Known(Len(log), {t}, job[r].target[t])' = Known(g, {t}, job[r].target[t])'
  BY <1>4, <1>6 DEF Known
<1>19. Obeys(Len(log))' = Obeys(g)
  BY <1>3, <1>4, <1>6, <1>8 DEF Obeys
<1> QED
  BY <1>4, <1>6, <1>8, <1>15, <1>16, <1>17, <1>18, <1>19 DEF RateInv

(* A step that leaves the log alone, and starts no process.                  *)
LEMMA RateSame ==
  ASSUME IInv, RateInv, UNCHANGED log, clean' => clean,
         \A s \in Senders : pc'[s] # "idle" => pc[s] # "idle" /\ job'[s] = job[s]
  PROVE  RateInv'
<1> SUFFICES ASSUME clean' PROVE RateInv'
  BY DEF RateInv
<1>1. Groups' = Groups /\ Len(log)' = Len(log) /\ \A h : Obeys(h)' = Obeys(h)
  BY DEF Groups, Obeys
<1>2. \A h, T : Earlier(h, T)' = Earlier(h, T)
  BY DEF Earlier, LiveBefore, SentTo, Sure
<1>3. \A T, max : \A h \in Groups : Within(h, T, max)' = Within(h, T, max)
  BY <1>2 DEF Within, SentTo
<1>4. ASSUME NEW s \in Senders, pc'[s] # "idle", Obeys(Len(log))
      PROVE  /\ Known(Len(log), Targets, job[s].global)'
             /\ \A t \in Targets : Known(Len(log), {t}, job[s].target[t])'
  <2>1. /\ Known(Len(log), Targets, job[s].global)
        /\ \A t \in Targets : Known(Len(log), {t}, job[s].target[t])
    BY <1>4 DEF RateInv
  <2> QED
    BY <1>1, <1>2, <1>4, <2>1 DEF Known
<1>5. \A h \in Groups : Obeys(h) /\ ~ log[h].dry =>
        Within(h, Targets, GlobalMax) /\ \A t \in Targets : Within(h, {t}, TargetMax)
  BY DEF RateInv
<1>6. Obeys(Len(log))' = Obeys(Len(log))
  BY DEF Obeys
<1> QED
  BY <1>1, <1>3, <1>4, <1>5, <1>6 DEF RateInv

LEMMA RateInductive ==
  ASSUME RateWindow # 0
  PROVE  IInv /\ DedupeInv /\ RateInv /\ [Next]_vars => RateInv'
<1> SUFFICES ASSUME IInv, DedupeInv, RateInv, [Next]_vars PROVE RateInv'
  OBVIOUS
<1>1. DOMAIN job = Senders /\ DOMAIN pc = Senders
  BY DEF IInv, JobInv, LogInv
<1>2. ASSUME NEW s \in Senders, SessionFails(s) \/ OperatorSends(s) \/ OperatorReplays(s)
      PROVE  RateInv'
  BY <1>2, RateBegin DEF SessionFails, OperatorSends, OperatorReplays
<1>3. ASSUME NEW s \in Senders, Audit(s)
      PROVE  RateInv'
  BY <1>1, <1>3, RateSame DEF Audit
<1>4. ASSUME NEW s \in Senders, Write(s) \/ Crash(s)
      PROVE  RateInv'
  <2>1. Gone(s) /\ UNCHANGED log
    BY <1>4 DEF Write, Crash
  <2>2. ASSUME clean' PROVE clean
    BY <1>4, <2>2 DEF Write, Crash
  <2>3. \A r \in Senders : pc'[r] # "idle" => pc[r] # "idle" /\ job'[r] = job[r]
    BY <1>1, <2>1 DEF Gone
  <2> QED
    BY <2>1, <2>2, <2>3, RateSame
<1>5. ASSUME Tick \/ UNCHANGED vars
      PROVE  RateInv'
  BY <1>5, RateSame DEF Tick, vars, disk
<1>6. ASSUME NEW s \in Senders, Step(s)
      PROVE  RateInv'
  BY <1>3, <1>4, <1>6, RateTarget DEF Step
<1> QED
  BY <1>2, <1>4, <1>5, <1>6 DEF Next

(* Under the same conditions an attempt by the policy of the session sends   *)
(* no more than both limits leave it: with what the log shows of the window  *)
(* before it, overall and to each of its targets.  With a window of 0 the    *)
(* code applies no limit.                                                    *)
THEOREM RateHolding ==
  ASSUME RateWindow # 0
  PROVE  Spec => []RateHolds
<1>1. ASSUME IInv, RateInv, clean, NEW h \in Groups, Obeys(h), Sends(h, "sent")
      PROVE  /\ MapThenSumSet(LAMBDA g : Rows(log[g], "sent"), LiveBefore(h)) <= GlobalMax
             /\ \A t \in Targets : RowsTo(log[h], "sent", t) > 0 =>
                  MapThenSumSet(LAMBDA g : RowsTo(log[g], "sent", t), LiveBefore(h))
                    <= TargetMax
  <2> DEFINE S == LiveBefore(h)
  <2>1. LogInv /\ S \in SUBSET Groups /\ ~ log[h].dry
    BY <1>1, LiveInLog DEF IInv, Sends
  <2>2. /\ \A g \in S : Rows(log[g], "sent") = SentTo(log[g], Targets)
        /\ \A t : \A g \in S : RowsTo(log[g], "sent", t) = SentTo(log[g], {t})
    BY <2>1, LogTyped, RowsAreSentTo
  <2>3. /\ Rows(log[h], "sent") = SentTo(log[h], Targets)
        /\ \A t : RowsTo(log[h], "sent", t) = SentTo(log[h], {t})
    BY <1>1, <2>1, LogTyped, RowsAreSentTo
  <2>4. \A T : SentTo(log[h], T) \in Nat
    BY <1>1, <2>1, LogTyped, SentToType
  <2>5. MapThenSumSet(LAMBDA g : Rows(log[g], "sent"), S)
          = Total([g \in S |-> SentTo(log[g], Targets)])
    <3>1. [g \in S |-> Rows(log[g], "sent")] = [g \in S |-> SentTo(log[g], Targets)]
      BY <2>2
    <3> HIDE DEF S
    <3> QED
      BY <3>1, LogSum
  <2>6. ASSUME NEW t
        PROVE  MapThenSumSet(LAMBDA g : RowsTo(log[g], "sent", t), S)
                 = Total([g \in S |-> SentTo(log[g], {t})])
    <3>1. [g \in S |-> RowsTo(log[g], "sent", t)] = [g \in S |-> SentTo(log[g], {t})]
      BY <2>2
    <3> HIDE DEF S
    <3> QED
      BY ZenonT(60), <3>1, LogSumTo
  <2>7. ASSUME NEW T, NEW max \in Nat, Within(h, T, max), SentTo(log[h], T) > 0
        PROVE  Total([g \in S |-> SentTo(log[g], T)]) <= max
    <3> DEFINE f == [g \in S |-> SentTo(log[g], T)]
    <3>1. Counts(f, S)
      BY <2>1, EarlierCounts
    <3>2. Total(Earlier(h, T)) + SentTo(log[h], T) <= max
      BY <2>7 DEF Within
    <3>3. CASE h \in S
      <4>1. Total(f) = f[h] + Total([g \in S \ {h} |-> f[g]])
        <5> HIDE DEF f, S
        <5> QED
          BY <3>1, <3>3, TotalSplits
      <4>2. [g \in S \ {h} |-> f[g]] = Earlier(h, T)
        BY DEF Earlier
      <4>3. f[h] = SentTo(log[h], T)
        BY <3>3
      <4>4. Total(Earlier(h, T)) \in Nat
        BY <1>1, <2>1, EarlierTotal
      <4> HIDE DEF f
      <4> QED
        BY <2>4, <3>2, <4>1, <4>2, <4>3, <4>4 DEF f
    <3>4. CASE h \notin S
      <4>1. f = Earlier(h, T)
        BY <3>4 DEF Earlier
      <4>2. Total(Earlier(h, T)) \in Nat
        BY <1>1, <2>1, EarlierTotal
      <4> HIDE DEF f
      <4> QED
        BY <2>4, <2>7, <3>2, <4>1, <4>2 DEF f
    <3> QED
      BY <3>3, <3>4
  <2>8. Within(h, Targets, GlobalMax) /\ \A t \in Targets : Within(h, {t}, TargetMax)
    BY <1>1, <2>1 DEF RateInv
  <2>9. GlobalMax \in Nat /\ TargetMax \in Nat
    BY LimitAssumption
  <2>10. SentTo(log[h], Targets) > 0
    BY <1>1, <2>3 DEF Sends
  <2>11. Total([g \in S |-> SentTo(log[g], Targets)]) <= GlobalMax
    BY <2>7, <2>8, <2>9, <2>10
  <2>12. ASSUME NEW t \in Targets, RowsTo(log[h], "sent", t) > 0
         PROVE  Total([g \in S |-> SentTo(log[g], {t})]) <= TargetMax
    BY <2>3, <2>7, <2>8, <2>9, <2>12
  <2> HIDE DEF S
  <2> QED
    BY <2>5, <2>6, <2>11, <2>12 DEF S
<1>2. IInv /\ RateInv => RateHolds
  BY <1>1 DEF RateHolds
<1>3. Init => IInv /\ DedupeInv /\ RateInv
  BY InitInv, DedupeInit, RateInit
<1>4. IInv /\ DedupeInv /\ RateInv /\ [Next]_vars => IInv' /\ DedupeInv' /\ RateInv'
  BY InvInductive, DedupeInductive, RateInductive
<1> QED
  BY <1>2, <1>3, <1>4, PTL DEF Spec
=============================================================================
