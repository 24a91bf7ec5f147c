----------------------------- MODULE GuiRequests -----------------------------
(* The life of a request in the GUI server. A thread of the server takes it, *)
(* finds out whom it speaks for, works on files that other threads work on   *)
(* too, without a lock, appends a line to the audit log and answers. The     *)
(* server may die at any of these steps; the files stay.                     *)
EXTENDS GuiAccess

CONSTANTS Threads,     \* the threads of the server
          Scenes,      \* what is on disk at first and which requests come
          MaxDeaths, MaxFaults, MaxTime   \* bounds

\* A request is named by its id.
ASSUME SceneAssumption ==
  \A s \in Scenes : s.now \in Nat /\ \A q, r \in s.requests : q.id = r.id => q = r

VARIABLES todo,        \* the requests still to come
          h,           \* the request each thread is at
          files,       \* the JSON and markdown files that are written as a whole
          lines,       \* the logs that lines are appended to
          sent,        \* what delivery targets have received
          runs,        \* the run directories and the processes that work in them
          outcome,     \* how each request ended
          now, deaths, faults,
          touched,     \* history: the requests that changed something
          mixed,       \* history: the groups in which requests overlapped or were cut off,
                       \* and the requests that stopped halfway in their work on a
                       \* file: the disk was full, or a markdown could not be removed
          origin       \* history: the content of a snapshot when it was saved

disk == <<files, lines, sent, runs>>
counters == <<now, deaths, faults>>
history == <<touched, mixed, origin>>
serverVars == <<todo, h, disk, outcome, counters, history>>

RunControls  == {"start", "resume", "stop", "retry"}
TrustActions == {"approval", "workflow", "action", "send", "resend"}

\* Requests of one group work on the same files.
Group(r) == CASE r.kind \in {"workflow", "action"} -> "workflow"
              [] r.kind \in {"send", "resend"}     -> "delivery"
              [] r.kind \in RunControls            -> "runs"
              [] OTHER                             -> r.kind

(* A file is named by its directory and, for a snapshot, by the second in    *)
(* which it was made and a random tail. An unparseable file is torn.         *)
NoFile == [dir |-> "", at |-> 0, tail |-> 0]
Torn == [form |-> "torn"]
Set(fs, f, x) == [g \in DOMAIN fs \cup {f} |-> IF g = f THEN x ELSE fs[g]]
Drop(fs, f) == [g \in DOMAIN fs \ {f} |-> fs[g]]

\* The members of S in the order `before'.
InOrder(S, before(_,_)) ==
  CHOOSE s \in [1 .. Cardinality(S) -> S] : \A i, j \in DOMAIN s : i < j => before(s[i], s[j])

Log(name, row) == lines' = [lines EXCEPT ![name] = Append(@, row)]

NoRequest == [id |-> "", kind |-> "none"]
Idle == [at |-> "idle", r |-> NoRequest, role |-> "", file |-> NoFile, rec |-> Torn,
         ids |-> <<>>, hits |-> 0, bad |-> {}, status |-> 200, seen |-> <<>>, stamp |-> 0,
         outcomes |-> <<>>, alone |-> TRUE]
Busy(t) == h[t].at # "idle"
Becomes(t, x) == h' = [h EXCEPT ![t] = x]

\* How a request ends besides with a status: cut off by the server's death, or
\* by an exception that no handler catches.
Open == 0
Lost == 1
Dropped == 2

Ends(t, how) == /\ outcome' = [outcome EXCEPT ![h[t].r.id] = how]
                /\ Becomes(t, Idle)
Touches(t) == touched' = touched \cup {h[t].r.id}

RequestsInit(s) ==
  /\ todo = s.requests
  /\ h = [t \in Threads |-> Idle]
  /\ files = s.files
  /\ lines = [n \in {"audit", "actions", "approvals", "rows", "deliveries"} |-> <<>>]
  /\ sent = {}
  /\ runs = s.runs
  /\ outcome = [i \in {r.id : r \in s.requests} |-> Open]
  /\ now = s.now /\ deaths = s.deaths /\ faults = s.faults
  /\ touched = {} /\ mixed = {}

--------------------------------------------------------------------------------
(* Taking a request *)

Comes(t, r) == h[t].at = "idle" /\ r \in todo /\ todo' = todo \ {r}

TurnedAway(t, r, status) ==
  /\ Comes(t, r)
  /\ outcome' = [outcome EXCEPT ![r.id] = status]
  /\ UNCHANGED <<h, disk, counters, history>>

\* Every handler but that of a deletion first reads its body as a JSON object.
Malformed(t, r) == r.kind # "delete" /\ ~r.json /\ TurnedAway(t, r, 400)

Refused(r) == r.kind \in RunControls \cup TrustActions
              /\ ~IsMutationAllowed(ResolveRequestAuth(r, r.kind))

\* Only the refusal of a run control is audited.
Forbidden(t, r) == (r.json \/ r.kind = "delete") /\ r.kind \in TrustActions /\ Refused(r) /\ TurnedAway(t, r, 403)

Taken(t, r) ==
  /\ Comes(t, r)
  /\ r.kind = "delete" \/ r.json
  /\ r.kind \in TrustActions => ~Refused(r)
  /\ h' = [u \in Threads |->
            IF u = t
            THEN [Idle EXCEPT !.at = IF Refused(r) THEN "audit" ELSE "begin",
                              !.status = IF Refused(r) THEN 403 ELSE 200,
                              !.r = r, !.role = ResolveRequestAuth(r, r.kind),
                              !.alone = \A v \in Threads \ {t} : ~Busy(v)]
            ELSE IF Busy(u) THEN [h[u] EXCEPT !.alone = FALSE] ELSE h[u]]
  /\ mixed' = IF \E u \in Threads : Busy(u) /\ Group(h[u].r) = Group(r)
              THEN mixed \cup {Group(r)} ELSE mixed
  /\ UNCHANGED <<disk, outcome, counters, touched, origin>>

Arrive(t) == \E r \in todo : Malformed(t, r) \/ Forbidden(t, r) \/ Taken(t, r)

--------------------------------------------------------------------------------
(* Writing a file: it is opened, which empties it, and filled when closed.   *)

Truncate(t) ==
  /\ h[t].at = "write"
  /\ files' = Set(files, h[t].file, Torn)
  /\ Becomes(t, [h[t] EXCEPT !.at = "fill"])
  /\ Touches(t)
  /\ UNCHANGED <<todo, lines, sent, runs, outcome, counters, mixed, origin>>

(* A file that was unlinked meanwhile stays away; one that another thread    *)
(* has filled meanwhile may keep the end of the other text.                  *)
Filled(f, x) ==
  IF f \notin DOMAIN files THEN {files}
  ELSE {Set(files, f, x)} \cup (IF files[f].form = "torn" THEN {} ELSE {Set(files, f, Torn)})

--------------------------------------------------------------------------------
(* The end of a request: the audit line, then the answer. *)

AuditWritten(t) ==
  /\ h[t].at = "audit"
  /\ Log("audit", [id |-> h[t].r.id, kind |-> h[t].r.kind, ok |-> h[t].status = 200, role |-> h[t].role])
  /\ Ends(t, h[t].status)
  /\ UNCHANGED <<todo, files, sent, runs, counters, history>>

AuditFails(t) ==
  /\ h[t].at = "audit"
  /\ faults < MaxFaults
  /\ faults' = faults + 1
  /\ Ends(t, 500)
  /\ UNCHANGED <<todo, disk, now, deaths, history>>

--------------------------------------------------------------------------------
(* The death and restart of the server, and the clock. *)

Die ==
  /\ deaths < MaxDeaths
  /\ deaths' = deaths + 1
  /\ \E t \in Threads : Busy(t)
  /\ h' = [t \in Threads |-> Idle]
  /\ outcome' = [i \in DOMAIN outcome |->
                  IF \E t \in Threads : Busy(t) /\ h[t].r.id = i THEN Lost ELSE outcome[i]]
  /\ mixed' = mixed \cup {Group(h[t].r) : t \in {u \in Threads : Busy(u)}}
  /\ UNCHANGED <<todo, disk, now, faults, touched, origin>>

Tick ==
  /\ now < MaxTime
  /\ now' = now + 1
  /\ UNCHANGED <<todo, h, disk, outcome, deaths, faults, history>>
=============================================================================
