--------------------------- MODULE ProcessManager ---------------------------
(***************************************************************************)
(* autodev/gui_process_manager.py: the GUI server's table of the runs it   *)
(* spawned, the state file the table is persisted to after every           *)
(* operation, and the child processes themselves, which outlive a server   *)
(* that dies.                                                              *)
(*                                                                         *)
(* Request handlers are threads that serialise on one lock.  An operation  *)
(* is one action unless something can happen in the middle of it: a child  *)
(* ends while stop waits for it, and the server dies between Popen and the *)
(* write of the table.                                                     *)
(*                                                                         *)
(* A definition whose name extends that of the one after it is that        *)
(* definition with a plausible bug; only the mutation runs use it.         *)
(***************************************************************************)
EXTENDS Integers, FiniteSets

CONSTANTS
  Ids,          \* the process ids uuid4 can draw, which bounds the spawns
  Runs,         \* the run ids of run_link
  Corrs,        \* the correlation ids
  MaxRestarts,  \* bound on the restarts of the server
  None          \* "no value"

ASSUME LimitAssumption == MaxRestarts \in Nat

Ended    == {"exited", "terminated", "killed"}
States   == Ended \cup {"running", "stopping", "stop_unavailable"}
Children == {"none", "running", "ended"}

(* An entry of the table. *)
Item == [state : States, handle : BOOLEAN, retryOf : Ids \cup {None}, root : Ids,
         attempt : Nat \ {0}, corr : Corrs, run : Runs]

(* What an operation that holds the lock across a wait is doing. *)
Request   == [retryOf : Ids \cup {None}, corr : Corrs, run : Runs]
Operation == [op : {"spawn"}, id : Ids, request : Request]
               \cup [op : {"terminate", "kill"}, id : Ids, request : {None}]

ASSUME NoneAssumption == None \notin Ids \cup Corrs \cup Request \cup Item \cup Operation

VARIABLES
  items,     \* items[i]: the table's entry of process i, None if there is none
  file,      \* the table in the state file
  child,     \* child[i]: the operating system's process
  busy,      \* the operation that holds the lock across a wait, or None
  restarts,  \* how many times the server was restarted (bounds the model)
  asked,     \* history: the request for which each child was started, or None
  orphaned   \* history: the children that were started by a server which died
             \* before it wrote them to the table

past == <<asked, orphaned>>
vars == <<items, file, child, busy, restarts, past>>

Init ==
  /\ items = [i \in Ids |-> None]
  /\ file = [i \in Ids |-> None]
  /\ child = [i \in Ids |-> "none"]
  /\ busy = None
  /\ restarts = 0
  /\ asked = [i \in Ids |-> None]
  /\ orphaned = {}

Known == {i \in Ids : items[i] # None}

(* _refresh_state: poll a process that has a handle and has not ended. *)
Refreshed(it, i) ==
  IF it.state \notin Ended /\ it.handle /\ child[i] = "ended"
  THEN [it EXCEPT !.state = "exited"]
  ELSE it

(* _serialize_item: everything but the Popen object. *)
Persisted(table) ==
  [i \in Ids |-> IF table[i] # None THEN [table[i] EXCEPT !.handle = FALSE] ELSE None]

(* Every operation ends by writing the table through a temporary file that *)
(* replaces the old one, so the file is never half written.                *)
Save(table) ==
  /\ items' = table
  /\ file' = Persisted(table)

----------------------------------------------------------------------------
(* spawn, and retry with execute.                                          *)

(* Popen, with the lock held. *)
Popen(request) ==
  \E i \in Ids : /\ child[i] = "none"
                 /\ child' = [child EXCEPT ![i] = "running"]
                 /\ busy' = [op |-> "spawn", id |-> i, request |-> request]
                 /\ asked' = [asked EXCEPT ![i] = request]

Spawn ==
  /\ busy = None
  /\ \E c \in Corrs, r \in Runs : Popen([retryOf |-> None, corr |-> c, run |-> r])
  /\ UNCHANGED <<items, file, restarts, orphaned>>

RootIsParent(i, parent) == IF parent = None THEN i ELSE parent

Root(i, parent) == IF parent = None THEN i ELSE items[parent].root

AttemptOf(parent) == IF parent = None THEN 1 ELSE items[parent].attempt + 1

(* The rest of _spawn_locked: the item, its place in the retry chain, the  *)
(* first poll, and the write.                                              *)
Register ==
  /\ busy # None /\ busy.op = "spawn"
  /\ LET i  == busy.id
         rq == busy.request
         it == [state |-> "running", handle |-> TRUE, retryOf |-> rq.retryOf,
                root |-> Root(i, rq.retryOf), attempt |-> AttemptOf(rq.retryOf),
                corr |-> rq.corr, run |-> rq.run]
     IN  Save([items EXCEPT ![i] = Refreshed(it, i)])
  /\ busy' = None
  /\ UNCHANGED <<child, restarts, past>>

DuplicatesUnended(target, c) ==
  {i \in Known : items[i].retryOf = target /\ items[i].corr = c /\ items[i].state \notin Ended}

(* Earlier retries of the same target.  A retry takes its action, payload  *)
(* and command from the target, so these agree when the target does.       *)
Duplicates(target, c) == {i \in Known : items[i].retryOf = target /\ items[i].corr = c}

(* A retry of `target`: replay an earlier one with the same correlation id *)
(* or spawn.                                                               *)
RetryOf(target, c) ==
  LET corr   == IF c = None THEN items[target].corr ELSE c
      polled == [items EXCEPT ![target] = Refreshed(@, target)]
  IN  IF Duplicates(target, corr) = {}
      THEN /\ Save(polled)
           /\ Popen([retryOf |-> target, corr |-> corr, run |-> items[target].run])
      ELSE /\ \E i \in Duplicates(target, corr) :
                Save([polled EXCEPT ![i] = Refreshed(@, i)])
           /\ UNCHANGED <<child, busy, asked>>

RetryProcess ==
  /\ busy = None
  /\ \E target \in Known, c \in Corrs \cup {None} : RetryOf(target, c)
  /\ UNCHANGED <<restarts, orphaned>>

(* By run id the latest attempt of that run is retried. *)
RetryRun ==
  /\ busy = None
  /\ \E target \in Known, c \in Corrs \cup {None} :
       /\ \A i \in Known : items[i].run = items[target].run
                             => items[i].attempt <= items[target].attempt
       /\ RetryOf(target, c)
  /\ UNCHANGED <<restarts, orphaned>>

----------------------------------------------------------------------------
(* stop.                                                                   *)

Waiting(op, i) == busy = [op |-> op, id |-> i, request |-> None]

(* Poll; an ended process stays as it is, one without a handle cannot be   *)
(* stopped, any other gets SIGTERM and the lock is kept during the wait.   *)
Stop(i) ==
  /\ busy = None /\ i \in Known
  /\ LET it == Refreshed(items[i], i)
     IN  IF it.state \in Ended
         THEN Save([items EXCEPT ![i] = it]) /\ busy' = None
         ELSE IF ~it.handle
         THEN Save([items EXCEPT ![i] = [it EXCEPT !.state = "stop_unavailable"]]) /\ busy' = None
         ELSE /\ items' = [items EXCEPT ![i] = [it EXCEPT !.state = "stopping"]]
              /\ busy' = [op |-> "terminate", id |-> i, request |-> None]
              /\ UNCHANGED file
  /\ UNCHANGED <<child, restarts, past>>

(* wait(timeout) raises TimeoutExpired. *)
TimesOut(i) == child[i] = "running"

StopGraceful(i) ==
  /\ Waiting("terminate", i) /\ child[i] = "ended"
  /\ Save([items EXCEPT ![i].state = "terminated"])
  /\ busy' = None
  /\ UNCHANGED <<child, restarts, past>>

StopKills(i) ==
  /\ Waiting("terminate", i) /\ TimesOut(i)
  /\ busy' = [op |-> "kill", id |-> i, request |-> None]
  /\ UNCHANGED <<items, file, child, restarts, past>>

StopForced(i) ==
  /\ Waiting("kill", i) /\ child[i] = "ended"
  /\ Save([items EXCEPT ![i].state = "killed"])
  /\ busy' = None
  /\ UNCHANGED <<child, restarts, past>>

UnreapedKilled(i) == Save([items EXCEPT ![i].state = "killed"])

(* The second wait times out too: the exception leaves the item as it is,  *)
(* in memory and in the file.                                              *)
Unreaped(i) == UNCHANGED <<items, file>>

StopUnreaped(i) ==
  /\ Waiting("kill", i) /\ TimesOut(i)
  /\ Unreaped(i)
  /\ busy' = None
  /\ UNCHANGED <<child, restarts, past>>

StopWait(i) == StopGraceful(i) \/ StopKills(i) \/ StopForced(i) \/ StopUnreaped(i)

----------------------------------------------------------------------------
(* The read operations.                                                    *)

(* get and history. *)
Get(i) ==
  /\ busy = None /\ i \in Known
  /\ Save([items EXCEPT ![i] = Refreshed(@, i)])
  /\ UNCHANGED <<child, busy, restarts, past>>

(* list: poll every process and write the table. *)
List ==
  /\ busy = None
  /\ Save([i \in Ids |-> IF i \in Known THEN Refreshed(items[i], i) ELSE None])
  /\ UNCHANGED <<child, busy, restarts, past>>

----------------------------------------------------------------------------
(* A run ends, of its own or because of a signal. *)
ChildEnds(i) ==
  /\ child[i] = "running"
  /\ child' = [child EXCEPT ![i] = "ended"]
  /\ UNCHANGED <<items, file, busy, restarts, past>>

(* A child is started and not in the table yet. *)
Starting(i) == busy # None /\ busy.op = "spawn" /\ busy.id = i

(* _deserialize_item: there is no Popen object for a loaded item. *)
Loaded(it) == [it EXCEPT !.handle = FALSE]

(* The server dies at any point and is started again: its children, in     *)
(* sessions of their own, live on, one that it has not written unknown.    *)
Restart ==
  /\ restarts < MaxRestarts
  /\ restarts' = restarts + 1
  /\ items' = [i \in Ids |-> IF file[i] # None THEN Loaded(file[i]) ELSE None]
  /\ busy' = None
  /\ orphaned' = orphaned \cup {i \in Ids : Starting(i)}
  /\ UNCHANGED <<file, child, asked>>

Next ==
  \/ Spawn \/ Register
  \/ RetryProcess \/ RetryRun
  \/ \E i \in Ids : Stop(i) \/ StopWait(i) \/ Get(i) \/ ChildEnds(i)
  \/ List
  \/ Restart

Spec == Init /\ [][Next]_vars

(* The two waits of stop have timeouts and a thread inside an operation    *)
(* keeps running.  No child has to end, not even a killed one.             *)
FairSpec == Spec /\ WF_vars(Register) /\ \A i \in Ids : WF_vars(StopWait(i))

----------------------------------------------------------------------------
(* Properties.                                                             *)

(* Every variable has its type. *)
TypeOK ==
  /\ items \in [Ids -> Item \cup {None}]
  /\ file \in [Ids -> Item \cup {None}]
  /\ child \in [Ids -> Children]
  /\ busy \in Operation \cup {None}
  /\ restarts \in 0..MaxRestarts
  /\ asked \in [Ids -> Request \cup {None}] /\ orphaned \subseteq Ids

(* Over restarts, a retry chain leads back to the item at its root: a      *)
(* retry is one attempt after its parent, of the same run, with its root.  *)
RetryChain ==
  \A i \in Known :
    LET p == items[i].retryOf
    IN  IF p = None
        THEN items[i].root = i /\ items[i].attempt = 1
        ELSE /\ p \in Known
             /\ items[i].root = items[p].root
             /\ items[i].run = items[p].run
             /\ items[i].attempt = items[p].attempt + 1

(* Repeated or concurrent retry requests for one process with one          *)
(* correlation id start one child, however many have ended or restarts     *)
(* happened meanwhile. Not counted is a child whose server died between    *)
(* starting it and writing it to the table: nobody knows of it, so the     *)
(* same request starts another.                                            *)
OneRetryPerRequest ==
  \A i, j \in Ids \ orphaned :
    /\ asked[i] # None /\ asked[j] # None /\ asked[i].retryOf # None
    /\ asked[i].retryOf = asked[j].retryOf
    /\ asked[i].corr = asked[j].corr
    => i = j

(* A process reported as ended has ended: neither a poll, a wait that      *)
(* timed out nor a restart makes the table run ahead of the system.        *)
EndedIsTrue == \A i \in Known : items[i].state \in Ended => child[i] = "ended"

(* The file lags behind the table only by a stop that has not finished.    *)
FileFollows ==
  \A i \in Ids :
    \/ file[i] = None /\ items[i] = None
    \/ /\ file[i] # None /\ items[i] # None
       /\ items[i].state # "stopping" => file[i] = [items[i] EXCEPT !.handle = FALSE]

(* How a process ended is settled once: no later poll, stop, retry or      *)
(* restart rewrites it.                                                    *)
EndedIsFinal ==
  [][\A i \in Ids : items[i] # None /\ items[i].state \in Ended => items'[i] # None
                      /\ items'[i].state = items[i].state]_vars

(* No stop keeps the lock forever, even if the killed child never ends. *)
LockReleased == busy # None ~> busy = None

(* The promise of OneRetryPerRequest for every child that was started: a   *)
(* retry, a death before its entry is written and the same retry break it. *)
OneChildPerRequest ==
  \A i, j \in Ids :
    /\ asked[i] # None /\ asked[j] # None /\ asked[i].retryOf # None
    /\ asked[i].retryOf = asked[j].retryOf
    /\ asked[i].corr = asked[j].corr
    => i = j

(* BACKLOG_SHOWOFF.md:202: the server tracks the processes it spawned. *)
ChildrenTracked ==
  \A i \in Ids : child[i] = "running" /\ (busy = None \/ busy.id # i) => i \in Known

(* BACKLOG_SHOWOFF.md:203: stop terminates a process, and kills one that   *)
(* does not terminate; a stop that answers at once has found it ended.     *)
StopEnds == [][\A i \in Ids : Stop(i) /\ busy' = None => child[i] = "ended"]_vars
=============================================================================
