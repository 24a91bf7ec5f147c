---------------------------- MODULE TaskContext -----------------------------
(***************************************************************************)
(* context_engine.py and context_cache.py over the workspace: which files  *)
(* a prompt of a task shows, and which of them as a stub.  Each task is a  *)
(* coroutine that reads its context, waits for the model and applies the   *)
(* answer; the tasks share the workspace and the two caches.               *)
(*                                                                         *)
(* The language of a file and the parsing of its symbols and imports are   *)
(* constants; the index is built once, when the run starts.                *)
(***************************************************************************)
EXTENDS Workspace

CONSTANTS
  Tasks,
  Seeds(_),       \* the files a task declares
  Source,         \* paths in a language the index knows
  Imported(_),    \* the paths a path imports
  Shared(_),      \* the paths that define a symbol a path defines, too
  Keywords(_, _), \* the score of a path for the goal of a task
  MaxFiles,       \* max_files of select_for_task
  MaxLines,       \* max_chars_per_file
  Stubs,          \* whether incremental_context_cache is enabled
  MaxPrompts      \* bound on the prompts (exploration only)

ASSUME ContextAssumption ==
  /\ Source \subseteq Paths /\ MaxFiles \in Nat \ {0} /\ MaxLines \in Nat
  /\ Stubs \in BOOLEAN /\ MaxPrompts \in Nat
  /\ \A t \in Tasks : Seeds(t) \subseteq Paths

VARIABLES
  index,     \* the indexed paths
  cached,    \* task_context_cache
  recorded,  \* the last iteration of a task in the incremental cache
  waiting,   \* tasks whose prompt is not answered yet
  prompt,    \* the context of the latest prompt that is not answered
  asked,     \* prompts so far
  seen       \* per task and path: the last text shown in full (history)

context == <<index, cached, recorded, waiting, prompt, asked, seen>>
all == <<ws, context>>

(* What a prompt shows of a path. *)
Text(lines) == [is |-> "text", lines |-> lines]
Missing    == [is |-> "missing", lines |-> <<>>]
Unreadable == [is |-> "unreadable", lines |-> <<>>]
Stub       == [is |-> "stub", lines |-> <<>>]

(* scan: the files in a known language that can be read. *)
Scan(f) == {p \in Source : f[p] # NoFile /\ Readable(f[p])}

ContextInit ==
  /\ Init
  /\ index = Scan(files)
  /\ cached = [t \in Tasks |-> None]
  /\ recorded = [t \in Tasks |-> <<>>]
  /\ waiting = {}
  /\ prompt = [task |-> None, shows |-> <<>>]
  /\ asked = 0
  /\ seen = [t \in Tasks |-> <<>>]

(***************************************************************************)
(* select_for_task: seeds, what they import, what shares a symbol with     *)
(* them, and what the words of the goal name, ranked by score.             *)
(***************************************************************************)
Score(t, p) ==
  LET known == Seeds(t) \cap index IN
  IF p \in Seeds(t) THEN 100
  ELSE IF p \in index /\ \E s \in known : p \in Imported(s) THEN 50
  ELSE IF p \in index /\ \E s \in known : p \in Shared(s) THEN 25
  ELSE IF p \in index THEN Keywords(t, p) ELSE 0

Scored(t) == {p \in Paths : Score(t, p) > 0}

(* Equal scores fall in any order (a set of symbols is walked). *)
Selections(t) ==
  {chosen \in SUBSET Scored(t) :
     /\ Cardinality(chosen) = Min({MaxFiles, Cardinality(Scored(t))})
     /\ \A p \in chosen, q \in Scored(t) \ chosen : Score(t, p) >= Score(t, q)}

(* Without an index the declared files are shown, by _build_files_context. *)
Candidates(t) ==
  IF index # {} THEN Selections(t)
  ELSE {chosen \in SUBSET Seeds(t) : Cardinality(chosen) = Min({MaxFiles, Cardinality(Seeds(t))})}

Shown(p) ==
  IF files[p] = NoFile THEN Missing
  ELSE IF ~Readable(files[p]) THEN Unreadable
  ELSE Text(SubSeq(files[p], 1, Min({MaxLines, Len(files[p])})))

(* record_and_transform: a text that is the one recorded in the last       *)
(* iteration of the task is replaced by a stub.                            *)
Transformed(t, ctx) ==
  [p \in DOMAIN ctx |->
     IF Stubs /\ p \in DOMAIN recorded[t] /\ recorded[t][p] = ctx[p] THEN Stub ELSE ctx[p]]

RecordedOnce(t, ctx) ==
  IF Stubs /\ ctx # <<>> /\ recorded[t] = <<>> THEN ctx ELSE recorded[t]

Recorded(t, ctx) == IF Stubs /\ ctx # <<>> THEN ctx ELSE recorded[t]

(***************************************************************************)
(* _cached_files_context, in front of an implementer's or a fixer's call.  *)
(***************************************************************************)
Sees(t, shows, ctx) ==
  [p \in DOMAIN seen[t] \cup DOMAIN shows |->
     IF p \in DOMAIN shows /\ shows[p] # Stub THEN shows[p] ELSE seen[t][p]]

Ask(t) ==
  /\ op = Idle /\ t \notin waiting /\ asked < MaxPrompts
  /\ \E chosen \in Candidates(t) :
       LET ctx   == [p \in chosen |-> Shown(p)]
           shows == IF cached[t] # None THEN cached[t] ELSE Transformed(t, ctx)
       IN /\ prompt' = [task |-> t, shows |-> shows]
          /\ recorded' = IF cached[t] # None THEN recorded
                         ELSE [recorded EXCEPT ![t] = Recorded(t, ctx)]
          /\ cached' = [cached EXCEPT ![t] = shows]
          /\ seen' = [seen EXCEPT ![t] = Sees(t, shows, ctx)]
  /\ waiting' = waiting \cup {t}
  /\ asked' = asked + 1
  /\ UNCHANGED <<ws, index>>

(* The answer is applied; the caller forgets the cached context after it.  *)
AnswerApplied(t) ==
  /\ op = Idle /\ t \in waiting
  /\ \E cs \in Lists : ApplyBegins(cs)
  /\ waiting' = waiting \ {t}
  /\ cached' = [cached EXCEPT ![t] = None]
  /\ prompt' = [task |-> None, shows |-> <<>>]
  /\ UNCHANGED <<index, recorded, asked, seen>>

(* A new process: the index is scanned again and the caches are empty.     *)
Dies ==
  /\ Die
  /\ index' = Scan(files')
  /\ cached' = [t \in Tasks |-> None]
  /\ recorded' = [t \in Tasks |-> <<>>]
  /\ waiting' = {}
  /\ prompt' = [task |-> None, shows |-> <<>>]
  /\ seen' = [t \in Tasks |-> <<>>]
  /\ UNCHANGED asked

Snapshots ==
  /\ \E n \in Names : SnapshotBegins(n) \/ RollbackBegins(n)
  /\ UNCHANGED context

Continues == OpStep /\ UNCHANGED context

ContextNext ==
  \/ \E t \in Tasks : Ask(t) \/ AnswerApplied(t)
  \/ Snapshots
  \/ Continues
  \/ Dies

ContextSpec == ContextInit /\ [][ContextNext]_all

-----------------------------------------------------------------------------
(* The types of the variables. *)
ContextTypeOK ==
  /\ index \subseteq Source
  /\ waiting \subseteq Tasks
  /\ \A t \in Tasks : DOMAIN recorded[t] \subseteq Paths /\ DOMAIN seen[t] \subseteq Paths

(* A prompt tells the model the truth: a text it shows is the file as it is*)
(* now, and a stub (the model has no memory of its own) stands for the text*)
(* an earlier prompt of the same task last showed in full; whatever other  *)
(* tasks wrote and whatever was rolled back in between.                    *)
PromptsAreTrue ==
  [][\A t \in Tasks : Ask(t) =>
       \A p \in DOMAIN prompt'.shows :
         IF prompt'.shows[p] = Stub THEN p \in DOMAIN seen[t] /\ seen[t][p] = Shown(p)
         ELSE prompt'.shows[p] = Shown(p)]_all

(* A stub stands for a file; the cache also stubs the texts that say that a*)
(* file is missing or unreadable, so a second prompt shows it as unchanged.*)
StubsAreFiles ==
  prompt.task # None =>
    \A p \in DOMAIN prompt.shows : prompt.shows[p] = Stub => seen[prompt.task][p] # Missing

(* The files a task declares are the last to be left out: holds only while *)
(* no file shares more than ten words with the goal.                       *)
SeedsFirst ==
  prompt.task # None =>
    \/ Seeds(prompt.task) \subseteq DOMAIN prompt.shows
    \/ DOMAIN prompt.shows \subseteq Seeds(prompt.task)
=============================================================================
