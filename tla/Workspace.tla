----------------------------- MODULE Workspace ------------------------------
(***************************************************************************)
(* workspace.py: lists of changes with undo, snapshots and rollback, one   *)
(* file operation at a time, with a death of the process between any two   *)
(* of them.  The operations themselves never overlap: they are plain calls *)
(* of one event loop.                                                      *)
(*                                                                         *)
(* A file is a sequence of lines.  A line may hold a byte no reader can    *)
(* decode or a character no writer can encode.  Snapshots live outside the *)
(* files they copy (.autodev is excluded by list_context_files).           *)
(*                                                                         *)
(* A definition whose name extends that of the one after it is that        *)
(* definition with a plausible bug; only the mutation runs use it.         *)
(***************************************************************************)
EXTENDS PatchApply, FiniteSets, FiniteSetsExt

CONSTANTS
  Paths,
  Names,        \* snapshot names
  Lists,        \* lists of changes a caller may pass
  Found(_),     \* what a path may hold before the first run
  Template,     \* what the project template has at each path, or NoFile
  Backup(_),    \* _backup_filename
  Blocked,      \* paths below a path that is a file
  BadByte,      \* a line that cannot be decoded
  Surrogate,    \* a line that cannot be encoded
  NoFile,
  None,
  MaxDeaths     \* bound on the deaths (exploration only)

ASSUME WorkspaceAssumption ==
  /\ IsFiniteSet(Paths) /\ \A cs \in Lists : Len(cs) \in Nat
  /\ Blocked \subseteq Paths /\ \A p \in Blocked : Found(p) = {NoFile}
  /\ DOMAIN Template = Paths
  /\ \A p \in Blocked : Template[p] = NoFile
  /\ MaxDeaths \in Nat

VARIABLES
  files,    \* the workspace
  store,    \* per snapshot name: its manifest and its backups
  op,       \* the operation in progress
  before,   \* the workspace when it began (history)
  taken,    \* by name, the snapshots this process took, as they should be (history)
  deaths    \* how often the process died

ws == <<files, store, op, before, taken, deaths>>

Idle == [do |-> "idle", todo |-> <<>>, done |-> <<>>, name |-> None]

Readable(c)  == BadByte \notin ToSet(c)
Encodable(c) == Surrogate \notin ToSet(c)

BackupNames == {Backup(p) : p \in Paths}
NoStore == [manifest |-> None, kept |-> [b \in BackupNames |-> NoFile]]

(* Paths that share their backup with no other path.                       *)
Unshared == {p \in Paths : \A q \in Paths : Backup(q) = Backup(p) => q = p}

(* apply_template copies what is not there yet.                            *)
Filled(f) == [p \in Paths |-> IF f[p] = NoFile THEN Template[p] ELSE f[p]]

Init ==
  /\ \E f \in [Paths -> UNION {Found(p) : p \in Paths}] :
       /\ \A p \in Paths : f[p] \in Found(p)
       /\ files = Filled(f)
  /\ store = [n \in Names |-> NoStore]
  /\ op = Idle /\ before = files
  /\ taken = <<>>
  /\ deaths = 0

(***************************************************************************)
(* apply_changes.  Everything is read and computed before the first write; *)
(* each change of a list sees the files as they were before the list.      *)
(***************************************************************************)
Planned(c, held) ==
  LET exists == held # NoFile
      patch  == PatchResult(exists, IF exists THEN held ELSE <<>>, c.patch)
      next   == CASE c.op = "write" -> c.content [] c.op = "delete" -> NoFile
                  [] c.op = "patch" -> patch.out
  IN [path |-> c.path, held |-> held, next |-> next,
      noop |-> c.op # "delete" /\ exists /\ next = held,
      ok   |-> /\ c.path \in Paths
               /\ exists => Readable(held)
               /\ c.op = "patch" => patch.ok]

Refused(cs) ==
  \E i \in 1..Len(cs) : \/ cs[i].path \notin Paths
                        \/ ~Planned(cs[i], files[cs[i].path]).ok

Pending(cs) == [i \in 1..Len(cs) |-> Planned(cs[i], files[cs[i].path])]

ApplyBegins(cs) ==
  /\ op = Idle /\ ~Refused(cs)
  /\ op' = [Idle EXCEPT !.do = "apply", !.todo = Pending(cs)]
  /\ before' = files
  /\ UNCHANGED <<files, store, taken, deaths>>

(* write_text: the directory is made, the file truncated and then written. *)
CanOpen(p)  == p.next # NoFile => p.path \notin Blocked
CanWrite(p) == p.next # NoFile => Encodable(p.next)

ApplyNext ==
  /\ op.do = "apply" /\ op.todo # <<>>
  /\ LET p == Head(op.todo) IN
     /\ p.noop \/ (CanOpen(p) /\ CanWrite(p))
     /\ files' = IF p.noop THEN files ELSE [files EXCEPT ![p.path] = p.next]
     /\ op' = [op EXCEPT !.todo = Tail(@), !.done = IF p.noop THEN @ ELSE <<p>> \o @]
  /\ UNCHANGED <<store, before, taken, deaths>>

(* The failing change is not among those undone: what it did stays.        *)
ApplyFails ==
  /\ op.do = "apply" /\ op.todo # <<>>
  /\ LET p == Head(op.todo) IN
     /\ ~p.noop /\ ~(CanOpen(p) /\ CanWrite(p))
     /\ files' = IF CanOpen(p) THEN [files EXCEPT ![p.path] = <<>>] ELSE files
  /\ op' = [op EXCEPT !.do = "undo", !.todo = op.done]
  /\ UNCHANGED <<store, before, taken, deaths>>

(* Only the writes of files that were there are undone. *)
UndoNextKeepNew ==
  /\ op.do = "undo" /\ op.todo # <<>>
  /\ LET p == Head(op.todo) IN
     files' = IF p.held = NoFile THEN files ELSE [files EXCEPT ![p.path] = p.held]
  /\ op' = [op EXCEPT !.todo = Tail(@)]
  /\ UNCHANGED <<store, before, taken, deaths>>

(* A new file reached by two writes is deleted by the undo of either; the  *)
(* backup of a path is the same for all its changes.                       *)
UndoNext ==
  /\ op.do = "undo" /\ op.todo # <<>>
  /\ LET p == Head(op.todo) IN files' = [files EXCEPT ![p.path] = p.held]
  /\ op' = [op EXCEPT !.todo = Tail(@)]
  /\ UNCHANGED <<store, before, taken, deaths>>

Ends ==
  /\ op.do \in {"apply", "undo", "restore"} /\ op.todo = <<>>
  /\ op' = Idle
  /\ UNCHANGED <<files, store, before, taken, deaths>>

(***************************************************************************)
(* snapshot: the old one of this name is removed first, the files are      *)
(* copied one by one and the manifest is written last.                     *)
(***************************************************************************)
(* With the default limit of list_context_files, here one file less. *)
ExistingCapped ==
  LET found == {p \in Paths : files[p] # NoFile}
  IN IF Cardinality(found) > 1 THEN found \ {Last(SetToSeq(found))} ELSE found

Existing == {p \in Paths : files[p] # NoFile}

SnapshotBegins(n) ==
  /\ op = Idle
  /\ op' = [Idle EXCEPT !.do = "clear", !.name = n]
  /\ before' = files
  /\ taken' = [m \in DOMAIN taken \ {n} |-> taken[m]]
  /\ UNCHANGED <<files, store, deaths>>

SnapshotClears ==
  /\ op.do = "clear"
  /\ store' = [store EXCEPT ![op.name] = NoStore]
  /\ op' = [op EXCEPT !.do = "copy", !.todo = SetToSeq(Existing)]
  /\ UNCHANGED <<files, before, taken, deaths>>

SnapshotCopies ==
  /\ op.do = "copy" /\ op.todo # <<>> /\ Readable(files[Head(op.todo)])
  /\ store' = [store EXCEPT ![op.name].kept[Backup(Head(op.todo))] = files[Head(op.todo)]]
  /\ op' = [op EXCEPT !.todo = Tail(@)]
  /\ UNCHANGED <<files, before, taken, deaths>>

(* A file that cannot be decoded: the snapshot raises, without a manifest. *)
SnapshotFails ==
  /\ op.do = "copy" /\ op.todo # <<>> /\ ~Readable(files[Head(op.todo)])
  /\ op' = Idle
  /\ UNCHANGED <<files, store, before, taken, deaths>>

SnapshotEnds ==
  /\ op.do = "copy" /\ op.todo = <<>>
  /\ store' = [store EXCEPT ![op.name].manifest = Existing]
  /\ taken' = [n \in DOMAIN taken \cup {op.name} |->
                IF n = op.name THEN files ELSE taken[n]]
  /\ op' = Idle
  /\ UNCHANGED <<files, before, deaths>>

(***************************************************************************)
(* rollback.  Its callers roll back to names they have taken themselves;   *)
(* without a manifest it raises before it touches a file.                  *)
(***************************************************************************)
RollbackBegins(n) ==
  /\ op = Idle /\ n \in DOMAIN taken /\ store[n].manifest # None
  /\ op' = [Idle EXCEPT !.do = "remove", !.name = n,
                        !.todo = SetToSeq(Existing \ store[n].manifest)]
  /\ before' = files
  /\ UNCHANGED <<files, store, taken, deaths>>

RollbackDeletes ==
  /\ op.do = "remove" /\ op.todo # <<>>
  /\ files' = [files EXCEPT ![Head(op.todo)] = NoFile]
  /\ op' = [op EXCEPT !.todo = Tail(@)]
  /\ UNCHANGED <<store, before, taken, deaths>>

RollbackTurns ==
  /\ op.do = "remove" /\ op.todo = <<>>
  /\ op' = [op EXCEPT !.do = "restore", !.todo = SetToSeq(store[op.name].manifest)]
  /\ UNCHANGED <<files, store, before, taken, deaths>>

RollbackWrites ==
  /\ op.do = "restore" /\ op.todo # <<>>
  /\ files' = [files EXCEPT ![Head(op.todo)] = store[op.name].kept[Backup(Head(op.todo))]]
  /\ op' = [op EXCEPT !.todo = Tail(@)]
  /\ UNCHANGED <<store, before, taken, deaths>>

(* compute_loc_delta: lines now less lines in the snapshot; what cannot be *)
(* read does not count.                                                    *)
LinesOf(c) == IF c # NoFile /\ Readable(c) THEN Len(c) ELSE 0

LocDelta(n) ==
  IF store[n].manifest = None THEN 0
  ELSE MapThenSumSet(LAMBDA p : LinesOf(files[p]), Existing)
       - MapThenSumSet(LAMBDA p : LinesOf(store[n].kept[Backup(p)]), store[n].manifest)

(***************************************************************************)
(* The process dies: a write under way may leave its file empty, a removal *)
(* of an old snapshot any part of it, the copy of a file an empty backup.  *)
(***************************************************************************)
Torn ==
  IF op.todo = <<>> THEN {}
  ELSE IF op.do \in {"apply", "undo"} THEN {Head(op.todo).path} \ Blocked
  ELSE IF op.do = "restore" THEN {Head(op.todo)} ELSE {}

Debris ==
  CASE op.do = "clear" ->
         {[manifest |-> m, kept |-> [b \in BackupNames |->
              IF b \in left THEN store[op.name].kept[b] ELSE NoFile]] :
            m \in {None, store[op.name].manifest}, left \in SUBSET BackupNames}
    [] OTHER -> {store[op.name]}

Die ==
  /\ deaths < MaxDeaths /\ op # Idle
  /\ \/ files' = files
     \/ \E p \in Torn : files' = [files EXCEPT ![p] = <<>>]
  /\ \/ op.name = None /\ UNCHANGED store
     \/ op.name # None /\ \E d \in Debris : store' = [store EXCEPT ![op.name] = d]
  /\ op' = Idle /\ before' = files'
  /\ taken' = <<>>
  /\ deaths' = deaths + 1

OpStep ==
  \/ ApplyNext \/ ApplyFails \/ UndoNext \/ Ends
  \/ SnapshotClears \/ SnapshotCopies \/ SnapshotFails \/ SnapshotEnds
  \/ RollbackDeletes \/ RollbackTurns \/ RollbackWrites

Next ==
  \/ \E cs \in Lists : ApplyBegins(cs)
  \/ \E n \in Names : SnapshotBegins(n) \/ RollbackBegins(n)
  \/ OpStep
  \/ Die

Spec == Init /\ [][Next]_ws

-----------------------------------------------------------------------------
(* The types of the variables. *)
TypeOK ==
  /\ DOMAIN files = Paths /\ DOMAIN before = Paths
  /\ \A n \in Names : store[n].manifest = None \/ store[n].manifest \subseteq Paths
  /\ op.do \in {"idle", "apply", "undo", "clear", "copy", "remove", "restore"}
  /\ deaths \in 0..MaxDeaths

(* A snapshot this process has taken and not overwritten is complete, and  *)
(* its backups are the files as they were, whatever ran since: a later     *)
(* rollback has nothing else to go by.  Paths that share a backup excepted.*)
SnapshotsSound ==
  \A n \in DOMAIN taken :
    /\ store[n].manifest = {p \in Paths : taken[n][p] # NoFile}
    /\ \A p \in store[n].manifest \cap Unshared : store[n].kept[Backup(p)] = taken[n][p]

(* A list that fails leaves nothing behind: refuted by a text that cannot  *)
(* be encoded, whose file was truncated before the writer noticed.         *)
FailedListUndone == op.do = "undo" /\ op.todo = <<>> => files = before

(* A rollback needs every path it names to have a backup of its own:       *)
(* refuted by two paths that share one.                                    *)
BackupsSound ==
  \A n \in DOMAIN taken :
    \A p \in store[n].manifest : store[n].kept[Backup(p)] = taken[n][p]

(***************************************************************************)
(* The workspace between two operations is the abstract one; inside an     *)
(* operation the abstract one has not moved yet.                           *)
(***************************************************************************)
On(f) == [p \in Unshared |-> f[p]]

Visible == IF op.do \in {"apply", "undo", "remove", "restore"} THEN before ELSE files

Touches(cs) == {cs[i].path : i \in 1..Len(cs)} \cap Unshared

(* The changes of a list that write to a path or delete it, each computed  *)
(* on the text in front of the list; the last one stays.                   *)
Writes(cs, p, held) ==
  {i \in 1..Len(cs) : cs[i].path = p /\ ~Planned(cs[i], held).noop}

Leaves(cs, p, held) ==
  LET on == Writes(cs, p, held)
  IN IF on = {} THEN held ELSE Planned(cs[Max(on)], held).next

CannotEncode(cs, f) ==
  {p \in Unshared : \E i \in Writes(cs, p, f[p]) : ~CanWrite(Planned(cs[i], f[p]))}

Atomic == INSTANCE AtomicWorkspace WITH
  Paths <- Unshared, Empty <- <<>>,
  Touched <- Touches, Left <- Leaves, Unwritable <- CannotEncode,
  files <- On(Visible),
  saved <- [n \in DOMAIN taken |-> On(taken[n])]

(* Every list of changes is applied whole or not at all, a snapshot is what*)
(* the files were and a rollback gives exactly that back, whatever fails   *)
(* in between: a path below a file, a text that cannot be encoded, a file  *)
(* that cannot be decoded.  Only a death of the process shows a middle.    *)
ImplementsAtomic == Atomic!Spec
=============================================================================
