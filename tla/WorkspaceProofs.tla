-------------------------- MODULE WorkspaceProofs ---------------------------
(***************************************************************************)
(* Proofs about Workspace and TaskContext, for any paths, texts, lists of  *)
(* changes and snapshot names: a snapshot is complete and stays what it    *)
(* was, the file operations implement the atomic workspace, and a prompt   *)
(* shows what the files hold.                                              *)
(*                                                                         *)
(* The argument: what an operation still has to do is in op.todo.  While a *)
(* snapshot is copied, every file is to be copied or has its backup; while *)
(* a list is applied, every path holds what the changes done so far leave  *)
(* on it, and the paths that changed are in op.done; while it is undone or *)
(* a snapshot is restored, every path is to be written or has the text it  *)
(* will have.  Paths that share a backup are left out, as in the           *)
(* properties.                                                             *)
(***************************************************************************)
EXTENDS TaskContext, FiniteSetTheorems, SequenceTheorems, TLAPS

Shapes ==
  /\ DOMAIN files = Paths /\ DOMAIN before = Paths
  /\ DOMAIN store = Names
  /\ \A n \in Names :
       /\ DOMAIN store[n] = {"manifest", "kept"}
       /\ DOMAIN store[n].kept = BackupNames
       /\ store[n].manifest = None \/ store[n].manifest \subseteq Paths
  /\ DOMAIN op = {"do", "todo", "done", "name"}
  /\ op.do \in {"idle", "apply", "undo", "clear", "copy", "remove", "restore"}
  /\ op.do \in {"clear", "copy"} => op.name \in Names
  /\ op.do \in {"copy", "remove", "restore"} => op.todo \in Seq(Paths)
  /\ DOMAIN taken \subseteq Names
  /\ deaths \in 0..MaxDeaths

(* A snapshot in the making is not one that was taken; each file is to be  *)
(* copied or has its backup.                                               *)
CopyInv ==
  /\ op.do \in {"clear", "copy"} => op.name \notin DOMAIN taken
  /\ op.do \in {"remove", "restore"} => op.name \in DOMAIN taken
  /\ op.do = "copy" => \A p \in Existing \cap Unshared :
       p \in ToSet(op.todo) \/ store[op.name].kept[Backup(p)] = files[p]

SnapInv == Shapes /\ SnapshotsSound /\ CopyInv

-----------------------------------------------------------------------------
(* Sequences *)

LEMMA HeadAndTail ==
  ASSUME NEW S, NEW s \in Seq(S), s # <<>>
  PROVE  /\ Head(s) \in S /\ Tail(s) \in Seq(S)
         /\ ToSet(s) = {Head(s)} \cup ToSet(Tail(s))
<1>1. /\ Head(s) \in S /\ Tail(s) \in Seq(S) /\ Len(Tail(s)) = Len(s) - 1
      /\ \A i \in 1..Len(Tail(s)) : Tail(s)[i] = s[i + 1]
  BY HeadTailProperties
<1>2. /\ Len(s) \in Nat /\ Len(s) # 0 /\ DOMAIN s = 1..Len(s)
      /\ DOMAIN Tail(s) = 1..Len(s) - 1 /\ Head(s) = s[1]
  BY <1>1, LenProperties, EmptySeq
<1>3. ASSUME NEW x \in ToSet(s) PROVE x \in {Head(s)} \cup ToSet(Tail(s))
  <2>1. PICK i \in 1..Len(s) : x = s[i]
    BY <1>2 DEF ToSet
  <2>2. CASE i = 1
    BY <1>2, <2>1, <2>2
  <2>3. CASE i # 1
    <3>1. i - 1 \in DOMAIN Tail(s) /\ Tail(s)[i - 1] = s[i]
      BY <1>1, <1>2, <2>3
    <3> QED
      BY <2>1, <3>1 DEF ToSet
  <2> QED
    BY <2>2, <2>3
<1>4. ASSUME NEW x \in ToSet(Tail(s)) PROVE x \in ToSet(s)
  <2>1. PICK i \in 1..Len(s) - 1 : x = Tail(s)[i]
    BY <1>2 DEF ToSet
  <2>2. i + 1 \in DOMAIN s /\ x = s[i + 1]
    BY <1>1, <1>2, <2>1
  <2> QED
    BY <2>2 DEF ToSet
<1>5. Head(s) \in ToSet(s)
  BY <1>2 DEF ToSet
<1> QED
  BY <1>1, <1>3, <1>4, <1>5

LEMMA NothingToDo == ToSet(<<>>) = {}
BY DEF ToSet

(* SetToSeq lists every element of a finite set. *)
LEMMA Listed ==
  ASSUME NEW S, IsFiniteSet(S)
  PROVE  SetToSeq(S) \in Seq(S) /\ ToSet(SetToSeq(S)) = S
<1> DEFINE n == Cardinality(S)
           f == SetToSeq(S)
<1>1. n \in Nat
  BY FS_CardinalityType
<1>2. \E g \in [1..n -> S] : IsInjective(g)
  <2>1. ExistsBijection(1..n, S)
    BY FS_CardinalityType
  <2> QED
    BY <2>1 DEF ExistsBijection, Bijection, Injection
<1>3. f \in [1..n -> S] /\ IsInjective(f)
  BY <1>2 DEF SetToSeq
<1> HIDE DEF f, n
<1>4. f \in Injection(1..n, S)
  BY <1>3 DEF Injection
<1>5. IsFiniteSet(1..n) /\ Cardinality(1..n) = n
  BY <1>1, FS_Interval
<1>6. f \in Surjection(1..n, S)
  BY <1>4, <1>5, FS_Injection DEF n
<1>7. f \in Seq(S)
  BY <1>1, <1>3
<1>8. \A x \in S : \E i \in 1..n : f[i] = x
  BY <1>6 DEF Surjection
<1>9. DOMAIN f = 1..n /\ \A i \in 1..n : f[i] \in S
  BY <1>3
<1>10. ToSet(f) = S
  BY <1>8, <1>9 DEF ToSet
<1> QED
  BY <1>7, <1>10 DEF f

LEMMA PathsListed ==
  ASSUME NEW S \in SUBSET Paths
  PROVE  SetToSeq(S) \in Seq(Paths) /\ ToSet(SetToSeq(S)) = S
<1>1. IsFiniteSet(S)
  BY WorkspaceAssumption, FS_Subset
<1>2. SetToSeq(S) \in Seq(S) /\ ToSet(SetToSeq(S)) = S
  BY <1>1, Listed
<1> QED
  BY <1>2, SeqMonotonic

-----------------------------------------------------------------------------
(* Types and snapshots *)

LEMMA SnapInit == Init => SnapInv
<1> SUFFICES ASSUME Init PROVE SnapInv
  OBVIOUS
<1>1. DOMAIN files = Paths
  BY DEF Init, Filled
<1>2. Shapes
  BY <1>1, WorkspaceAssumption DEF Init, Shapes, NoStore, Idle
<1> QED
  BY <1>2 DEF SnapInv, SnapshotsSound, CopyInv, Init, Idle

(* Between operations nothing of this depends on the files. *)
LEMMA FilesOnly ==
  ASSUME SnapInv, UNCHANGED <<store, taken, deaths>>,
         DOMAIN files' = Paths, DOMAIN before' = Paths,
         DOMAIN op' = {"do", "todo", "done", "name"},
         op'.do \in {"idle", "apply", "undo", "remove", "restore"},
         op'.do \in {"remove", "restore"} =>
           op'.todo \in Seq(Paths) /\ op'.name \in DOMAIN taken
  PROVE  SnapInv'
BY DEF SnapInv, Shapes, SnapshotsSound, CopyInv

LEMMA ApplySnaps ==
  ASSUME SnapInv,
         \/ \E cs \in Lists : ApplyBegins(cs)
         \/ ApplyNext \/ ApplyFails \/ UndoNext \/ Ends
  PROVE  SnapInv'
<1> USE DEF SnapInv, Shapes
<1>1. ASSUME NEW cs \in Lists, ApplyBegins(cs) PROVE SnapInv'
  BY <1>1, FilesOnly DEF ApplyBegins, Idle
<1>2. CASE ApplyNext
  BY <1>2, FilesOnly DEF ApplyNext
<1>3. CASE ApplyFails
  BY <1>3, FilesOnly DEF ApplyFails
<1>4. CASE UndoNext
  BY <1>4, FilesOnly DEF UndoNext
<1>5. CASE Ends
  BY <1>5, FilesOnly DEF Ends, Idle
<1> QED
  BY <1>1, <1>2, <1>3, <1>4, <1>5

LEMMA RollbackSnaps ==
  ASSUME SnapInv,
         \/ \E n \in Names : RollbackBegins(n)
         \/ RollbackDeletes \/ RollbackTurns \/ RollbackWrites
  PROVE  SnapInv'
<1>1. ASSUME NEW n \in Names, RollbackBegins(n) PROVE SnapInv'
  <2>1. SetToSeq(Existing \ store[n].manifest) \in Seq(Paths)
    BY PathsListed DEF Existing
  <2> QED
    BY <1>1, <2>1, FilesOnly DEF RollbackBegins, Idle, SnapInv, Shapes
<1>2. CASE RollbackDeletes
  <2>1. Tail(op.todo) \in Seq(Paths)
    BY <1>2, HeadAndTail DEF RollbackDeletes, SnapInv, Shapes
  <2> QED
    BY <1>2, <2>1, FilesOnly DEF RollbackDeletes, SnapInv, Shapes, CopyInv
<1>3. CASE RollbackTurns
  <2>1. op' = [op EXCEPT !.do = "restore", !.todo = SetToSeq(store[op.name].manifest)]
    BY <1>3 DEF RollbackTurns
  <2>2. op.name \in DOMAIN taken
    BY <1>3 DEF RollbackTurns, SnapInv, CopyInv
  <2>3. SetToSeq(store[op.name].manifest) \in Seq(Paths)
    BY <2>2, PathsListed DEF SnapInv, SnapshotsSound
  <2> QED
    BY <1>3, <2>1, <2>3, FilesOnly DEF RollbackTurns, SnapInv, Shapes, CopyInv
<1>4. CASE RollbackWrites
  <2>1. Tail(op.todo) \in Seq(Paths)
    BY <1>4, HeadAndTail DEF RollbackWrites, SnapInv, Shapes
  <2> QED
    BY <1>4, <2>1, FilesOnly DEF RollbackWrites, SnapInv, Shapes, CopyInv
<1> QED
  BY <1>1, <1>2, <1>3, <1>4

(* The old snapshot is forgotten when the new one begins. *)
LEMMA BeginSnaps ==
  ASSUME SnapInv, NEW n \in Names, SnapshotBegins(n)
  PROVE  SnapInv'
<1>1. /\ op' = [Idle EXCEPT !.do = "clear", !.name = n]
      /\ taken' = [m \in DOMAIN taken \ {n} |-> taken[m]]
      /\ before' = files /\ UNCHANGED <<files, store, deaths>>
  BY DEF SnapshotBegins
<1>2. op'.do = "clear" /\ op'.name = n /\ DOMAIN op' = {"do", "todo", "done", "name"}
  BY <1>1 DEF Idle
<1>3. Shapes'
  BY <1>1, <1>2 DEF SnapInv, Shapes
<1>4. SnapshotsSound'
  BY <1>1 DEF SnapInv, SnapshotsSound
<1>5. CopyInv'
  BY <1>1, <1>2 DEF CopyInv
<1> QED
  BY <1>3, <1>4, <1>5 DEF SnapInv

LEMMA ClearSnaps ==
  ASSUME SnapInv, SnapshotClears
  PROVE  SnapInv'
<1>1. /\ op.do = "clear" /\ op.name \in Names /\ op.name \notin DOMAIN taken
      /\ store' = [store EXCEPT ![op.name] = NoStore]
      /\ op' = [op EXCEPT !.do = "copy", !.todo = SetToSeq(Existing)]
      /\ UNCHANGED <<files, before, taken, deaths>>
  BY DEF SnapshotClears, SnapInv, Shapes, CopyInv
<1>2. SetToSeq(Existing) \in Seq(Paths) /\ ToSet(SetToSeq(Existing)) = Existing
  BY PathsListed DEF Existing
<1>3. /\ op'.do = "copy" /\ op'.name = op.name /\ op'.todo = SetToSeq(Existing)
      /\ DOMAIN op' = {"do", "todo", "done", "name"}
  BY <1>1 DEF SnapInv, Shapes
<1>4. \A n \in Names : n # op.name => store'[n] = store[n]
  BY <1>1
<1>5. store'[op.name] = NoStore
  BY <1>1 DEF SnapInv, Shapes
<1>6. Shapes'
  BY <1>1, <1>2, <1>3, <1>4, <1>5 DEF SnapInv, Shapes, NoStore
<1>7. SnapshotsSound'
  BY <1>1, <1>4 DEF SnapInv, SnapshotsSound, Shapes
<1>8. CopyInv'
  BY <1>1, <1>2, <1>3 DEF CopyInv, Existing
<1> QED
  BY <1>6, <1>7, <1>8 DEF SnapInv

LEMMA CopySnaps ==
  ASSUME SnapInv, SnapshotCopies
  PROVE  SnapInv'
<1> DEFINE q == Head(op.todo)
<1>1. /\ op.do = "copy" /\ op.name \in Names /\ op.name \notin DOMAIN taken
      /\ op.todo # <<>> /\ op.todo \in Seq(Paths)
      /\ store' = [store EXCEPT ![op.name].kept[Backup(q)] = files[q]]
      /\ op' = [op EXCEPT !.todo = Tail(@)]
      /\ UNCHANGED <<files, before, taken, deaths>>
  BY DEF SnapshotCopies, SnapInv, Shapes, CopyInv
<1>2. /\ q \in Paths /\ Tail(op.todo) \in Seq(Paths)
      /\ ToSet(op.todo) = {q} \cup ToSet(Tail(op.todo))
  BY <1>1, HeadAndTail
<1> HIDE DEF q
<1>3. /\ op'.do = "copy" /\ op'.name = op.name /\ op'.todo = Tail(op.todo)
      /\ DOMAIN op' = {"do", "todo", "done", "name"}
  BY <1>1 DEF SnapInv, Shapes
<1>4. \A n \in Names : n # op.name => store'[n] = store[n]
  BY <1>1
<1>5. store'[op.name] = [store[op.name] EXCEPT !.kept[Backup(q)] = files[q]]
  BY <1>1 DEF SnapInv, Shapes
<1>6. /\ DOMAIN store'[op.name] = {"manifest", "kept"}
      /\ store'[op.name].manifest = store[op.name].manifest
      /\ store'[op.name].kept = [store[op.name].kept EXCEPT ![Backup(q)] = files[q]]
  BY <1>1, <1>5 DEF SnapInv, Shapes
<1>7. /\ DOMAIN store'[op.name].kept = BackupNames
      /\ store'[op.name].kept[Backup(q)] = files[q]
      /\ \A p \in Unshared : p # q => store'[op.name].kept[Backup(p)] = store[op.name].kept[Backup(p)]
  BY <1>1, <1>2, <1>6 DEF SnapInv, Shapes, BackupNames, Unshared
<1>8. Shapes'
  BY <1>1, <1>2, <1>3, <1>4, <1>6, <1>7 DEF SnapInv, Shapes
<1>9. SnapshotsSound'
  BY <1>1, <1>4 DEF SnapInv, SnapshotsSound, Shapes
<1>10. CopyInv'
  BY <1>1, <1>2, <1>3, <1>7 DEF SnapInv, CopyInv, Existing
<1> QED
  BY <1>8, <1>9, <1>10 DEF SnapInv

LEMMA EndSnaps ==
  ASSUME SnapInv, SnapshotEnds
  PROVE  SnapInv'
<1>1. /\ op.do = "copy" /\ op.name \in Names /\ op.todo = <<>>
      /\ store' = [store EXCEPT ![op.name].manifest = Existing]
      /\ taken' = [n \in DOMAIN taken \cup {op.name} |->
                    IF n = op.name THEN files ELSE taken[n]]
      /\ op' = Idle /\ UNCHANGED <<files, before, deaths>>
  BY DEF SnapshotEnds, SnapInv, Shapes
<1>2. \A n \in Names : n # op.name => store'[n] = store[n]
  BY <1>1
<1>3. /\ DOMAIN store'[op.name] = {"manifest", "kept"}
      /\ store'[op.name].manifest = Existing
      /\ store'[op.name].kept = store[op.name].kept
  BY <1>1 DEF SnapInv, Shapes
<1>4. \A p \in Existing \cap Unshared : store[op.name].kept[Backup(p)] = files[p]
  BY <1>1, NothingToDo DEF SnapInv, CopyInv
<1>5. Shapes'
  BY <1>1, <1>2, <1>3 DEF SnapInv, Shapes, Idle, Existing
<1>6. SnapshotsSound'
  <2> SUFFICES ASSUME NEW n \in DOMAIN taken'
               PROVE  /\ store'[n].manifest = {p \in Paths : taken'[n][p] # NoFile}
                      /\ \A p \in store'[n].manifest \cap Unshared :
                           store'[n].kept[Backup(p)] = taken'[n][p]
    BY DEF SnapshotsSound
  <2>1. CASE n = op.name
    BY <1>1, <1>3, <1>4, <2>1 DEF Existing
  <2>2. CASE n # op.name
    BY <1>1, <1>2, <2>2 DEF SnapInv, SnapshotsSound, Shapes
  <2> QED
    BY <2>1, <2>2
<1>7. CopyInv'
  BY <1>1 DEF CopyInv, Idle
<1> QED
  BY <1>5, <1>6, <1>7 DEF SnapInv

LEMMA FailSnaps ==
  ASSUME SnapInv, SnapshotFails
  PROVE  SnapInv'
BY FilesOnly DEF SnapshotFails, Idle, SnapInv, Shapes

(* A death forgets what was taken. *)
LEMMA DeathSnaps ==
  ASSUME SnapInv, Die
  PROVE  SnapInv'
<1>1. /\ op' = Idle /\ before' = files' /\ taken' = <<>>
      /\ deaths' = deaths + 1 /\ deaths < MaxDeaths
  BY DEF Die
<1>2. DOMAIN files' = Paths
  BY DEF Die, SnapInv, Shapes
<1>3. UNCHANGED store \/ \E d \in Debris : store' = [store EXCEPT ![op.name] = d]
  BY DEF Die
<1>4. ASSUME op.name \in Names, NEW d \in Debris
      PROVE  /\ DOMAIN d = {"manifest", "kept"} /\ DOMAIN d.kept = BackupNames
             /\ d.manifest = None \/ d.manifest \subseteq Paths
  <2>1. CASE op.do = "clear"
    <3>1. PICK m \in {None, store[op.name].manifest}, left \in SUBSET BackupNames :
            d = [manifest |-> m, kept |-> [b \in BackupNames |->
                   IF b \in left THEN store[op.name].kept[b] ELSE NoFile]]
      BY <2>1 DEF Debris
    <3> QED
      BY <1>4, <3>1 DEF SnapInv, Shapes
  <2>2. CASE op.do # "clear"
    <3>1. d = store[op.name]
      BY <2>2 DEF Debris
    <3> QED
      BY <1>4, <3>1 DEF SnapInv, Shapes
  <2> QED
    BY <2>1, <2>2
<1>5. /\ DOMAIN store' = Names
      /\ \A n \in Names :
           /\ DOMAIN store'[n] = {"manifest", "kept"}
           /\ DOMAIN store'[n].kept = BackupNames
           /\ store'[n].manifest = None \/ store'[n].manifest \subseteq Paths
  BY <1>3, <1>4 DEF SnapInv, Shapes
<1>6. deaths' \in 0..MaxDeaths
  BY <1>1, WorkspaceAssumption DEF SnapInv, Shapes
<1> QED
  BY <1>1, <1>2, <1>5, <1>6 DEF SnapInv, Shapes, SnapshotsSound, CopyInv, Idle

LEMMA SnapInductive == SnapInv /\ [Next]_ws => SnapInv'
<1> SUFFICES ASSUME SnapInv, [Next]_ws PROVE SnapInv'
  OBVIOUS
<1>1. CASE UNCHANGED ws
  BY <1>1 DEF ws, SnapInv, Shapes, SnapshotsSound, CopyInv, Existing
<1>2. CASE Next
  BY <1>2, ApplySnaps, RollbackSnaps, BeginSnaps, ClearSnaps, CopySnaps, EndSnaps,
     FailSnaps, DeathSnaps DEF Next, OpStep
<1> QED
  BY <1>1, <1>2

(* The variables have the types the operations rely on.                      *)
THEOREM TypeCorrect == Spec => []TypeOK
<1>1. SnapInv => TypeOK
  BY DEF SnapInv, Shapes, TypeOK
<1> QED
  BY SnapInit, SnapInductive, <1>1, PTL DEF Spec

(* A snapshot this process has taken and not overwritten is complete and its *)
(* backups are the files as they were, whatever ran, failed or died since.   *)
THEOREM SnapshotsAreSound == Spec => []SnapshotsSound
<1>1. SnapInv => SnapshotsSound
  BY DEF SnapInv
<1> QED
  BY SnapInit, SnapInductive, <1>1, PTL DEF Spec

-----------------------------------------------------------------------------
(* The atomic workspace *)

(* The changes of a list, as they were planned before the first write. *)
Plan(cs, i) == Planned(cs[i], before[cs[i].path])
Plans(cs)   == {Plan(cs, i) : i \in 1..Len(cs)}

(* What the first k changes leave on a path that held `held`. *)
LeftAfter(cs, k, p, held, text) ==
  \/ text = held /\ \A i \in Writes(cs, p, held) : i > k
  \/ \E i \in Writes(cs, p, held) :
       /\ i <= k /\ text = Planned(cs[i], held).next
       /\ \A j \in Writes(cs, p, held) : j <= k => j <= i

PathsIn(ps) == {c.path : c \in ToSet(ps)}

(* The first k changes of cs are done, and can be undone. *)
Applied(cs, k) ==
  /\ k \in 0..Len(cs)
  /\ op.todo = [i \in 1..Len(cs) - k |-> Plan(cs, k + i)]
  /\ op.done \in Seq(Plans(cs))
  /\ \A i \in 1..k : ~ Plan(cs, i).noop => CanWrite(Plan(cs, i))
  /\ \A p \in Unshared : /\ LeftAfter(cs, k, p, before[p], files[p])
                         /\ files[p] = before[p] \/ p \in PathsIn(op.done)

(* All but the rest of the undo is undone; a torn file may stay. *)
Undone(cs) ==
  /\ op.todo \in Seq(Plans(cs))
  /\ \/ \A p \in Unshared : files[p] = before[p] \/ p \in PathsIn(op.todo)
     \/ \E q \in CannotEncode(cs, On(before)) : \A p \in Unshared :
          files[p] = before[p] \/ p \in PathsIn(op.todo) \/ (p = q /\ files[p] = <<>>)

ListInv ==
  /\ op.do = "apply" => \E cs \in Lists : \E k \in 0..Len(cs) : Applied(cs, k)
  /\ op.do = "undo" => \E cs \in Lists : Undone(cs)

(* What a rollback has left to do. *)
BackInv ==
  /\ op.do = "remove" => \A p \in Paths :
       files[p] = NoFile \/ p \in store[op.name].manifest \/ p \in ToSet(op.todo)
  /\ op.do = "restore" =>
       /\ ToSet(op.todo) \subseteq store[op.name].manifest
       /\ \A p \in Unshared : p \in ToSet(op.todo) \/ files[p] = taken[op.name][p]

AtomInv == SnapInv /\ ListInv /\ BackInv

LEMMA UnsharedPaths == Unshared \subseteq Paths
BY DEF Unshared

LEMMA ListBegins ==
  ASSUME SnapInv, NEW cs \in Lists, ApplyBegins(cs)
  PROVE  ListInv' /\ BackInv'
<1>1. /\ op' = [Idle EXCEPT !.do = "apply", !.todo = Pending(cs)]
      /\ before' = files /\ UNCHANGED files
  BY DEF ApplyBegins
<1>2. op'.do = "apply" /\ op'.todo = Pending(cs) /\ op'.done = <<>>
  BY <1>1 DEF Idle
<1>3. Len(cs) \in Nat
  BY WorkspaceAssumption
<1>4. Pending(cs) = [i \in 1..Len(cs) - 0 |-> Plan(cs, 0 + i)]'
  BY <1>1, <1>3 DEF Pending, Plan
<1>5. <<>> \in Seq(Plans(cs)')
  BY EmptySeq
<1>6. \A p, held : LeftAfter(cs, 0, p, held, held)
  BY <1>3 DEF LeftAfter, Writes
<1>7. Applied(cs, 0)'
  <2>1. 0 \in 0..Len(cs) /\ 1..0 = {}
    BY <1>3
  <2>2. \A p \in Unshared : /\ LeftAfter(cs, 0, p, before'[p], files'[p])
                           /\ files'[p] = before'[p]
    BY <1>1, <1>6
  <2>3. op'.todo = [i \in 1..Len(cs) - 0 |-> Plan(cs, 0 + i)]'
    BY <1>2, <1>4
  <2> QED
    BY <1>2, <1>5, <2>1, <2>2, <2>3 DEF Applied
<1> QED
  BY <1>2, <1>3, <1>7 DEF ListInv, BackInv

(* One change more. *)
LEMMA LeftNext ==
  ASSUME NEW cs \in Lists, NEW k \in 0..Len(cs) - 1, NEW p, NEW held, NEW text,
         LeftAfter(cs, k, p, held, text)
  PROVE  IF k + 1 \in Writes(cs, p, held)
         THEN LeftAfter(cs, k + 1, p, held, Planned(cs[k + 1], held).next)
         ELSE LeftAfter(cs, k + 1, p, held, text)
<1> DEFINE W == Writes(cs, p, held)
<1>1. W \subseteq Int
  BY DEF Writes
<1>2. k \in Int
  BY WorkspaceAssumption
<1>3. CASE k + 1 \in W
  BY <1>1, <1>2, <1>3 DEF LeftAfter
<1>4. CASE k + 1 \notin W
  <2>1. \A i \in W : i <= k + 1 => i <= k
    BY <1>1, <1>2, <1>4
  <2>2. \A i \in W : i > k => i > k + 1
    BY <1>1, <1>2, <1>4
  <2>3. \A i \in W : i <= k => i <= k + 1
    BY <1>1, <1>2
  <2> HIDE DEF W
  <2> QED
    BY <1>4, <2>1, <2>2, <2>3 DEF LeftAfter, W
<1> QED
  BY <1>3, <1>4

LEMMA NextOf ==
  ASSUME NEW cs \in Lists, NEW k \in 0..Len(cs), Applied(cs, k), op.todo # <<>>
  PROVE  /\ k + 1 \in 1..Len(cs) /\ k \in 0..Len(cs) - 1
         /\ Head(op.todo) = Plan(cs, k + 1) /\ Plan(cs, k + 1) \in Plans(cs)
         /\ Tail(op.todo) = [i \in 1..Len(cs) - (k + 1) |-> Plan(cs, k + 1 + i)]
<1> DEFINE n == Len(cs) - k
           todo == [i \in 1..n |-> Plan(cs, k + i)]
<1>1. Len(cs) \in Nat /\ n \in Nat
  BY WorkspaceAssumption
<1>2. op.todo = todo
  BY DEF Applied
<1>3. \A i \in 1..n : k + i \in 1..Len(cs)
  BY <1>1
<1>4. todo \in [1..n -> Plans(cs)]
  BY <1>3 DEF Plans
<1>5. n # 0
  BY <1>1, <1>2
<1> HIDE DEF todo
<1>6. todo \in Seq(Plans(cs)) /\ Len(todo) = n
  BY <1>1, <1>4
<1>7. /\ Head(todo) = todo[1] /\ Tail(todo) \in Seq(Plans(cs))
      /\ Len(Tail(todo)) = n - 1 /\ \A i \in 1..n - 1 : Tail(todo)[i] = todo[i + 1]
  BY <1>1, <1>2, <1>6, HeadTailProperties
<1> DEFINE rest == [i \in 1..Len(cs) - (k + 1) |-> Plan(cs, k + 1 + i)]
<1>8. n - 1 \in Nat /\ Len(cs) - (k + 1) = n - 1
  BY <1>1, <1>5
<1>9. /\ todo[1] = Plan(cs, k + 1)
      /\ \A i \in 1..n - 1 : todo[i + 1] = Plan(cs, k + 1 + i) /\ k + 1 + i \in 1..Len(cs)
  BY <1>1, <1>5 DEF todo
<1>10. rest \in Seq(Plans(cs)) /\ Len(rest) = n - 1
       /\ \A i \in 1..n - 1 : rest[i] = todo[i + 1]
  <2>1. rest \in [1..n - 1 -> Plans(cs)]
    BY <1>8, <1>9 DEF Plans
  <2>2. \A i \in 1..n - 1 : rest[i] = todo[i + 1]
    BY <1>8, <1>9
  <2> HIDE DEF rest, n
  <2> QED
    BY <1>8, <2>1, <2>2
<1>11. Tail(todo) = rest
  <2> HIDE DEF rest, n
  <2> QED
    BY <1>7, <1>10, SeqEqual
<1>12. k + 1 \in 1..Len(cs) /\ k \in 0..Len(cs) - 1
  BY <1>1, <1>5
<1> QED
  BY <1>2, <1>7, <1>9, <1>11, <1>12 DEF Plans

LEMMA ListNext ==
  ASSUME SnapInv, ListInv, ApplyNext
  PROVE  ListInv' /\ BackInv'
<1>1. /\ op.do = "apply" /\ op.todo # <<>>
      /\ UNCHANGED before
  BY DEF ApplyNext
<1>2. PICK cs \in Lists : \E k \in 0..Len(cs) : Applied(cs, k)
  BY <1>1 DEF ListInv
<1>3. PICK k \in 0..Len(cs) : Applied(cs, k)
  BY <1>2
<1> DEFINE c == Plan(cs, k + 1)
<1>4. /\ k + 1 \in 1..Len(cs) /\ k \in 0..Len(cs) - 1
      /\ Head(op.todo) = c /\ c \in Plans(cs)
      /\ Tail(op.todo) = [i \in 1..Len(cs) - (k + 1) |-> Plan(cs, k + 1 + i)]
  BY <1>1, <1>3, NextOf
<1>5. /\ c.noop \/ (CanOpen(c) /\ CanWrite(c))
      /\ files' = IF c.noop THEN files ELSE [files EXCEPT ![c.path] = c.next]
      /\ op' = [op EXCEPT !.todo = Tail(@), !.done = IF c.noop THEN @ ELSE <<c>> \o @]
  BY <1>4 DEF ApplyNext
<1>6. /\ op'.do = "apply" /\ op'.todo = Tail(op.todo)
      /\ op'.done = IF c.noop THEN op.done ELSE <<c>> \o op.done
  BY <1>1, <1>5 DEF SnapInv, Shapes
<1>7. c.path = cs[k + 1].path /\ c = Planned(cs[k + 1], before[c.path])
  BY DEF Plan, Planned
<1>8. op.done \in Seq(Plans(cs))
  BY <1>3 DEF Applied
<1> HIDE DEF c
<1>9. op'.done \in Seq(Plans(cs)) /\ (~ c.noop => c.path \in PathsIn(op'.done))
      /\ PathsIn(op.done) \subseteq PathsIn(op'.done)
  <2> DEFINE more == <<c>> \o op.done
  <2>1. <<c>> \in Seq(Plans(cs)) /\ Len(<<c>>) = 1 /\ <<c>>[1] = c
    BY <1>4
  <2>2. /\ more \in Seq(Plans(cs)) /\ Len(more) = 1 + Len(op.done)
        /\ \A i \in 1..1 + Len(op.done) :
             more[i] = IF i <= 1 THEN <<c>>[i] ELSE op.done[i - 1]
    BY <1>8, <2>1, ConcatProperties
  <2> HIDE DEF more
  <2>3. Len(op.done) \in Nat /\ DOMAIN op.done = 1..Len(op.done)
        /\ DOMAIN more = 1..1 + Len(op.done)
    BY <1>8, <2>2, LenProperties
  <2>4. c \in ToSet(more)
    BY <2>1, <2>2, <2>3 DEF ToSet
  <2>5. \A i \in 1..Len(op.done) : i + 1 \in DOMAIN more /\ more[i + 1] = op.done[i]
    BY <2>2, <2>3
  <2>6. ToSet(op.done) \subseteq ToSet(more)
    BY <2>3, <2>5 DEF ToSet
  <2> QED
    BY <1>6, <1>8, <2>2, <2>4, <2>6 DEF PathsIn, more
<1>10. \A p \in Unshared : k + 1 \in Writes(cs, p, before[p]) <=> p = c.path /\ ~ c.noop
  BY <1>4, <1>7 DEF Writes
<1>11. ASSUME NEW p \in Unshared
       PROVE  /\ LeftAfter(cs, k + 1, p, before[p], files'[p])
              /\ files'[p] = before[p] \/ p \in PathsIn(op'.done)
  <2>1. /\ LeftAfter(cs, k, p, before[p], files[p])
        /\ files[p] = before[p] \/ p \in PathsIn(op.done)
    BY <1>3 DEF Applied
  <2>2. p \in DOMAIN files
    BY UnsharedPaths DEF SnapInv, Shapes
  <2>3. CASE p = c.path /\ ~ c.noop
    BY <1>4, <1>5, <1>7, <1>9, <1>10, <2>1, <2>2, <2>3, LeftNext
  <2>4. CASE ~ (p = c.path /\ ~ c.noop)
    <3>1. files'[p] = files[p]
      BY <1>5, <2>4
    <3> QED
      BY <1>4, <1>9, <1>10, <2>1, <2>4, <3>1, LeftNext
  <2> QED
    BY <2>3, <2>4
<1>12. \A i \in 1..k + 1 : ~ Plan(cs, i).noop => CanWrite(Plan(cs, i))
  <2>1. \A i \in 1..k : ~ Plan(cs, i).noop => CanWrite(Plan(cs, i))
    BY <1>3 DEF Applied
  <2>2. \A i \in 1..k + 1 : i \in 1..k \/ i = k + 1
    BY WorkspaceAssumption
  <2> QED
    BY <1>5, <2>1, <2>2 DEF c
<1>13. \A i : Plan(cs, i)' = Plan(cs, i)
  BY <1>1 DEF Plan
<1>14. Plans(cs)' = Plans(cs)
  BY <1>1 DEF Plans, Plan
<1>15. k + 1 \in 0..Len(cs)
  BY <1>4
<1>16. Applied(cs, k + 1)'
  BY <1>1, <1>4, <1>6, <1>9, <1>11, <1>12, <1>13, <1>14, <1>15 DEF Applied, PathsIn
<1> QED
  BY <1>6, <1>15, <1>16 DEF ListInv, BackInv

(* A change that fails may tear its file: then it is one nobody can encode. *)
LEMMA ListFails ==
  ASSUME SnapInv, ListInv, ApplyFails
  PROVE  ListInv' /\ BackInv'
<1>1. /\ op.do = "apply" /\ op.todo # <<>>
      /\ op' = [op EXCEPT !.do = "undo", !.todo = op.done]
      /\ UNCHANGED before
  BY DEF ApplyFails
<1>2. PICK cs \in Lists : \E k \in 0..Len(cs) : Applied(cs, k)
  BY <1>1 DEF ListInv
<1>3. PICK k \in 0..Len(cs) : Applied(cs, k)
  BY <1>2
<1> DEFINE c == Plan(cs, k + 1)
<1>4. k + 1 \in 1..Len(cs) /\ Head(op.todo) = c
  BY <1>1, <1>3, NextOf
<1>5. /\ ~ c.noop /\ ~ (CanOpen(c) /\ CanWrite(c))
      /\ files' = IF CanOpen(c) THEN [files EXCEPT ![c.path] = <<>>] ELSE files
  BY <1>4 DEF ApplyFails
<1>6. op'.do = "undo" /\ op'.todo = op.done
  BY <1>1 DEF SnapInv, Shapes
<1>7. c.path = cs[k + 1].path /\ c = Planned(cs[k + 1], before[c.path])
  BY DEF Plan, Planned
<1> HIDE DEF c
<1>8. op.done \in Seq(Plans(cs))
      /\ \A p \in Unshared : files[p] = before[p] \/ p \in PathsIn(op.done)
  BY <1>3 DEF Applied
<1>9. CanOpen(c) /\ c.path \in Unshared => c.path \in CannotEncode(cs, On(before))
  <2> SUFFICES ASSUME CanOpen(c), c.path \in Unshared
               PROVE  c.path \in CannotEncode(cs, On(before))
    OBVIOUS
  <2>1. On(before)[c.path] = before[c.path]
    BY DEF On
  <2>2. k + 1 \in Writes(cs, c.path, before[c.path])
    BY <1>4, <1>5, <1>7 DEF Writes
  <2>3. ~ CanWrite(Planned(cs[k + 1], before[c.path]))
    BY <1>5, <1>7
  <2> QED
    BY <2>1, <2>2, <2>3 DEF CannotEncode
<1>10. Plans(cs)' = Plans(cs) /\ CannotEncode(cs, On(before))' = CannotEncode(cs, On(before))
  BY <1>1 DEF Plans, Plan, CannotEncode, On, Writes
<1>11. \/ \A p \in Unshared : files'[p] = before[p] \/ p \in PathsIn(op.done)
       \/ \E q \in CannotEncode(cs, On(before)) : \A p \in Unshared :
            files'[p] = before[p] \/ p \in PathsIn(op.done) \/ (p = q /\ files'[p] = <<>>)
  <2>1. CASE CanOpen(c) /\ c.path \in Unshared
    <3>1. \A p \in Unshared : files'[p] = files[p] \/ (p = c.path /\ files'[p] = <<>>)
      BY <1>5, <2>1, UnsharedPaths DEF SnapInv, Shapes
    <3> QED
      BY <1>8, <1>9, <2>1, <3>1
  <2>2. CASE ~ (CanOpen(c) /\ c.path \in Unshared)
    <3>1. \A p \in Unshared : files'[p] = files[p]
      BY <1>5, <2>2
    <3> QED
      BY <1>8, <3>1
  <2> QED
    BY <2>1, <2>2
<1>12. Undone(cs)'
  BY <1>1, <1>6, <1>8, <1>10, <1>11 DEF Undone, PathsIn
<1> QED
  BY <1>6, <1>12 DEF ListInv, BackInv

LEMMA ListUndo ==
  ASSUME SnapInv, ListInv, UndoNext
  PROVE  ListInv' /\ BackInv'
<1> DEFINE c == Head(op.todo)
<1>1. /\ op.do = "undo" /\ op.todo # <<>>
      /\ files' = [files EXCEPT ![c.path] = c.held]
      /\ op' = [op EXCEPT !.todo = Tail(@)]
      /\ UNCHANGED before
  BY DEF UndoNext
<1>2. PICK cs \in Lists : Undone(cs)
  BY <1>1 DEF ListInv
<1>3. op.todo \in Seq(Plans(cs))
  BY <1>2 DEF Undone
<1>4. /\ c \in Plans(cs) /\ Tail(op.todo) \in Seq(Plans(cs))
      /\ ToSet(op.todo) = {c} \cup ToSet(Tail(op.todo))
  BY <1>1, <1>3, HeadAndTail
<1>5. c.held = before[c.path]
  <2>1. PICK i \in 1..Len(cs) : c = Plan(cs, i)
    BY <1>4 DEF Plans
  <2>2. Plan(cs, i).held = before[cs[i].path] /\ Plan(cs, i).path = cs[i].path
    BY DEF Plan, Planned
  <2> HIDE DEF c
  <2> QED
    BY <2>1, <2>2
<1> HIDE DEF c
<1>6. op'.do = "undo" /\ op'.todo = Tail(op.todo)
  BY <1>1 DEF SnapInv, Shapes
<1>7. \A p : p \in PathsIn(op.todo) => p = c.path \/ p \in PathsIn(Tail(op.todo))
  BY <1>4 DEF PathsIn
<1>8. \A p \in Unshared : files'[p] = (IF p = c.path THEN before[p] ELSE files[p])
  BY <1>1, <1>5, UnsharedPaths DEF SnapInv, Shapes
<1>9. Plans(cs)' = Plans(cs) /\ CannotEncode(cs, On(before))' = CannotEncode(cs, On(before))
  BY <1>1 DEF Plans, Plan, CannotEncode, On, Writes
<1>10. \/ \A p \in Unshared : files'[p] = before[p] \/ p \in PathsIn(Tail(op.todo))
       \/ \E q \in CannotEncode(cs, On(before)) : \A p \in Unshared :
            files'[p] = before[p] \/ p \in PathsIn(Tail(op.todo)) \/ (p = q /\ files'[p] = <<>>)
  <2>1. CASE \A p \in Unshared : files[p] = before[p] \/ p \in PathsIn(op.todo)
    BY <1>7, <1>8, <2>1
  <2>2. ASSUME NEW q \in CannotEncode(cs, On(before)),
               \A p \in Unshared :
                 files[p] = before[p] \/ p \in PathsIn(op.todo) \/ (p = q /\ files[p] = <<>>)
        PROVE  \A p \in Unshared :
                 \/ files'[p] = before[p] \/ p \in PathsIn(Tail(op.todo))
                 \/ (p = q /\ files'[p] = <<>>)
    BY <1>7, <1>8, <2>2
  <2> QED
    BY <1>2, <2>1, <2>2 DEF Undone
<1>11. Undone(cs)'
  BY <1>1, <1>4, <1>6, <1>9, <1>10 DEF Undone, PathsIn
<1> QED
  BY <1>6, <1>11 DEF ListInv, BackInv

LEMMA BackBegins ==
  ASSUME SnapInv, NEW n \in Names, RollbackBegins(n)
  PROVE  ListInv' /\ BackInv'
<1>1. /\ op' = [Idle EXCEPT !.do = "remove", !.name = n,
                 !.todo = SetToSeq(Existing \ store[n].manifest)]
      /\ UNCHANGED <<files, store>>
  BY DEF RollbackBegins
<1>2. /\ op'.do = "remove" /\ op'.name = n
      /\ op'.todo = SetToSeq(Existing \ store[n].manifest)
  BY <1>1 DEF Idle
<1>3. ToSet(op'.todo) = Existing \ store[n].manifest
  BY <1>2, PathsListed DEF Existing
<1> QED
  BY <1>1, <1>2, <1>3 DEF ListInv, BackInv, Existing

LEMMA BackDeletes ==
  ASSUME SnapInv, BackInv, RollbackDeletes
  PROVE  ListInv' /\ BackInv'
<1>1. /\ op.do = "remove" /\ op.todo # <<>> /\ op.todo \in Seq(Paths)
      /\ files' = [files EXCEPT ![Head(op.todo)] = NoFile]
      /\ op' = [op EXCEPT !.todo = Tail(@)] /\ UNCHANGED store
  BY DEF RollbackDeletes, SnapInv, Shapes
<1>2. ToSet(op.todo) = {Head(op.todo)} \cup ToSet(Tail(op.todo))
  BY <1>1, HeadAndTail
<1>3. op'.do = "remove" /\ op'.name = op.name /\ op'.todo = Tail(op.todo)
  BY <1>1 DEF SnapInv, Shapes
<1> QED
  BY <1>1, <1>2, <1>3 DEF SnapInv, Shapes, ListInv, BackInv

LEMMA BackTurns ==
  ASSUME SnapInv, BackInv, RollbackTurns
  PROVE  ListInv' /\ BackInv'
<1> DEFINE manifest == store[op.name].manifest
<1>1. /\ op.do = "remove" /\ op.todo = <<>>
      /\ op' = [op EXCEPT !.do = "restore", !.todo = SetToSeq(manifest)]
      /\ UNCHANGED <<files, store, taken>>
  BY DEF RollbackTurns
<1>2. /\ op.name \in DOMAIN taken
      /\ manifest = {p \in Paths : taken[op.name][p] # NoFile}
  BY <1>1 DEF SnapInv, CopyInv, SnapshotsSound
<1>3. ToSet(SetToSeq(manifest)) = manifest
  BY <1>2, PathsListed
<1>4. /\ op'.do = "restore" /\ op'.name = op.name
      /\ op'.todo = SetToSeq(manifest)
  BY <1>1 DEF SnapInv, Shapes
<1>5. \A p \in Unshared : p \in manifest \/ files[p] = taken[op.name][p]
  BY <1>1, <1>2, NothingToDo, UnsharedPaths DEF BackInv
<1> HIDE DEF manifest
<1>6. manifest = store'[op'.name].manifest
  BY <1>1, <1>4 DEF manifest
<1> QED
  BY <1>1, <1>3, <1>4, <1>5, <1>6 DEF ListInv, BackInv

LEMMA BackWrites ==
  ASSUME SnapInv, BackInv, RollbackWrites
  PROVE  ListInv' /\ BackInv'
<1> DEFINE q == Head(op.todo)
<1>1. /\ op.do = "restore" /\ op.todo # <<>> /\ op.todo \in Seq(Paths)
      /\ files' = [files EXCEPT ![q] = store[op.name].kept[Backup(q)]]
      /\ op' = [op EXCEPT !.todo = Tail(@)] /\ UNCHANGED <<store, taken>>
  BY DEF RollbackWrites, SnapInv, Shapes
<1>2. q \in Paths /\ ToSet(op.todo) = {q} \cup ToSet(Tail(op.todo))
  BY <1>1, HeadAndTail
<1> HIDE DEF q
<1>3. op'.do = "restore" /\ op'.name = op.name /\ op'.todo = Tail(op.todo)
  BY <1>1 DEF SnapInv, Shapes
<1>4. /\ ToSet(op.todo) \subseteq store[op.name].manifest
      /\ \A p \in Unshared : p \in ToSet(op.todo) \/ files[p] = taken[op.name][p]
  BY <1>1 DEF BackInv
<1>5. q \in Unshared => store[op.name].kept[Backup(q)] = taken[op.name][q]
  BY <1>1, <1>2, <1>4 DEF SnapInv, CopyInv, SnapshotsSound
<1>6. \A p \in Unshared : p \in ToSet(op'.todo) \/ files'[p] = taken[op.name][p]
  BY <1>1, <1>2, <1>3, <1>4, <1>5 DEF SnapInv, Shapes
<1> QED
  BY <1>1, <1>2, <1>3, <1>4, <1>6 DEF ListInv, BackInv

(* The other operations have no list and no rollback under way. *)
LEMMA OtherOps ==
  ASSUME SnapInv,
         \/ Ends \/ Die \/ SnapshotClears \/ SnapshotCopies \/ SnapshotFails \/ SnapshotEnds
         \/ \E n \in Names : SnapshotBegins(n)
  PROVE  ListInv' /\ BackInv'
<1>1. CASE Ends \/ Die \/ SnapshotFails \/ SnapshotEnds
  BY <1>1 DEF Ends, Die, SnapshotFails, SnapshotEnds, Idle, ListInv, BackInv
<1>2. CASE SnapshotClears
  BY <1>2 DEF SnapshotClears, SnapInv, Shapes, ListInv, BackInv
<1>3. CASE SnapshotCopies
  BY <1>3 DEF SnapshotCopies, SnapInv, Shapes, ListInv, BackInv
<1>4. ASSUME NEW n \in Names, SnapshotBegins(n)
      PROVE  ListInv' /\ BackInv'
  BY <1>4 DEF SnapshotBegins, Idle, ListInv, BackInv
<1> QED
  BY <1>1, <1>2, <1>3, <1>4

LEMMA AtomInit == Init => AtomInv
BY SnapInit DEF AtomInv, ListInv, BackInv, Init, Idle

LEMMA AtomInductive == AtomInv /\ [Next]_ws => AtomInv'
<1> SUFFICES ASSUME AtomInv, [Next]_ws PROVE AtomInv'
  OBVIOUS
<1>1. SnapInv'
  BY SnapInductive DEF AtomInv
<1>2. CASE UNCHANGED ws
  <2>1. UNCHANGED <<files, store, op, before, taken, deaths>>
    BY <1>2 DEF ws
  <2>2. \A cs : Plans(cs)' = Plans(cs)
    BY <2>1 DEF Plans, Plan
  <2>3. ASSUME NEW cs, NEW k, Applied(cs, k) PROVE Applied(cs, k)'
    BY <2>1, <2>2, <2>3 DEF Applied, Plan, PathsIn
  <2>4. ASSUME NEW cs, Undone(cs) PROVE Undone(cs)'
    BY <2>1, <2>2, <2>4 DEF Undone, PathsIn, CannotEncode, On, Writes
  <2>5. ListInv'
    BY <2>1, <2>3, <2>4 DEF AtomInv, ListInv
  <2>6. BackInv'
    BY <2>1 DEF AtomInv, BackInv
  <2> QED
    BY <1>1, <2>5, <2>6 DEF AtomInv
<1>3. CASE Next
  BY <1>1, <1>3, ListBegins, ListNext, ListFails, ListUndo, BackBegins, BackDeletes,
     BackTurns, BackWrites, OtherOps DEF Next, OpStep, AtomInv
<1> QED
  BY <1>2, <1>3

Saved == [n \in DOMAIN taken |-> On(taken[n])]

AtomicStep == [Atomic!Next]_<<On(Visible), Saved, deaths>>

(* Inside an operation the atomic workspace does not move. *)
LEMMA Inside ==
  ASSUME SnapInv,
         \/ \E cs \in Lists : ApplyBegins(cs)
         \/ ApplyNext \/ ApplyFails \/ UndoNext
         \/ SnapshotClears \/ SnapshotCopies \/ SnapshotFails
         \/ \E n \in Names : RollbackBegins(n)
         \/ RollbackDeletes \/ RollbackTurns \/ RollbackWrites
  PROVE  AtomicStep
<1> DEFINE Moving == {"apply", "undo", "remove", "restore"}
<1>1. ASSUME NEW cs \in Lists, ApplyBegins(cs) PROVE Visible' = Visible
  BY <1>1 DEF ApplyBegins, Visible, Idle
<1>2. ASSUME op.do \in Moving, op'.do \in Moving, UNCHANGED before
      PROVE  Visible' = Visible
  BY <1>2 DEF Visible
<1>3. ASSUME op.do \notin Moving, op'.do \notin Moving, UNCHANGED files
      PROVE  Visible' = Visible
  BY <1>3 DEF Visible
<1>4. ASSUME ApplyNext \/ ApplyFails \/ UndoNext PROVE Visible' = Visible
  <2>1. op.do \in Moving /\ op'.do \in Moving /\ UNCHANGED before
    BY <1>4 DEF ApplyNext, ApplyFails, UndoNext, SnapInv, Shapes
  <2> QED
    BY <1>2, <2>1
<1>5. ASSUME SnapshotClears \/ SnapshotCopies \/ SnapshotFails PROVE Visible' = Visible
  <2>1. op.do \in {"clear", "copy"} /\ op'.do \in {"idle", "copy"} /\ UNCHANGED files
    <3>1. CASE SnapshotClears
      BY <3>1 DEF SnapshotClears, SnapInv, Shapes
    <3>2. CASE SnapshotCopies
      BY <3>2 DEF SnapshotCopies, SnapInv, Shapes
    <3>3. CASE SnapshotFails
      BY <3>3 DEF SnapshotFails, Idle
    <3> QED
      BY <1>5, <3>1, <3>2, <3>3
  <2> QED
    BY <1>3, <2>1
<1>6. ASSUME NEW n \in Names, RollbackBegins(n) PROVE Visible' = Visible
  BY <1>6 DEF RollbackBegins, Visible, Idle
<1>7. ASSUME RollbackDeletes \/ RollbackTurns \/ RollbackWrites PROVE Visible' = Visible
  <2>1. op.do \in Moving /\ op'.do \in Moving /\ UNCHANGED before
    BY <1>7 DEF RollbackDeletes, RollbackTurns, RollbackWrites, SnapInv, Shapes
  <2> QED
    BY <1>2, <2>1
<1>8. UNCHANGED <<taken, deaths>>
  BY DEF ApplyBegins, ApplyNext, ApplyFails, UndoNext, SnapshotClears, SnapshotCopies,
         SnapshotFails, RollbackBegins, RollbackDeletes, RollbackTurns, RollbackWrites
<1>9. Visible' = Visible
  BY <1>1, <1>4, <1>5, <1>6, <1>7
<1> QED
  BY <1>8, <1>9 DEF AtomicStep, On, Saved

(* A list that is done has left on every path what its last change leaves. *)
LEMMA ListApplied ==
  ASSUME AtomInv, Ends, op.do = "apply"
  PROVE  \E cs \in Lists : Atomic!Apply(cs)
<1>1. /\ op.todo = <<>> /\ op' = Idle /\ UNCHANGED <<files, taken, deaths>>
  BY DEF Ends
<1>2. PICK cs \in Lists : \E k \in 0..Len(cs) : Applied(cs, k)
  BY DEF AtomInv, ListInv
<1>3. PICK k \in 0..Len(cs) : Applied(cs, k)
  BY <1>2
<1>4. Len(cs) \in Nat
  BY WorkspaceAssumption
<1>5. k = Len(cs)
  <2>1. op.todo = [i \in 1..Len(cs) - k |-> Plan(cs, k + i)]
    BY <1>3 DEF Applied
  <2>2. 1..Len(cs) - k = {}
    BY <1>1, <2>1
  <2>3. Len(cs) - k \in Nat /\ k \in Nat
    BY <1>4
  <2>4. Len(cs) - k = 0
    <3>1. \A m \in Nat : 1..m = {} => m = 0
      OBVIOUS
    <3> QED
      BY ONLY <2>2, <2>3, <3>1
  <2> QED
    BY <1>4, <2>3, <2>4
<1>6. Visible = before /\ Visible' = files
  BY <1>1 DEF Visible, Idle
<1>7. ASSUME NEW p \in Unshared
      PROVE  files[p] = Leaves(cs, p, before[p])
  <2> DEFINE W == Writes(cs, p, before[p])
  <2>1. LeftAfter(cs, Len(cs), p, before[p], files[p])
    BY <1>3, <1>5 DEF Applied
  <2>2. W \subseteq 1..Len(cs)
    BY DEF Writes
  <2>3. CASE W = {}
    BY <2>1, <2>3 DEF LeftAfter, Leaves
  <2>4. CASE W # {}
    <3>1. PICK i \in W : /\ files[p] = Planned(cs[i], before[p]).next
                         /\ \A j \in W : j <= Len(cs) => j <= i
      BY <1>4, <2>1, <2>2, <2>4 DEF LeftAfter
    <3> HIDE DEF W
    <3>2. \A j \in W : i >= j
      BY <1>4, <2>2, <3>1
    <3>3. Max(W) = i
      <4>1. Max(W) \in W /\ \A j \in W : Max(W) >= j
        BY <3>2 DEF Max
      <4>2. \A x, y \in W : x >= y /\ y >= x => x = y
        BY <1>4, <2>2
      <4> QED
        BY <3>2, <4>1, <4>2
    <3> QED
      BY <2>4, <3>1, <3>3 DEF Leaves, W
  <2> QED
    BY <2>3, <2>4
<1>8. ASSUME NEW p \in Unshared, p \notin Touches(cs)
      PROVE  Leaves(cs, p, before[p]) = before[p]
  <2>1. Writes(cs, p, before[p]) = {}
    BY <1>8 DEF Touches, Writes
  <2> QED
    BY <2>1 DEF Leaves
<1>9. CannotEncode(cs, On(before)) = {}
  <2> SUFFICES ASSUME NEW p \in Unshared, NEW i \in Writes(cs, p, On(before)[p]),
                      ~ CanWrite(Planned(cs[i], On(before)[p]))
               PROVE  FALSE
    BY DEF CannotEncode
  <2>1. On(before)[p] = before[p]
    BY DEF On
  <2>2. i \in 1..Len(cs) /\ Planned(cs[i], before[p]) = Plan(cs, i) /\ ~ Plan(cs, i).noop
    BY <2>1 DEF Writes, Plan
  <2>3. CanWrite(Plan(cs, i))
    BY <1>3, <1>5, <2>2 DEF Applied
  <2> QED
    BY <2>1, <2>2, <2>3
<1>10. On(files) = [p \in Unshared |-> IF p \in Touches(cs)
                                       THEN Leaves(cs, p, On(before)[p])
                                       ELSE On(before)[p]]
  BY <1>7, <1>8 DEF On
<1>11. On(Visible)' = On(files) /\ Saved' = Saved
  BY <1>1, <1>6 DEF On, Saved
<1>12. Atomic!Apply(cs)
  BY <1>1, <1>6, <1>9, <1>10, <1>11 DEF Atomic!Apply, Saved
<1> QED
  BY <1>12

(* A list that failed has left everything as it was, or torn one file. *)
LEMMA ListUndone ==
  ASSUME AtomInv, Ends, op.do = "undo"
  PROVE  AtomicStep
<1>1. /\ op.todo = <<>> /\ op' = Idle /\ UNCHANGED <<files, taken, deaths>>
  BY DEF Ends
<1>2. PICK cs \in Lists : Undone(cs)
  BY DEF AtomInv, ListInv
<1>3. Visible = before /\ Visible' = files
  BY <1>1 DEF Visible, Idle
<1>4. PathsIn(op.todo) = {}
  BY <1>1, NothingToDo DEF PathsIn
<1>5. On(Visible)' = On(files) /\ Saved' = Saved
  BY <1>1, <1>3 DEF On, Saved
<1>6. CASE \A p \in Unshared : files[p] = before[p] \/ p \in PathsIn(op.todo)
  <2>1. On(files) = On(before)
    BY <1>4, <1>6 DEF On
  <2> QED
    BY <1>1, <1>3, <1>5, <2>1 DEF AtomicStep
<1>7. CASE \E q \in CannotEncode(cs, On(before)) : \A p \in Unshared :
             files[p] = before[p] \/ p \in PathsIn(op.todo) \/ (p = q /\ files[p] = <<>>)
  <2>1. PICK q \in CannotEncode(cs, On(before)) :
          \A p \in Unshared : files[p] = before[p] \/ (p = q /\ files[p] = <<>>)
    BY <1>4, <1>7
  <2>2. CASE files[q] = before[q]
    <3>1. On(files) = On(before)
      BY <2>1, <2>2 DEF On
    <3> QED
      BY <1>1, <1>3, <1>5, <3>1 DEF AtomicStep
  <2>3. CASE files[q] # before[q]
    <3>1. q \in Unshared
      BY DEF CannotEncode
    <3>2. On(files) = [On(before) EXCEPT ![q] = <<>>]
      BY <2>1, <2>3, <3>1 DEF On
    <3>3. Atomic!Tear(cs)
      BY <1>1, <1>3, <1>5, <2>1, <3>2 DEF Atomic!Tear, Saved
    <3> QED
      BY <3>3 DEF AtomicStep, Atomic!Next
  <2> QED
    BY <2>2, <2>3
<1> QED
  BY <1>2, <1>6, <1>7 DEF Undone

LEMMA RolledBack ==
  ASSUME AtomInv, Ends, op.do = "restore"
  PROVE  \E n \in Names : Atomic!Restore(n)
<1>1. /\ op.todo = <<>> /\ op' = Idle /\ UNCHANGED <<files, taken, deaths>>
  BY DEF Ends
<1>2. op.name \in DOMAIN taken /\ op.name \in Names
  BY DEF AtomInv, SnapInv, CopyInv, Shapes
<1>3. \A p \in Unshared : files[p] = taken[op.name][p]
  BY <1>1, NothingToDo DEF AtomInv, BackInv
<1>4. Visible' = files
  BY <1>1 DEF Visible, Idle
<1>5. On(Visible)' = On(files) /\ Saved' = Saved
  BY <1>1, <1>4 DEF On, Saved
<1>6. On(files) = Saved[op.name] /\ op.name \in DOMAIN Saved
  BY <1>2, <1>3 DEF On, Saved
<1>7. Atomic!Restore(op.name)
  BY <1>1, <1>5, <1>6 DEF Atomic!Restore, Saved
<1> QED
  BY <1>2, <1>7

LEMMA SnapshotSteps ==
  ASSUME SnapInv
  PROVE  /\ \A n \in Names : SnapshotBegins(n) => Atomic!Forget(n)
         /\ SnapshotEnds => Atomic!Save(op.name) /\ op.name \in Names
         /\ Die => Atomic!Die
<1>1. ASSUME NEW n \in Names, SnapshotBegins(n) PROVE Atomic!Forget(n)
  <2>1. Visible' = Visible /\ UNCHANGED deaths
    BY <1>1 DEF SnapshotBegins, Visible, Idle
  <2>2. taken' = [m \in DOMAIN taken \ {n} |-> taken[m]]
    BY <1>1 DEF SnapshotBegins
  <2>3. Saved' = [m \in DOMAIN Saved \ {n} |-> Saved[m]]
    BY <2>2 DEF Saved, On
  <2>4. On(Visible)' = On(Visible)
    BY <2>1 DEF On
  <2> QED
    BY <2>1, <2>3, <2>4 DEF Atomic!Forget, Saved
<1>2. ASSUME SnapshotEnds PROVE Atomic!Save(op.name) /\ op.name \in Names
  <2>1. op.do = "copy" /\ op.name \in Names /\ op' = Idle /\ UNCHANGED <<files, deaths>>
    BY <1>2 DEF SnapshotEnds, SnapInv, Shapes
  <2>2. Visible = files /\ Visible' = files
    BY <2>1 DEF Visible, Idle
  <2>3. taken' = [n \in DOMAIN taken \cup {op.name} |->
                  IF n = op.name THEN files ELSE taken[n]]
    BY <1>2 DEF SnapshotEnds
  <2>4. Saved' = [n \in DOMAIN Saved \cup {op.name} |->
                  IF n = op.name THEN On(Visible) ELSE Saved[n]]
    BY <2>2, <2>3 DEF Saved, On
  <2>5. On(Visible)' = On(Visible)
    BY <2>1, <2>2 DEF On
  <2> QED
    BY <2>1, <2>4, <2>5 DEF Atomic!Save, Saved
<1>3. ASSUME Die PROVE Atomic!Die
  <2>1. taken' = <<>> /\ deaths' = deaths + 1
    BY <1>3 DEF Die
  <2>2. Saved' = <<>>
    BY <2>1 DEF Saved
  <2> QED
    BY <2>1, <2>2 DEF Atomic!Die, Saved
<1> QED
  BY <1>1, <1>2, <1>3

LEMMA StepImplements == AtomInv /\ [Next]_ws => AtomicStep
<1> SUFFICES ASSUME AtomInv, [Next]_ws PROVE AtomicStep
  OBVIOUS
<1>1. SnapInv
  BY DEF AtomInv
<1>2. CASE UNCHANGED ws
  BY <1>2 DEF ws, AtomicStep, On, Visible, Saved
<1>3. CASE Ends
  <2>1. CASE op.do = "apply"
    BY <1>3, <2>1, ListApplied DEF AtomicStep, Atomic!Next
  <2>2. CASE op.do = "undo"
    BY <1>3, <2>2, ListUndone
  <2>3. CASE op.do = "restore"
    BY <1>3, <2>3, RolledBack DEF AtomicStep, Atomic!Next
  <2> QED
    BY <1>3, <2>1, <2>2, <2>3 DEF Ends
<1>4. CASE SnapshotEnds \/ Die \/ \E n \in Names : SnapshotBegins(n)
  BY <1>1, <1>4, SnapshotSteps DEF AtomicStep, Atomic!Next
<1> QED
  BY <1>1, <1>2, <1>3, <1>4, Inside DEF Next, OpStep

(* Lists of changes are applied whole or not at all, a snapshot is what the  *)
(* files were and a rollback gives exactly that back: the operations, one    *)
(* file at a time and failing in any of them, implement the atomic workspace *)
(* on the paths that have a backup of their own.                             *)
THEOREM WorkspaceIsAtomic == Spec => ImplementsAtomic
<1>1. Init => Atomic!Init
  BY DEF Init, Atomic!Init, Saved
<1>2. AtomicStep <=> [Atomic!Next]_<<On(Visible), [n \in DOMAIN taken |-> On(taken[n])], deaths>>
  BY DEF AtomicStep, Saved
<1> QED
  BY AtomInit, AtomInductive, StepImplements, <1>1, <1>2, PTL DEF Spec, ImplementsAtomic, Atomic!Spec

-----------------------------------------------------------------------------
(* Prompts *)

(* What is recorded of a task is what its prompts last showed in full; the   *)
(* cache of a task is filled only while its prompt is open.                  *)
RecallInv ==
  /\ DOMAIN recorded = Tasks /\ DOMAIN seen = Tasks /\ DOMAIN cached = Tasks
  /\ \A t \in Tasks :
       /\ t \notin waiting => cached[t] = None
       /\ ~ Stubs => DOMAIN recorded[t] = {}
       /\ \A p \in DOMAIN recorded[t] :
            p \in DOMAIN seen[t] /\ seen[t][p] = recorded[t][p]

(* A text is never taken for a stub. *)
LEMMA ShownIsNoStub == \A p : Shown(p) # Stub
BY DEF Shown, Stub, Missing, Unreadable, Text

LEMMA RecallInit == ContextInit => RecallInv
BY DEF ContextInit, RecallInv

(* A prompt shows each chosen file as it is, or a stub for a text seen.      *)
LEMMA AskShows ==
  ASSUME RecallInv, NEW t \in Tasks, Ask(t)
  PROVE  /\ RecallInv'
         /\ \A p \in DOMAIN prompt'.shows :
              IF prompt'.shows[p] = Stub THEN p \in DOMAIN seen[t] /\ seen[t][p] = Shown(p)
              ELSE prompt'.shows[p] = Shown(p)
<1>1. t \notin waiting /\ cached[t] = None
  BY DEF Ask, RecallInv
<1>2. PICK chosen \in Candidates(t) :
        LET ctx   == [p \in chosen |-> Shown(p)]
            shows == Transformed(t, ctx)
        IN  /\ prompt' = [task |-> t, shows |-> shows]
            /\ recorded' = [recorded EXCEPT ![t] = Recorded(t, ctx)]
            /\ cached' = [cached EXCEPT ![t] = shows]
            /\ seen' = [seen EXCEPT ![t] = Sees(t, shows, ctx)]
  BY <1>1 DEF Ask
<1> DEFINE ctx   == [p \in chosen |-> Shown(p)]
           shows == Transformed(t, ctx)
<1>3. /\ prompt'.shows = shows
      /\ recorded'[t] = Recorded(t, ctx) /\ seen'[t] = Sees(t, shows, ctx)
      /\ \A u \in Tasks : u # t => /\ recorded'[u] = recorded[u] /\ seen'[u] = seen[u]
                                  /\ cached'[u] = cached[u]
      /\ DOMAIN recorded' = Tasks /\ DOMAIN seen' = Tasks /\ DOMAIN cached' = Tasks
  BY <1>2 DEF RecallInv
<1>4. /\ DOMAIN shows = chosen
      /\ \A p \in chosen : shows[p] = (IF /\ Stubs /\ p \in DOMAIN recorded[t]
                                         /\ recorded[t][p] = Shown(p)
                                      THEN Stub ELSE Shown(p))
  BY DEF Transformed
<1>5. ASSUME NEW p \in chosen
      PROVE  /\ shows[p] = Stub => p \in DOMAIN seen[t] /\ seen[t][p] = Shown(p)
             /\ shows[p] # Stub => shows[p] = Shown(p)
  BY <1>4, <1>5, ShownIsNoStub DEF RecallInv
<1> HIDE DEF shows
<1>6. waiting' = waiting \cup {t}
  BY DEF Ask
<1>7. ~ Stubs => DOMAIN recorded'[t] = {}
  BY <1>3 DEF RecallInv, Recorded
<1>8. \A p \in DOMAIN recorded'[t] : p \in DOMAIN seen'[t] /\ seen'[t][p] = recorded'[t][p]
  <2> SUFFICES ASSUME NEW p \in DOMAIN recorded'[t]
               PROVE  p \in DOMAIN seen'[t] /\ seen'[t][p] = recorded'[t][p]
    OBVIOUS
  <2>1. CASE Stubs /\ ctx # <<>>
    <3>1. recorded'[t] = ctx /\ p \in chosen
      BY <1>3, <2>1 DEF Recorded
    <3>2. ctx[p] = Shown(p)
      BY <3>1
    <3> HIDE DEF ctx
    <3> QED
      BY <1>3, <1>4, <1>5, <3>1, <3>2 DEF Sees
  <2>2. CASE ~ (Stubs /\ ctx # <<>>)
    <3>1. recorded'[t] = recorded[t]
      BY <1>3, <2>2 DEF Recorded
    <3>2. Stubs /\ ctx = <<>>
      BY <2>2, <3>1 DEF RecallInv
    <3>3. chosen = {}
      <4>1. DOMAIN ctx = chosen /\ DOMAIN <<>> = {}
        OBVIOUS
      <4> QED
        BY <3>2, <4>1
    <3> HIDE DEF ctx
    <3> QED
      BY <1>3, <1>4, <3>1, <3>3 DEF Sees, RecallInv
  <2> QED
    BY <2>1, <2>2
<1>9. RecallInv'
  BY <1>3, <1>6, <1>7, <1>8 DEF RecallInv
<1> QED
  BY <1>3, <1>4, <1>5, <1>9

LEMMA RecallInductive == RecallInv /\ [ContextNext]_all => RecallInv'
<1> SUFFICES ASSUME RecallInv, [ContextNext]_all PROVE RecallInv'
  OBVIOUS
<1>1. ASSUME NEW t \in Tasks, Ask(t) PROVE RecallInv'
  BY <1>1, AskShows
<1>2. ASSUME NEW t \in Tasks, AnswerApplied(t) PROVE RecallInv'
  BY <1>2 DEF AnswerApplied, RecallInv
<1>3. CASE Snapshots \/ Continues \/ UNCHANGED all
  BY <1>3 DEF Snapshots, Continues, all, context, RecallInv
<1>4. CASE Dies
  BY <1>4 DEF Dies, RecallInv
<1> QED
  BY <1>1, <1>2, <1>3, <1>4 DEF ContextNext

(* Under the prompts of the tasks the workspace behaves as by itself.        *)
THEOREM ContextIsWorkspace == ContextSpec => Spec
<1>1. ContextInit => Init
  BY DEF ContextInit
<1>2. [ContextNext]_all => [Next]_ws
  BY DEF ContextNext, Ask, AnswerApplied, Snapshots, Continues, Dies, Next, all
<1> QED
  BY <1>1, <1>2, PTL DEF ContextSpec, Spec

(* A prompt shows a file as it is now, or a stub for the text an earlier     *)
(* prompt of the same task showed and the file still holds, whatever the     *)
(* other tasks wrote and whatever was rolled back in between.                *)
THEOREM PromptsTrue == ContextSpec => PromptsAreTrue
<1>1. RecallInv /\ [ContextNext]_all =>
        [\A t \in Tasks : Ask(t) =>
           \A p \in DOMAIN prompt'.shows :
             IF prompt'.shows[p] = Stub THEN p \in DOMAIN seen[t] /\ seen[t][p] = Shown(p)
             ELSE prompt'.shows[p] = Shown(p)]_all
  BY AskShows
<1> QED
  BY RecallInit, RecallInductive, <1>1, PTL DEF ContextSpec, PromptsAreTrue
=============================================================================
