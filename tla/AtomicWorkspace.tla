-------------------------- MODULE AtomicWorkspace ---------------------------
(***************************************************************************)
(* What workspace.py promises its callers: a list of changes is applied as *)
(* a whole or not at all, a snapshot is the workspace as it was when it    *)
(* was taken, and a rollback gives back exactly that.  Two exceptions are  *)
(* counted: the death of the process, which may leave anything and loses   *)
(* the snapshots (the next process takes its own), and a text that cannot  *)
(* be encoded, which leaves its file empty.                                *)
(***************************************************************************)
EXTENDS Naturals

CONSTANTS
  Paths,
  Names,           \* names of snapshots
  Empty,           \* an empty file
  Lists,           \* the lists of changes
  Touched(_),      \* the paths of a list
  Left(_, _, _),   \* what a list leaves on a path, given what it held
  Unwritable(_, _) \* the paths of a list that get a text nobody can encode

VARIABLES files, saved, deaths

Init == saved = <<>> /\ deaths = 0

Apply(cs) ==
  /\ Unwritable(cs, files) = {}
  /\ files' = [p \in Paths |-> IF p \in Touched(cs) THEN Left(cs, p, files[p])
                               ELSE files[p]]
  /\ UNCHANGED <<saved, deaths>>

Tear(cs) ==
  /\ \E p \in Unwritable(cs, files) : files' = [files EXCEPT ![p] = Empty]
  /\ UNCHANGED <<saved, deaths>>

Save(n) ==
  /\ saved' = [m \in DOMAIN saved \cup {n} |-> IF m = n THEN files ELSE saved[m]]
  /\ UNCHANGED <<files, deaths>>

Forget(n) ==
  /\ saved' = [m \in DOMAIN saved \ {n} |-> saved[m]]
  /\ UNCHANGED <<files, deaths>>

Restore(n) ==
  /\ n \in DOMAIN saved
  /\ files' = saved[n]
  /\ UNCHANGED <<saved, deaths>>

Die ==
  /\ deaths' = deaths + 1
  /\ saved' = <<>>

Next == \/ \E cs \in Lists : Apply(cs) \/ Tear(cs)
        \/ \E n \in Names : Save(n) \/ Forget(n) \/ Restore(n)
        \/ Die

(* The texts are the implementation's; only how they change is specified. *)
Spec == Init /\ [][Next]_<<files, saved, deaths>>
=============================================================================
