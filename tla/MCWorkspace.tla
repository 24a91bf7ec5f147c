---------------------------- MODULE MCWorkspace -----------------------------
(* Four paths, two of which share a backup name, and two tasks. *)
EXTENDS TaskContext, TLC

CONSTANTS t1, t2

BackupDef(p) == IF p \in {"a/b", "a__b"} THEN "a__b" ELSE p

Only(x) == <<x>>
Nothing == [hunks |-> <<>>, text |-> <<>>]
W(p, c) == [op |-> "write", path |-> p, content |-> c, patch |-> Nothing]
D(p)    == [op |-> "delete", path |-> p, content |-> <<>>, patch |-> Nothing]
P(p, hs) == [op |-> "patch", path |-> p, content |-> <<>>, patch |-> [hunks |-> hs, text |-> <<>>]]
Line(m, l) == [mark |-> m, line |-> l]
Grow  == <<[start |-> 1, body |-> <<Line(" ", "x"), Line("+", "y")>>]>>
Wrong == <<[start |-> 1, body |-> <<Line("-", "z")>>]>>

ListsDef ==
  {<<W("m", Only("x")), D("n"), W("f/x", Only("x"))>>,
   <<P("m", Grow), W("n", Only("y"))>>,
   <<W("n", Only(Surrogate))>>,
   <<D("m"), P("n", Wrong)>>,
   <<W("a/b", Only("y")), P("m", Grow), W("n", Only(Surrogate))>>,
   <<D("m"), D("n")>>}

FoundDef(p) == IF p = "n" THEN {NoFile, Only(BadByte)}
               ELSE IF p = "a__b" THEN {Only("y")} ELSE {NoFile}
TemplateDef == [p \in Paths |-> IF p = "m" THEN Only("x") ELSE NoFile]
SeedsDef(t) == IF t = t1 THEN {"m"} ELSE {"n", "m"}
ImportedDef(p) == IF p = "m" THEN {"n"} ELSE {}
SharedDef(p) == IF p = "n" THEN {"a/b"} ELSE {}
KeywordsDef(t, p) == IF p = "a/b" THEN 10 ELSE 0
(* Eleven words of the goal in the names of one file. *)
ManyKeywords(t, p) == IF p = "a/b" THEN 110 ELSE 0
=============================================================================
