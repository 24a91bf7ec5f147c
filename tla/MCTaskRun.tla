----------------------------- MODULE MCTaskRun -----------------------------
(* Small plans and limits on which TLC checks TaskRun. *)
EXTENDS TaskRun

CONSTANTS t1, t2, t3, f1, f2, f3

OrderDef == [t \in Tasks |-> CASE t = t1 -> 1 [] t = t2 -> 2 [] OTHER -> 3]

(* One file per task. *)
OwnFile == [t \in Tasks |-> CASE t = t1 -> {f1} [] t = t2 -> {f2} [] OTHER -> {f3}]

(* Two files for t1. *)
TwoFiles == [t \in Tasks |-> CASE t = t1 -> {f1, f3} [] OTHER -> {f2}]

NoDeps  == [t \in Tasks |-> {}]
Chain   == [t \in Tasks |-> CASE t = t1 -> {} [] t = t2 -> {t1} [] OTHER -> {t2}]
ChainBatches == <<{t1}, {t2}, {t3}>>
OneBatch == <<Tasks>>

(* t1 and t2 are one batch, t3 depends on t2. *)
Fork == [t \in Tasks |-> CASE t = t3 -> {t2} [] OTHER -> {}]
ForkBatches == <<{t1, t2}, {t3}>>

(* A failing test costs a point of score, a type-error band six. *)
ValidatorsDef == {"pytest", "mypy"}
WeightDef == [v \in Validators |-> IF v = "mypy" THEN 6 ELSE 1]
BlockingDef == {"pytest"}
============================================================================
