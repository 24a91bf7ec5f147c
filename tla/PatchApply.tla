----------------------------- MODULE PatchApply -----------------------------
(***************************************************************************)
(* patch_utils.py and the fallback of workspace.py for patches that do not *)
(* apply.  A text is a sequence of lines.  A patch is a sequence of hunks, *)
(* each with the first line of its old range and its body, a sequence of   *)
(* marked lines; a patch without hunks is kept as its text.                *)
(***************************************************************************)
EXTENDS Integers, Sequences, SequencesExt

Marks == {" ", "-", "+"}

Failed == [ok |-> FALSE, at |-> 0, out |-> <<>>]

(* One line of a hunk: context and removals must be the lines the patch    *)
(* expects at this place of the original text.                             *)
PatchLine(orig, st, dl) ==
  IF ~st.ok THEN Failed
  ELSE IF dl.mark = "+" THEN [st EXCEPT !.out = Append(@, dl.line)]
  ELSE IF st.at >= Len(orig) \/ orig[st.at + 1] # dl.line THEN Failed
  ELSE [st EXCEPT !.at = @ + 1,
                  !.out = IF dl.mark = " " THEN Append(@, dl.line) ELSE @]

(* A hunk: the lines up to it are copied (a slice may end behind the text),*)
(* and it may not start before the end of the hunk in front of it.         *)
HunkTarget(h) == IF h.start > 1 THEN h.start - 1 ELSE 0

PatchHunk(orig, st, h) ==
  LET target == HunkTarget(h)
      upTo   == IF target < Len(orig) THEN target ELSE Len(orig)
  IN IF ~st.ok \/ target < st.at THEN Failed
     ELSE FoldLeft(LAMBDA s, dl : PatchLine(orig, s, dl),
                   [st EXCEPT !.at = target,
                              !.out = @ \o SubSeq(orig, st.at + 1, upTo)],
                   h.body)

(* apply_unified_diff of a patch that has hunks.                           *)
Patched(orig, hunks) ==
  LET end == FoldLeft(LAMBDA st, h : PatchHunk(orig, st, h),
                      [ok |-> TRUE, at |-> 0, out |-> <<>>], hunks)
  IN IF end.ok
     THEN [end EXCEPT !.out = @ \o SubSeq(orig, end.at + 1, Len(orig))]
     ELSE Failed

(* The added lines of a patch: what is written when it does not apply.     *)
AddedIn(body) ==
  LET plus == SelectSeq(body, LAMBDA dl : dl.mark = "+")
  IN [i \in 1..Len(plus) |-> plus[i].line]

Materialized(patch) ==
  FlattenSeq([i \in 1..Len(patch.hunks) |-> AddedIn(patch.hunks[i].body)])

(* The new content of a path, or a refusal of the whole list of changes.   *)
(* Only a patch for a missing file may be a bare text.                     *)
PatchResult(exists, orig, patch) ==
  LET tried == Patched(orig, patch.hunks)
      added == Materialized(patch)
  IN CASE patch.hunks = <<>> /\ exists  -> Failed
       [] patch.hunks = <<>> /\ ~exists -> [Failed EXCEPT !.ok = TRUE, !.out = patch.text]
       [] patch.hunks # <<>> /\ tried.ok -> tried
       [] patch.hunks # <<>> /\ ~tried.ok ->
            IF added = <<>> THEN Failed ELSE [Failed EXCEPT !.ok = TRUE, !.out = added]
=============================================================================
