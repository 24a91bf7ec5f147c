---------------------------- MODULE GuiSnapshots ----------------------------
(* Saved comparisons of two runs: save, import, rename, edit, delete, edit    *)
(* or delete in bulk, and retention; and what a list of them shows.           *)
EXTENDS GuiRequests

CONSTANT Tails        \* the random part of a snapshot's name

Version == "compare-trust-snapshot-record-v1"
Dir == "snapshots"
Markdown(f) == [f EXCEPT !.dir = "markdown"]
SnapshotFiles(fs) == {f \in DOMAIN fs : f.dir = Dir}

--------------------------------------------------------------------------------
(* Records. A text is by the client or made by the server from the snapshot;  *)
(* a hash is the content it is of; integrity is the hash stored, or nothing.  *)

Nothing     == [by |-> "none", of |-> ""]
Rendered(s) == [by |-> "server", of |-> s.text]

Content(x) == [snap |-> x.snap, cmp |-> x.cmp, markdown |-> x.markdown]
IntegrityOk(x) == x.integrity \subseteq {Content(x)}

Readable(x) == x.form = "record"

\* A readable snapshot, and one that has kept the mark it was saved with.
IsRecord(x) ==
  /\ DOMAIN x = {"form", "schema", "snap", "cmp", "markdown", "integrity", "persisted", "name", "pinned",
                "archived", "archivedAt", "tags"}
  /\ x.persisted \in Nat
Marked(x, c) == x.schema = Version /\ x.integrity = {c} /\ x.cmp # Nothing /\ x.markdown # Nothing

SnapshotName == [dir : {Dir}, at : Nat, tail : Nat]

(* A limit of a retention as the body gives it; int() makes n of it. A number *)
(* may be a truth value; `other' is a text or a fraction; `junk' is no        *)
(* integer; the conversion of an infinity raises what nobody catches.         *)
RawLimit == [form : {"number", "other", "junk", "infinite"}, n : Int]

(* The snapshots on disk at first, of which `origin' tells how they were     *)
(* saved, and the fields of the requests about snapshots.                    *)
ASSUME SnapshotAssumption ==
  /\ Tails \subseteq Nat
  /\ \A s \in Scenes :
       /\ IsFiniteSet(SnapshotFiles(s.files))
       /\ SnapshotFiles(s.files) \cup DOMAIN s.origin \subseteq SnapshotName
       /\ \A f \in SnapshotFiles(s.files) :
            Readable(s.files[f]) =>
              /\ IsRecord(s.files[f])
              /\ f \in DOMAIN s.origin /\ s.origin[f].markdown # Nothing => Marked(s.files[f], s.origin[f])
       /\ \A r \in s.requests :
            /\ r.kind = "import" /\ r.body.form \notin {"absent", "bad"} => IsRecord(r.body)
            /\ r.kind \in {"rename", "metadata", "delete", "bulk"} => r.ids \in Seq(SnapshotName)
            /\ r.kind \in {"rename", "metadata", "delete"} => Len(r.ids) = 1
            /\ r.kind = "retention" => r.keep \subseteq RawLimit /\ \A x, y \in r.keep : x = y
            /\ r.kind = "retention" => r.maxAge \subseteq RawLimit /\ \A x, y \in r.maxAge : x = y

\* MUTANT of Normalized: loading hashes whatever is there.
RehashedWhenLoaded(x) ==
  LET y == [x EXCEPT !.schema = Version,
                     !.cmp = IF @ = Nothing THEN Rendered(x.snap) ELSE @,
                     !.markdown = IF @ = Nothing THEN Rendered(x.snap) ELSE @]
  IN [y EXCEPT !.integrity = {Content(y)}]

\* What _normalize_compare_snapshot_record makes of a readable file.
Normalized(x) ==
  LET y == [x EXCEPT !.schema = Version,
                     !.cmp = IF @ = Nothing THEN Rendered(x.snap) ELSE @,
                     !.markdown = IF @ = Nothing THEN Rendered(x.snap) ELSE @]
      kept == x.schema = Version /\ x.cmp # Nothing /\ x.integrity # {}
  IN [y EXCEPT !.integrity = IF kept THEN @ ELSE {Content(y)}]

Record(r, c, name, pinned, archived, tags) ==
  [form |-> "record", schema |-> Version, snap |-> c.snap, cmp |-> c.cmp, markdown |-> c.markdown,
   integrity |-> {Content(c)}, persisted |-> now, name |-> name, pinned |-> pinned,
   archived |-> archived, archivedAt |-> IF archived THEN now ELSE 0, tags |-> tags]

\* The files a thread is about to make or fill are named by nobody else.
Fresh(f) == f \notin DOMAIN files /\ \A u \in Threads : h[u].file # f

--------------------------------------------------------------------------------
(* Save and import *)

NewSnapshot(t, rec) ==
  \E k \in Tails :
    LET f == [dir |-> Dir, at |-> now, tail |-> k] IN
    /\ Fresh(f)
    /\ Becomes(t, [h[t] EXCEPT !.at = "write", !.file = f, !.rec = rec])
    /\ UNCHANGED <<todo, disk, outcome, counters, history>>

Fails(t, status) ==
  /\ Becomes(t, [h[t] EXCEPT !.at = "audit", !.status = status])
  /\ UNCHANGED <<todo, disk, outcome, counters, history>>

SaveSnapshot(t) ==
  LET r == h[t].r IN
  /\ h[t].at = "begin" /\ r.kind = "save"
  /\ IF r.body.form = "record" /\ r.body.cmp # Nothing
     THEN NewSnapshot(t, Record(r, r.body, r.name, r.pinned, r.archived, r.tags))
     ELSE Ends(t, 422) /\ UNCHANGED <<todo, disk, counters, history>>

(* An exported record keeps its marks, a bare snapshot has none; what cannot  *)
(* be normalised raises an error that nobody catches.                         *)
Import(t) ==
  LET r == h[t].r
      c == Normalized(r.body)
      marks == IF r.bare THEN [pinned |-> FALSE, archived |-> FALSE, tags |-> {}]
               ELSE [pinned |-> c.pinned, archived |-> c.archived, tags |-> c.tags]
  IN /\ h[t].at = "begin" /\ r.kind = "import"
     /\ CASE r.body.form = "absent" -> Fails(t, 400)
          [] r.body.form = "bad"    -> Ends(t, Dropped) /\ UNCHANGED <<todo, disk, counters, history>>
          [] OTHER -> NewSnapshot(t, Record(r, c, Given(r.name, c.name), marks.pinned, marks.archived, marks.tags))

FillSnapshot(t) ==
  /\ h[t].at = "fill" /\ h[t].file.dir = Dir
  /\ files' \in Filled(h[t].file, h[t].rec)
  /\ IF h[t].r.kind \in {"save", "import"} THEN Becomes(t, [h[t] EXCEPT !.at = "markdown"])
     ELSE Becomes(t, [h[t] EXCEPT !.at = "next", !.ids = Tail(@), !.hits = @ + 1, !.file = NoFile,
                                  !.rec = Torn])
  /\ origin' = IF h[t].r.kind \in {"save", "import"} THEN Set(origin, h[t].file, Content(h[t].rec)) ELSE origin
  /\ UNCHANGED <<todo, lines, sent, runs, outcome, counters, touched, mixed>>

WriteMarkdown(t) ==
  /\ h[t].at = "markdown"
  /\ files' = Set(files, Markdown(h[t].file), [form |-> "text"])
  /\ Becomes(t, [h[t] EXCEPT !.at = "audit"])
  /\ UNCHANGED <<todo, lines, sent, runs, outcome, counters, history>>

\* The first snapshot that is left is reported as failed.
Skipped(x, status) ==
  [x EXCEPT !.at = "next", !.ids = Tail(@), !.bad = @ \cup {Head(x.ids)}, !.status = status]

\* The disk is full: the file stays empty. A save answers at once, unaudited.
SnapshotWriteFails(t) ==
  /\ h[t].at = "fill" /\ h[t].file.dir = Dir
  /\ faults < MaxFaults
  /\ faults' = faults + 1
  /\ CASE h[t].r.kind = "save"   -> Ends(t, 500)
       [] h[t].r.kind = "import" -> Becomes(t, [h[t] EXCEPT !.at = "audit", !.status = 500]) /\ UNCHANGED outcome
       [] OTHER -> /\ Becomes(t, Skipped(h[t], 422))
                   /\ UNCHANGED outcome
  /\ mixed' = mixed \cup {h[t].r.id}
  /\ UNCHANGED <<todo, disk, now, deaths, touched, origin>>

--------------------------------------------------------------------------------
(* Changes of one snapshot after the other *)

Edits == {"rename", "metadata", "bulk"}
Deletes(r) == r.kind \in {"delete", "retention"} \/ (r.kind = "bulk" /\ r.deletes)

BeginEach(t) ==
  LET r == h[t].r IN
  /\ h[t].at = "begin" /\ r.kind \in {"rename", "metadata", "delete", "bulk"}
  /\ IF (r.kind = "rename" /\ r.name = "") \/ (r.kind = "bulk" /\ r.ids = <<>>)
     THEN Fails(t, 400)
     ELSE /\ Becomes(t, [h[t] EXCEPT !.at = "next", !.ids = r.ids])
          /\ UNCHANGED <<todo, disk, outcome, counters, history>>

Next1(t, status) ==
  /\ Becomes(t, Skipped(h[t], status))
  /\ UNCHANGED <<todo, disk, outcome, counters, history>>

\* A field that the request does not give stays; "" is no name.
Edited(x, r) ==
  [x EXCEPT !.name = IF "name" \in r.gives THEN r.name ELSE @,
            !.pinned = IF "pinned" \in r.gives THEN r.pinned ELSE @,
            !.archived = IF "archived" \in r.gives THEN r.archived ELSE @,
            !.archivedAt = IF "archived" \notin r.gives THEN @ ELSE IF r.archived THEN now ELSE 0,
            !.tags = IF "tags" \in r.gives THEN r.tags ELSE @]

EditOne(t) ==
  LET r == h[t].r
      f == Head(h[t].ids)
  IN /\ h[t].at = "next" /\ h[t].ids # <<>> /\ ~Deletes(r)
     /\ IF f \notin DOMAIN files THEN Next1(t, 404)
        ELSE IF ~Readable(files[f]) THEN Next1(t, 422)
        ELSE IF "name" \in r.gives /\ r.name = "" THEN Next1(t, 400)
        ELSE /\ Becomes(t, [h[t] EXCEPT !.at = "write", !.file = f,
                                         !.rec = Edited(Normalized(files[f]), r)])
             /\ UNCHANGED <<todo, disk, outcome, counters, history>>

\* A deletion looks for the file, removes it, looks for its markdown and removes that.
DeleteOne(t) ==
  /\ h[t].at = "next" /\ h[t].ids # <<>> /\ Deletes(h[t].r)
  /\ IF Head(h[t].ids) \notin DOMAIN files THEN Next1(t, 404)
     ELSE /\ Becomes(t, [h[t] EXCEPT !.at = "unlink"])
          /\ UNCHANGED <<todo, disk, outcome, counters, history>>

Unlink(t) ==
  LET f == Head(h[t].ids) IN
  /\ h[t].at = "unlink" /\ f \in DOMAIN files
  /\ files' = Drop(files, f)
  /\ Becomes(t, [h[t] EXCEPT !.at = "look"])
  /\ Touches(t)
  /\ UNCHANGED <<todo, lines, sent, runs, outcome, counters, mixed, origin>>

Deleted(x) == [x EXCEPT !.at = "next", !.ids = Tail(@), !.hits = @ + 1]

LookForMarkdown(t) ==
  /\ h[t].at = "look"
  /\ Becomes(t, IF Markdown(Head(h[t].ids)) \in DOMAIN files THEN [h[t] EXCEPT !.at = "unmark"]
                ELSE Deleted(h[t]))
  /\ UNCHANGED <<todo, disk, outcome, counters, history>>

DeleteMarkdown(t) ==
  LET f == Markdown(Head(h[t].ids)) IN
  /\ h[t].at = "unmark" /\ f \in DOMAIN files
  /\ files' = Drop(files, f)
  /\ Becomes(t, Deleted(h[t]))
  /\ UNCHANGED <<todo, lines, sent, runs, outcome, counters, history>>

(* Either file cannot be removed, because another thread has done it since or *)
(* for a reason of the disk's: the deletion stops there and has failed, also  *)
(* when the snapshot is gone already.                                         *)
DeleteFails(t) ==
  LET f == IF h[t].at = "unlink" THEN Head(h[t].ids) ELSE Markdown(Head(h[t].ids)) IN
  /\ h[t].at \in {"unlink", "unmark"}
  /\ IF f \in DOMAIN files THEN faults < MaxFaults /\ faults' = faults + 1 ELSE UNCHANGED faults
  /\ Becomes(t, Skipped(h[t], 422))
  /\ mixed' = IF h[t].at = "unmark" THEN mixed \cup {h[t].r.id} ELSE mixed
  /\ UNCHANGED <<todo, disk, outcome, now, deaths, touched, origin>>

\* MUTANT of EndEach: a bulk change in which anything failed is answered as failed.
EndEachIfAllGood(t) ==
  LET bulk == h[t].r.kind = "bulk"
      status == IF bulk THEN IF h[t].bad # {} THEN 422 ELSE 200
                ELSE IF h[t].r.kind = "retention" THEN 200 ELSE h[t].status
  IN /\ h[t].at = "next" /\ h[t].ids = <<>>
     /\ Becomes(t, [h[t] EXCEPT !.at = "audit", !.status = status])
     /\ UNCHANGED <<todo, disk, outcome, counters, history>>

EndEach(t) ==
  LET bulk == h[t].r.kind = "bulk"
      status == IF bulk THEN IF h[t].bad # {} /\ h[t].hits = 0 THEN 422 ELSE 200
                ELSE IF h[t].r.kind = "retention" THEN 200 ELSE h[t].status
  IN /\ h[t].at = "next" /\ h[t].ids = <<>>
     /\ Becomes(t, [h[t] EXCEPT !.at = "audit", !.status = status])
     /\ UNCHANGED <<todo, disk, outcome, counters, history>>

--------------------------------------------------------------------------------
(* Retention *)

\* No limit, or a limit of at least 0. The number 0 equals False and is no limit.
Limits(raw) ==
  {IF x.n < 0 THEN 0 ELSE x.n : x \in {y \in raw : y.form # "number" \/ y.n # 0}}

\* What cannot be converted: the limit on the number comes first.
Unfit(r) ==
  LET bad(raw) == {x.form : x \in raw} \cap {"junk", "infinite"}
  IN IF bad(r.keep) # {} THEN bad(r.keep) ELSE bad(r.maxAge)

NameBefore(f, g) == f.at < g.at \/ (f.at = g.at /\ f.tail < g.tail)
\* The older of two snapshots; one without a date is the oldest.
Older(fs, f, g) == \/ fs[f].persisted < fs[g].persisted
                   \/ fs[f].persisted = fs[g].persisted /\ NameBefore(f, g)

Candidates(fs, r) == {f \in SnapshotFiles(fs) : Readable(fs[f]) /\ (r.withArchived \/ ~fs[f].archived)}
NewestFirst(fs, S) == InOrder(S, LAMBDA f, g : Older(fs, g, f))
TooOld(x, r, at) == x.persisted > 0 /\ \E a \in Limits(r.maxAge) : at - x.persisted > a

\* MUTANT of Matched: one snapshot fewer is kept.
MatchedFromZero(fs, r, at) ==
  LET newest == NewestFirst(fs, Candidates(fs, r))
      gone(i) == (\E k \in Limits(r.keep) : i >= k) \/ TooOld(fs[newest[i]], r, at)
  IN NewestFirst(fs, {newest[i] : i \in {j \in DOMAIN newest : gone(j)}})

\* The snapshots that are not among the newest, or too old, newest first.
Matched(fs, r, at) ==
  LET newest == NewestFirst(fs, Candidates(fs, r))
      gone(i) == (\E k \in Limits(r.keep) : i > k) \/ TooOld(fs[newest[i]], r, at)
  IN NewestFirst(fs, {newest[i] : i \in {j \in DOMAIN newest : gone(j)}})

Retention(t) ==
  LET r == h[t].r
      matched == Matched(files, r, now)
  IN /\ h[t].at = "begin" /\ r.kind = "retention"
     /\ IF "infinite" \in Unfit(r) THEN Ends(t, Dropped) /\ UNCHANGED <<todo, disk, counters, history>>
        ELSE IF Unfit(r) # {} \/ Limits(r.keep) \cup Limits(r.maxAge) = {} THEN Fails(t, 400)
        ELSE /\ Becomes(t, [h[t] EXCEPT !.at = "next", !.seen = files, !.stamp = now,
                                         !.ids = IF r.dryRun THEN <<>> ELSE matched])
             /\ UNCHANGED <<todo, disk, outcome, counters, history>>

--------------------------------------------------------------------------------
(* Listing *)

Passes(f, x, q) ==
  /\ q.archive = "all" \/ (q.archive = "archived") = x.archived
  /\ q.pinned = "all" \/ (q.pinned = "pinned") = x.pinned
  /\ q.baseline = "" \/ q.baseline = x.snap.left
  /\ q.candidate = "" \/ q.candidate = x.snap.right
  /\ q.tag = "" \/ q.tag \in x.tags
  /\ \A d \in q.from : x.persisted > 0 /\ x.persisted >= d
  /\ \A d \in q.to : x.persisted > 0 /\ x.persisted <= d
  /\ q.query = "" \/ q.query \in {x.name, x.snap.left, x.snap.right} \cup x.tags

\* Pinned snapshots come first; each part is by age, in the order asked for.
ListedBefore(fs, q, f, g) ==
  \/ fs[f].pinned /\ ~fs[g].pinned
  \/ fs[f].pinned = fs[g].pinned /\ IF q.sort = "oldest" THEN Older(fs, f, g) ELSE Older(fs, g, f)

Listed(fs, q) ==
  InOrder({f \in SnapshotFiles(fs) : Readable(fs[f]) /\ Passes(f, fs[f], q)},
          LAMBDA f, g : ListedBefore(fs, q, f, g))

TotalPages(n, size) == IF n = 0 THEN 1 ELSE (n + size - 1) \div size
Page(fs, q, page, size) ==
  LET rows == Listed(fs, q)
      n == TotalPages(Len(rows), size)
      k == IF page < 1 THEN 1 ELSE IF page > n THEN n ELSE page
      last == IF k * size > Len(rows) THEN Len(rows) ELSE k * size
  IN SubSeq(rows, (k - 1) * size + 1, last)

SnapshotStep(t) ==
  \/ SaveSnapshot(t) \/ Import(t) \/ FillSnapshot(t) \/ WriteMarkdown(t) \/ SnapshotWriteFails(t)
  \/ BeginEach(t) \/ EditOne(t) \/ EndEach(t) \/ Retention(t)
  \/ DeleteOne(t) \/ Unlink(t) \/ LookForMarkdown(t) \/ DeleteMarkdown(t) \/ DeleteFails(t)
=============================================================================
