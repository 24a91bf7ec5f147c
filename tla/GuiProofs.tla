--------------------------- MODULE GuiProofs ---------------------------
(***************************************************************************)
(* What holds of the GUI server for any number of threads, requests,       *)
(* targets and snapshots, and of its process table for any number of       *)
(* processes, runs and restarts. The inductive invariant of the server,    *)
(* ServerInv, has five parts:                                              *)
(*   Base        what the record of a thread says of where it is, and      *)
(*               which requests are open;                                  *)
(*   Answers1    what a request has changed while its answer is still      *)
(*               undecided;                                                *)
(*   Snapshots1  the integrity mark that a thread holds between reading a  *)
(*               snapshot and writing it back;                             *)
(*   Delivery1   what a thread has handed over and not recorded yet;       *)
(*   Retention1  what a retention has still to delete.                     *)
(* The process table has its own invariant, IInv, in the last part.        *)
(***************************************************************************)
EXTENDS GuiServer, ProcessManager, FiniteSetTheorems, FunctionTheorems, SequenceTheorems, TLAPS

\* A sequence, whatever it is made of.
IsList(s) == s \in Seq(Range(s))

Fields == {"at", "r", "role", "file", "rec", "ids", "hits", "bad", "status", "seen", "stamp", "outcomes", "alone"}
Places == {"idle", "begin", "audit", "write", "fill", "markdown", "next", "unlink", "look", "unmark", "log",
           "deliver", "row", "spawn", "stop"}
Deleting == {"unlink", "look", "unmark"}
Single == {"rename", "metadata", "delete"}
Statuses == {200, 400, 403, 404, 422, 500}

\* What the record of a thread says of where it is.
Work(x) ==
  /\ DOMAIN x = Fields
  /\ x.at \in Places /\ x.status \in Statuses
  /\ x.hits \in Nat /\ x.stamp \in Nat
  /\ IsList(x.ids) /\ IsList(x.outcomes)
  /\ x.at = "markdown" => x.r.kind \in {"save", "import"}
  /\ x.at \in {"write", "fill"} =>
       \/ x.r.kind \in {"save", "import"} \cup Edits /\ x.file \in SnapshotName
       \/ x.r.kind \in {"workflow", "action"} /\ x.file = Workflow
  /\ x.at \in {"write", "fill"} /\ x.r.kind \in Edits => x.ids # <<>>
  /\ x.at \in {"next"} \cup Deleting => x.r.kind \in Edits \cup {"delete", "retention"}
  /\ x.at \in Deleting => Deletes(x.r) /\ x.ids # <<>>
  /\ x.at = "log" => x.r.kind = "action"
  /\ x.at \in {"deliver", "row"} => x.r.kind \in {"send", "resend"} /\ IsList(x.seen)
  /\ x.at = "row" => x.ids # <<>>
  /\ x.at \in {"spawn", "stop"} => x.r.kind \in RunControls

\* The logs of the server are lists.
Logs == /\ DOMAIN lines = {"audit", "actions", "approvals", "rows", "deliveries"}
        /\ \A n \in DOMAIN lines : IsList(lines[n])

\* Requests are served once, by one thread each, and those that overlap in a group
\* are known to; s is the scene the server started with.
Base(s) ==
  /\ DOMAIN h = Threads /\ \A t \in Threads : Work(h[t])
  /\ now \in Nat
  /\ Logs
  /\ todo \subseteq s.requests
  /\ DOMAIN outcome = {r.id : r \in s.requests}
  /\ touched \subseteq DOMAIN outcome
  /\ \A r \in todo : outcome[r.id] = Open /\ r.id \notin touched
  /\ \A t \in Threads : Busy(t) =>
       /\ h[t].r \in s.requests /\ h[t].r \notin todo /\ outcome[h[t].r.id] = Open
       /\ h[t].at = "begin" => h[t].r.id \notin touched
       /\ \A u \in Threads \ {t} : Busy(u) => h[u].r # h[t].r /\ ~h[t].alone
                                     /\ (Group(h[u].r) = Group(h[t].r) => Group(h[t].r) \in mixed)

\* What a request that is to be refused has changed; T are the requests that changed
\* something, those of M have stopped halfway.
Spared(x, T, M) == x.r.id \notin T \/ (x.status = 422 /\ x.r.id \in M)

\* What the answer that is worked out may still become.
Honest(x, T, M) ==
  /\ x.at \in {"begin", "markdown", "log", "deliver", "row", "spawn", "stop"} => x.status = 200
  /\ x.at \in {"write", "fill"} /\ x.r.kind # "bulk" => x.status = 200
  /\ x.r.kind \in Single =>
       /\ x.at \in {"write", "fill"} \cup Deleting => x.status = 200 /\ Tail(x.ids) = <<>>
       /\ x.at \in {"next", "unlink"} /\ x.ids # <<>> => x.status = 200 /\ Tail(x.ids) = <<>> /\ x.r.id \notin T
       /\ x.at = "next" /\ x.status # 200 => Spared(x, T, M)
  /\ x.r.kind = "bulk" /\ x.at \in {"next", "write", "unlink"} => x.r.id \notin T \/ x.r.id \in M \/ x.hits > 0
  /\ x.at = "audit" /\ x.status \notin {200, 500} => Spared(x, T, M)

\* No answer so far is false and none that is being worked out will be.
Answers1 == AnswersAreTrue /\ \A t \in Threads : Busy(t) => Honest(h[t], touched, mixed)

------------------------------------------------------------------------------
Saves(t) == h[t].r.kind \in {"save", "import"}
Holds(t) == h[t].at \in {"write", "fill"} /\ h[t].file \in SnapshotName

\* The record that a thread is about to write: a new one is marked with its content and
\* nobody else has its name, an edited one has the mark of the origin of its file.
Held(t) ==
  /\ IsRecord(h[t].rec) /\ Readable(h[t].rec)
  /\ IF Saves(t)
     THEN /\ h[t].rec.schema = Version /\ h[t].rec.cmp # Nothing /\ h[t].rec.integrity = {Content(h[t].rec)}
          /\ \A u \in Threads \ {t} : h[u].file # h[t].file
          /\ h[t].file \in DOMAIN files => h[t].at = "fill" /\ files[h[t].file] = Torn
     ELSE h[t].file \in DOMAIN origin /\ origin[h[t].file].markdown # Nothing
            => Marked(h[t].rec, origin[h[t].file])

\* The readable snapshots have the mark of their origin.
FilesOk ==
  /\ DOMAIN origin \subseteq SnapshotName
  /\ IsFiniteSet(SnapshotFiles(files))
  /\ \A f \in SnapshotFiles(files) :
       /\ f \in SnapshotName
       /\ Readable(files[f]) =>
            /\ IsRecord(files[f])
            /\ f \in DOMAIN origin /\ origin[f].markdown # Nothing => Marked(files[f], origin[f])

\* A loop over snapshots is over snapshots.
NamesOk(x) ==
  /\ x.at \in {"next"} \cup Deleting \/ (x.at \in {"write", "fill"} /\ x.r.kind \in Edits) => x.ids \in Seq(SnapshotName)
  /\ x.at = "markdown" => x.file \in SnapshotName

Snapshots1 == FilesOk /\ \A t \in Threads : NamesOk(h[t]) /\ (Holds(t) => Held(t))

------------------------------------------------------------------------------
\* A delivery has failed at a target, among the first n rows.
Failed(rows, of, target, n) ==
  \E j \in 1 .. n : rows[j].delivery = of /\ rows[j].status = "failed" /\ rows[j].target = target
HasRow(rows, x) == \E i \in DOMAIN rows : rows[i].delivery = x[1] /\ rows[i].target = x[2]
Alikes(rows, target, key) == {j \in DOMAIN rows : rows[j].target = target /\ rows[j].key = key}
UpTo(S, i) == {j \in S : j <= i}

IsRetry(of) == of # ""
\* A row is true; T are the requests that changed something, S what was received.
RowOk(s, rows, i, T, S) ==
  /\ rows[i].delivery \in T
  /\ \E q \in s.requests : q.id = rows[i].delivery /\ q.kind \in {"send", "resend"} /\ (rows[i].status = "dry_run" => q.dryRun)
  /\ rows[i].status = "sent" => <<rows[i].delivery, rows[i].target>> \in S
  /\ IsRetry(rows[i].of) => Failed(rows, rows[i].of, rows[i].target, i - 1)

\* Attempts at a target are counted without a gap.
Attempts(rows) ==
  \A i \in DOMAIN rows : rows[i].attempt = Cardinality(UpTo(Alikes(rows, rows[i].target, rows[i].key), i))

\* What a target has received is what a thread has just handed over, or has a row.
AtHand(w, x) == w.at \in {"deliver", "row"} /\ w.r.id = x[1] /\ w.ids # <<>> /\ x[2] = Head(w.ids)
Received(s, x, T) == x[1] \in T /\ \E q \in s.requests : q.id = x[1] /\ q.kind \in {"send", "resend"} /\ ~q.dryRun
Accounted(x, rows) == HasRow(rows, x) \/ outcome[x[1]] = Lost \/ \E t \in Threads : AtHand(h[t], x)

\* A delivery that is under way.
DeliveryOk(w, rows, T, S, M) ==
  /\ "delivery" \notin M => w.seen = rows
  /\ IsRetry(w.r.of) => \A k \in DOMAIN w.ids : Failed(rows, w.r.of, w.ids[k], Len(rows))
  /\ Repeats(w.outcomes, rows, w.r.id)
  /\ w.ids = <<>> => w.r.id \in T
  /\ w.at = "row" =>
       /\ w.rec.form \in {"sent", "dry_run", "failed"}
       /\ w.rec.form = "sent" => <<w.r.id, Head(w.ids)>> \in S
       /\ w.rec.form = "dry_run" => w.r.dryRun

Delivering(t) == h[t].at \in {"deliver", "row"}

\* A line of the log of deliveries repeats the rows, and its delivery has no more of them.
Logged(d, rows, T) == d.delivery \in T /\ Repeats(d.outcomes, rows, d.delivery)
Done(id) == \A t \in Threads : Busy(t) /\ h[t].r.id = id => h[t].at = "audit"

Delivery1(s) ==
  /\ \A i \in DOMAIN lines.rows : RowOk(s, lines.rows, i, touched, sent)
  /\ "delivery" \notin mixed => Attempts(lines.rows)
  /\ \A x \in sent : Received(s, x, touched) /\ Accounted(x, lines.rows)
  /\ \A t \in Threads : Delivering(t) => DeliveryOk(h[t], lines.rows, touched, sent, mixed)
  /\ \A i \in DOMAIN lines.deliveries :
       Logged(lines.deliveries[i], lines.rows, touched) /\ Done(lines.deliveries[i].delivery)

------------------------------------------------------------------------------
\* What a retention deletes of a set of snapshots, at a time.
Younger(fs, S, f) == {g \in S : Older(fs, f, g)}
Newer(fs, r, f) == Younger(fs, Candidates(fs, r), f)
Goes(fs, r, at, f) ==
  \/ \E k \in Limits(r.keep) : Cardinality(Newer(fs, r, f)) >= k
  \/ \E a \in Limits(r.maxAge) : fs[f].persisted > 0 /\ at > fs[f].persisted + a

Retains(x) == x.alone /\ x.r.kind = "retention" /\ x.at \in {"next", "audit"} \cup Deleting /\ (x.at = "audit" => x.status = 200)
Left(x) == IF x.at \in {"look", "unmark"} THEN Tail(x.ids) ELSE IF x.at \in {"next", "unlink"} THEN x.ids ELSE <<>>
GoesIn(x, f) == f \in Candidates(x.seen, x.r) /\ ~x.r.dryRun /\ Goes(x.seen, x.r, x.stamp, f)

\* What is to go and has not is still listed or reported as failed, and nothing else has gone.
RetentionOk(x, fs) ==
  /\ \A k \in DOMAIN Left(x) : GoesIn(x, Left(x)[k])
  /\ \A f \in SnapshotFiles(x.seen) :
       IF f \in DOMAIN fs THEN GoesIn(x, f) => f \in x.bad \/ \E k \in DOMAIN Left(x) : Left(x)[k] = f
       ELSE GoesIn(x, f)

Retention1 == \A t \in Threads : Retains(h[t]) => RetentionOk(h[t], files)

\* The inductive invariant of the server.
ServerInv == \E s \in Scenes : Base(s) /\ Answers1 /\ Snapshots1 /\ Delivery1(s) /\ Retention1

------------------------------------------------------------------------------
(* Lists. *)

\* A sequence over any set is a list.
LEMMA SeqIsList ==
  ASSUME NEW S, NEW s \in Seq(S)
  PROVE  IsList(s)
<1>1. Len(s) \in Nat /\ DOMAIN s = 1 .. Len(s) /\ s = [i \in 1 .. Len(s) |-> s[i]]
  BY LenProperties
<1>2. \A i \in 1 .. Len(s) : s[i] \in Range(s)
  BY <1>1 DEF Range
<1>. QED
  BY <1>1, <1>2 DEF IsList

\* What the length, the head and the tail of a list are.
LEMMA ListFacts ==
  ASSUME NEW s, IsList(s)
  PROVE  /\ Len(s) \in Nat /\ DOMAIN s = 1 .. Len(s)
         /\ s = <<>> <=> Len(s) = 0
         /\ s # <<>> => /\ IsList(Tail(s)) /\ Head(s) = s[1] /\ Len(Tail(s)) = Len(s) - 1
                       /\ \A i \in 1 .. Len(Tail(s)) : Tail(s)[i] = s[i + 1]
<1>1. s \in Seq(Range(s))
  BY DEF IsList
<1>2. Len(s) \in Nat /\ DOMAIN s = 1 .. Len(s) /\ (s = <<>> <=> Len(s) = 0)
  BY <1>1, LenProperties, EmptySeq
<1>3. ASSUME s # <<>>
      PROVE  /\ Tail(s) \in Seq(Range(s)) /\ Head(s) = s[1] /\ Len(Tail(s)) = Len(s) - 1
             /\ \A i \in 1 .. Len(Tail(s)) : Tail(s)[i] = s[i + 1]
  BY <1>1, <1>3, HeadTailProperties
<1>4. ASSUME s # <<>>
      PROVE  IsList(Tail(s))
  BY <1>3, <1>4, SeqIsList
<1>. QED
  BY <1>2, <1>3, <1>4

\* A list with an element more.
LEMMA Appended ==
  ASSUME NEW s, IsList(s), NEW x
  PROVE  /\ IsList(Append(s, x)) /\ Len(Append(s, x)) = Len(s) + 1
         /\ \A i \in 1 .. Len(s) : Append(s, x)[i] = s[i]
         /\ Append(s, x)[Len(s) + 1] = x
<1>. DEFINE S == Range(s) \cup {x}
<1>1. s \in Seq(S)
  BY SeqMonotonic DEF IsList
<1>2. Append(s, x) \in Seq(S)
  BY <1>1
<1>3. IsList(Append(s, x))
  BY <1>2, SeqIsList
<1>. HIDE DEF S
<1>4. Len(s) \in Nat
  BY ListFacts
<1>. QED
  BY <1>1, <1>2, <1>3, <1>4

\* The empty list.
LEMMA EmptyList == IsList(<<>>) /\ Len(<<>>) = 0
BY SeqIsList, EmptySeq

\* Sorting. A strict order of a set, as a set of pairs.
StrictOrder(S, R) ==
  /\ \A x \in S : <<x, x>> \notin R
  /\ \A x, y, z \in S : <<x, y>> \in R /\ <<y, z>> \in R => <<x, z>> \in R
  /\ \A x, y \in S : x # y => <<x, y>> \in R \/ <<y, x>> \in R

Ahead(S, R, x) == {y \in S : <<y, x>> \in R}
Sorts(s, S, R) == s \in [1 .. Cardinality(S) -> S] /\ \A i, j \in DOMAIN s : i < j => <<s[i], s[j]>> \in R

\* Of two elements of a finite ordered set, fewer are ahead of the earlier one.
LEMMA AheadCounts ==
  ASSUME NEW S, IsFiniteSet(S), NEW R, StrictOrder(S, R)
  PROVE  /\ Cardinality(S) \in Nat
         /\ \A x \in S : Cardinality(Ahead(S, R, x)) \in 0 .. Cardinality(S) - 1
         /\ \A x, y \in S : <<x, y>> \in R => Cardinality(Ahead(S, R, x)) < Cardinality(Ahead(S, R, y))
<1>1. ASSUME NEW x, NEW A \in SUBSET S, NEW B \in SUBSET S, A \subseteq B, x \in B, x \notin A
      PROVE  Cardinality(A) \in Nat /\ Cardinality(B) \in Nat /\ Cardinality(A) < Cardinality(B)
  <2>1. IsFiniteSet(A) /\ IsFiniteSet(B) /\ Cardinality(A) \in Nat /\ Cardinality(B) \in Nat
    BY FS_Subset, FS_CardinalityType
  <2>2. Cardinality(A) <= Cardinality(B) /\ (Cardinality(A) = Cardinality(B) => A = B)
    BY <1>1, <2>1, FS_Subset
  <2>. QED
    BY <1>1, <2>1, <2>2
<1>2. Cardinality(S) \in Nat
  BY FS_CardinalityType
<1>3. \A x \in S : Ahead(S, R, x) \in SUBSET S /\ x \notin Ahead(S, R, x)
  BY DEF Ahead, StrictOrder
<1>4. \A x \in S : Cardinality(Ahead(S, R, x)) \in 0 .. Cardinality(S) - 1
  <2>. TAKE x \in S
  <2>1. Cardinality(Ahead(S, R, x)) \in Nat /\ Cardinality(Ahead(S, R, x)) < Cardinality(S)
    BY <1>1, <1>3
  <2>. QED
    BY <1>2, <2>1
<1>5. ASSUME NEW x \in S, NEW y \in S, <<x, y>> \in R
      PROVE  Cardinality(Ahead(S, R, x)) < Cardinality(Ahead(S, R, y))
  <2>1. Ahead(S, R, x) \subseteq Ahead(S, R, y) /\ x \in Ahead(S, R, y)
    BY <1>5 DEF Ahead, StrictOrder
  <2>. QED
    BY <1>1, <1>3, <2>1
<1>. QED
  BY <1>2, <1>4, <1>5

\* A finite set has an arrangement in any strict order.
LEMMA SortedExists ==
  ASSUME NEW S, IsFiniteSet(S), NEW R, StrictOrder(S, R)
  PROVE  \E s : Sorts(s, S, R)
<1>. DEFINE n == Cardinality(S)
           place(x) == Cardinality(Ahead(S, R, x)) + 1
           f == [x \in S |-> place(x)]
           s == [i \in 1 .. n |-> CHOOSE x \in S : f[x] = i]
<1>1. n \in Nat /\ f \in [S -> 1 .. n] /\ \A x, y \in S : <<x, y>> \in R => f[x] < f[y]
  <2>1. \A x \in S : place(x) \in 1 .. n
    BY AheadCounts
  <2>2. \A x, y \in S : <<x, y>> \in R => place(x) < place(y)
    BY AheadCounts
  <2>. HIDE DEF place
  <2>. QED
    BY <2>1, <2>2, AheadCounts
<1>. HIDE DEF f, n
<1>2. \A x, y \in S : f[x] = f[y] => x = y
  <2>. SUFFICES ASSUME NEW x \in S, NEW y \in S, f[x] = f[y], x # y
                PROVE  FALSE
    OBVIOUS
  <2>1. f[x] \in Int /\ f[y] \in Int /\ ~ f[x] < f[y] /\ ~ f[y] < f[x]
    BY <1>1
  <2>. QED
    BY <1>1, <2>1 DEF StrictOrder
<1>3. f \in Surjection(S, 1 .. n)
  <2>1. f \in Injection(S, 1 .. n)
    BY <1>1, <1>2, Fun_IsInj
  <2>2. IsFiniteSet(1 .. n) /\ Cardinality(1 .. n) = n
    BY <1>1, FS_Interval
  <2>. QED
    BY <2>1, <2>2, FS_Injection DEF n
<1>4. \A i \in 1 .. n : s[i] \in S /\ f[s[i]] = i
  <2>. TAKE i \in 1 .. n
  <2>1. \E x \in S : f[x] = i
    BY <1>3 DEF Surjection
  <2>. QED
    BY <2>1
<1>5. s \in [1 .. n -> S] /\ DOMAIN s = 1 .. n
  BY <1>4
<1>. HIDE DEF s
<1>6. ASSUME NEW i \in 1 .. n, NEW j \in 1 .. n, i < j
      PROVE  <<s[i], s[j]>> \in R
  <2>1. s[i] # s[j] /\ ~ f[s[j]] < f[s[i]]
    BY <1>1, <1>4, <1>6
  <2>. QED
    BY <1>1, <1>4, <2>1 DEF StrictOrder
<1>7. Sorts(s, S, R)
  BY <1>5, <1>6 DEF Sorts, n
<1>. QED
  BY <1>7

\* The i-th element of the arrangement has i - 1 elements ahead of it.
LEMMA SortedFacts ==
  ASSUME NEW S, IsFiniteSet(S), NEW R, StrictOrder(S, R), NEW s, Sorts(s, S, R)
  PROVE  /\ IsList(s) /\ s \in Seq(S) /\ Len(s) = Cardinality(S)
         /\ \A x \in S : \E i \in 1 .. Len(s) : s[i] = x
         /\ \A i \in 1 .. Len(s) : s[i] \in S /\ Cardinality(Ahead(S, R, s[i])) = i - 1
<1>. DEFINE n == Cardinality(S)
<1>1. n \in Nat /\ s \in [1 .. n -> S] /\ \A i, j \in 1 .. n : i < j => <<s[i], s[j]>> \in R
  BY FS_CardinalityType DEF Sorts
<1>2. s \in Seq(S) /\ Len(s) = n
  BY <1>1
<1>3. \A i, j \in 1 .. n : s[i] = s[j] => i = j
  <2>. SUFFICES ASSUME NEW i \in 1 .. n, NEW j \in 1 .. n, s[i] = s[j], i # j
                PROVE  FALSE
    OBVIOUS
  <2>1. i < j \/ j < i
    BY <1>1
  <2>. QED
    BY <1>1, <2>1 DEF StrictOrder
<1>4. s \in Surjection(1 .. n, S)
  <2>. HIDE DEF n
  <2>1. s \in Injection(1 .. n, S)
    BY <1>1, <1>3, Fun_IsInj
  <2>2. IsFiniteSet(1 .. n) /\ Cardinality(1 .. n) = n
    BY <1>1, FS_Interval
  <2>. QED
    BY <2>1, <2>2, FS_Injection DEF n
<1>5. \A x \in S : \E i \in 1 .. n : s[i] = x
  BY <1>4 DEF Surjection
<1>6. ASSUME NEW i \in 1 .. n
      PROVE  Cardinality(Ahead(S, R, s[i])) = i - 1
  <2>. HIDE DEF n
  <2>. DEFINE m == i - 1
             A == Ahead(S, R, s[i])
             g == [j \in 1 .. m |-> s[j]]
  <2>1. m \in Nat /\ \A j \in 1 .. m : j \in 1 .. n /\ j < i
    BY <1>1, <1>6
  <2>2. \A j \in 1 .. m : s[j] \in A
    BY <1>1, <2>1 DEF Ahead
  <2>3. \A x \in A : \E j \in 1 .. m : s[j] = x
    <3>. TAKE x \in A
    <3>1. x \in S /\ <<x, s[i]>> \in R /\ s[i] \in S
      BY <1>1 DEF Ahead
    <3>2. PICK j \in 1 .. n : s[j] = x
      BY <1>5, <3>1
    <3>3. <<s[i], x>> \notin R /\ x # s[i]
      BY <3>1 DEF StrictOrder
    <3>4. j < i
      BY <1>1, <3>2, <3>3
    <3>. QED
      BY <1>1, <3>2, <3>4
  <2>. HIDE DEF A, m
  <2>4. g \in [1 .. m -> A] /\ \A j \in 1 .. m : g[j] = s[j]
    BY <2>2
  <2>. HIDE DEF g
  <2>5. g \in Bijection(1 .. m, A)
    <3>1. \A j, k \in 1 .. m : g[j] = g[k] => j = k
      BY <1>3, <2>1, <2>4
    <3>2. \A x \in A : \E j \in 1 .. m : g[j] = x
      BY <2>3, <2>4
    <3>. QED
      BY <2>4, <3>1, <3>2, Fun_IsBij
  <2>. QED
    BY <2>1, <2>5, FS_CountingElements DEF ExistsBijection, m, A
<1>. QED
  BY <1>1, <1>2, <1>5, <1>6, SeqIsList

\* The order in which snapshots are sorted: newest first.
AgeOrder(fs, S) == {p \in S \X S : Older(fs, p[2], p[1])}
Dated(fs, S) == IsFiniteSet(S) /\ S \subseteq SnapshotName /\ \A f \in S : fs[f].persisted \in Nat

\* Dated snapshots are strictly ordered by age, the names deciding between equals.
LEMMA AgeIsOrder ==
  ASSUME NEW fs, NEW S, Dated(fs, S)
  PROVE  StrictOrder(S, AgeOrder(fs, S))
<1>1. \A f \in S : fs[f].persisted \in Nat /\ f.at \in Nat /\ f.tail \in Nat
  BY DEF Dated, SnapshotName
<1>2. \A f, g \in S : <<f, g>> \in AgeOrder(fs, S) <=> Older(fs, g, f)
  BY DEF AgeOrder
<1>3. \A f, g \in S : f # g => f.at # g.at \/ f.tail # g.tail
  BY DEF Dated, SnapshotName
<1>4. \A f \in S : ~ Older(fs, f, f)
  BY <1>1 DEF Older, NameBefore
<1>5. \A f, g \in S : f # g => Older(fs, f, g) \/ Older(fs, g, f)
  BY <1>1, <1>3 DEF Older, NameBefore
<1>6. \A f, g, e \in S : Older(fs, f, g) /\ Older(fs, g, e) => Older(fs, f, e)
  BY <1>1 DEF Older, NameBefore
<1>. QED
  BY <1>2, <1>4, <1>5, <1>6 DEF StrictOrder

\* The i-th snapshot of the sort has i - 1 younger ones.
LEMMA NewestFirstFacts ==
  ASSUME NEW fs, NEW S, Dated(fs, S), NEW s, s = NewestFirst(fs, S)
  PROVE  /\ IsList(s) /\ s \in Seq(S) /\ Len(s) = Cardinality(S)
         /\ \A f \in S : \E i \in 1 .. Len(s) : s[i] = f
         /\ \A i \in 1 .. Len(s) : s[i] \in S /\ Cardinality(Younger(fs, S, s[i])) = i - 1
<1>. DEFINE R == AgeOrder(fs, S)
           before(f, g) == Older(fs, g, f)
           sorted(q) == q \in [1 .. Cardinality(S) -> S] /\ \A i, j \in DOMAIN q : i < j => Older(fs, q[j], q[i])
<1>1. IsFiniteSet(S) /\ StrictOrder(S, R)
  BY AgeIsOrder DEF Dated
<1>2. \A q : Sorts(q, S, R) <=> sorted(q)
  BY DEF Sorts, AgeOrder
<1>3. s = CHOOSE q \in [1 .. Cardinality(S) -> S] : \A i, j \in DOMAIN q : i < j => Older(fs, q[j], q[i])
  BY DEF NewestFirst, InOrder
<1>4. \E q : sorted(q)
  BY <1>1, <1>2, SortedExists
<1>5. sorted(s)
  BY <1>3, <1>4
<1>6. Sorts(s, S, R)
  BY <1>2, <1>5
<1>. HIDE DEF R
<1>7. /\ IsList(s) /\ s \in Seq(S) /\ Len(s) = Cardinality(S)
      /\ \A f \in S : \E i \in 1 .. Len(s) : s[i] = f
      /\ \A i \in 1 .. Len(s) : s[i] \in S /\ Cardinality(Ahead(S, R, s[i])) = i - 1
  BY <1>1, <1>6, SortedFacts
<1>8. \A f \in S : Ahead(S, R, f) = Younger(fs, S, f)
  BY DEF Ahead, R, AgeOrder, Younger
<1>9. \A i \in 1 .. Len(s) : s[i] \in S /\ Cardinality(Younger(fs, S, s[i])) = i - 1
  BY <1>7, <1>8
<1>. QED
  BY <1>7, <1>9

\* What a retention chooses of the snapshots.
LEMMA MatchedFacts ==
  ASSUME NEW fs, NEW r, NEW at \in Nat, Dated(fs, Candidates(fs, r)),
         Limits(r.keep) \subseteq Nat, Limits(r.maxAge) \subseteq Nat
  PROVE  /\ IsList(Matched(fs, r, at)) /\ Matched(fs, r, at) \in Seq(Candidates(fs, r))
         /\ \A k \in 1 .. Len(Matched(fs, r, at)) : Goes(fs, r, at, Matched(fs, r, at)[k])
         /\ \A f \in Candidates(fs, r) :
              Goes(fs, r, at, f) => \E k \in 1 .. Len(Matched(fs, r, at)) : Matched(fs, r, at)[k] = f
<1>. DEFINE C == Candidates(fs, r)
           newest == NewestFirst(fs, C)
           gone(i) == (\E k \in Limits(r.keep) : i > k) \/ TooOld(fs[newest[i]], r, at)
           G == {newest[i] : i \in {j \in DOMAIN newest : gone(j)}}
           s == NewestFirst(fs, G)
<1>1. /\ IsList(newest) /\ newest \in Seq(C)
      /\ \A f \in C : \E i \in 1 .. Len(newest) : newest[i] = f
      /\ \A i \in 1 .. Len(newest) : newest[i] \in C /\ Cardinality(Younger(fs, C, newest[i])) = i - 1
  <2>. HIDE DEF newest, C, G, s, gone
  <2>1. Dated(fs, C) /\ newest = NewestFirst(fs, C)
    BY DEF newest, C
  <2>. QED
    BY ONLY SMTT(30), <2>1, NewestFirstFacts
<1>2. Matched(fs, r, at) = s
  BY DEF Matched
<1>. HIDE DEF newest, C
<1>3. DOMAIN newest = 1 .. Len(newest) /\ Len(newest) \in Nat
  BY <1>1, ListFacts
<1>4. \A f \in C : TooOld(fs[f], r, at) <=> \E a \in Limits(r.maxAge) : fs[f].persisted > 0 /\ at > fs[f].persisted + a
  <2>. TAKE f \in C
  <2>1. fs[f].persisted \in Nat
    BY DEF Dated, C
  <2>2. \A a \in Limits(r.maxAge) : at - fs[f].persisted > a <=> at > fs[f].persisted + a
    BY <2>1
  <2>. QED
    BY <2>2 DEF TooOld
<1>5. \A i \in 1 .. Len(newest) : gone(i) <=> Goes(fs, r, at, newest[i])
  <2>. TAKE i \in 1 .. Len(newest)
  <2>1. newest[i] \in C /\ Cardinality(Newer(fs, r, newest[i])) = i - 1
    BY <1>1 DEF Newer, C
  <2>2. (\E k \in Limits(r.keep) : i > k) <=> \E k \in Limits(r.keep) : Cardinality(Newer(fs, r, newest[i])) >= k
    <3>1. \A k \in Limits(r.keep) : i > k <=> i - 1 >= k
      BY <1>3
    <3>. QED
      BY <2>1, <3>1
  <2>3. TooOld(fs[newest[i]], r, at)
          <=> \E a \in Limits(r.maxAge) : fs[newest[i]].persisted > 0 /\ at > fs[newest[i]].persisted + a
    BY <1>4, <2>1
  <2>. QED
    BY <2>2, <2>3 DEF Goes
<1>. HIDE DEF gone
<1>6. G \subseteq C /\ \A f \in C : f \in G <=> Goes(fs, r, at, f)
  <2>1. G \subseteq C /\ \A f \in G : Goes(fs, r, at, f)
    BY <1>1, <1>3, <1>5
  <2>2. \A f \in C : Goes(fs, r, at, f) => f \in G
    BY <1>1, <1>3, <1>5
  <2>. QED
    BY <2>1, <2>2
<1>. HIDE DEF G
<1>7. Dated(fs, G)
  <2>1. IsFiniteSet(G)
    BY <1>6, FS_Subset DEF Dated, C
  <2>. QED
    BY <1>6, <2>1 DEF Dated, C
<1>8. /\ IsList(s) /\ s \in Seq(G)
      /\ \A f \in G : \E i \in 1 .. Len(s) : s[i] = f
      /\ \A i \in 1 .. Len(s) : s[i] \in G
  <2>. HIDE DEF s
  <2>1. s = NewestFirst(fs, G)
    BY DEF s
  <2>2. /\ IsList(s) /\ s \in Seq(G) /\ Len(s) = Cardinality(G)
        /\ \A f \in G : \E i \in 1 .. Len(s) : s[i] = f
        /\ \A i \in 1 .. Len(s) : s[i] \in G /\ Cardinality(Younger(fs, G, s[i])) = i - 1
    BY ONLY <1>7, <2>1, NewestFirstFacts
  <2>. QED
    BY <2>2
<1>. HIDE DEF s
<1>9. s \in Seq(C)
  BY <1>6, <1>8, SeqMonotonic
<1>10. /\ \A k \in 1 .. Len(s) : Goes(fs, r, at, s[k])
       /\ \A f \in C : Goes(fs, r, at, f) => \E k \in 1 .. Len(s) : s[k] = f
  BY <1>6, <1>8
<1>. QED
  BY <1>2, <1>8, <1>9, <1>10 DEF C

\* The targets of a set of rows are a list of the targets of these rows.
LEMMA TargetsFacts ==
  ASSUME IsList(lines.rows), NEW P \in SUBSET DOMAIN lines.rows
  PROVE  /\ IsList(TargetsOf(P))
         /\ \A k \in 1 .. Len(TargetsOf(P)) : \E i \in P : TargetsOf(P)[k] = lines.rows[i].target
         /\ TargetsOf(P) = <<>> => P = {}
<1>. DEFINE n == Len(lines.rows)
           R == {p \in P \X P : p[1] < p[2]}
           order == InOrder(P, <)
           sorted(q) == q \in [1 .. Cardinality(P) -> P] /\ \A i, j \in DOMAIN q : i < j => q[i] < q[j]
<1>1. n \in Nat /\ DOMAIN lines.rows = 1 .. n
  BY ListFacts
<1>2. IsFiniteSet(P) /\ P \subseteq Nat
  <2>1. IsFiniteSet(1 .. n) /\ P \subseteq 1 .. n
    BY <1>1, FS_Interval
  <2>. QED
    BY <1>1, <2>1, FS_Subset
<1>3. StrictOrder(P, R)
  BY <1>2 DEF StrictOrder
<1>4. \A q : Sorts(q, P, R) <=> sorted(q)
  BY DEF Sorts
<1>5. order = CHOOSE q \in [1 .. Cardinality(P) -> P] : \A i, j \in DOMAIN q : i < j => q[i] < q[j]
  BY DEF InOrder
<1>6. \E q : sorted(q)
  BY <1>2, <1>3, <1>4, SortedExists
<1>7. sorted(order)
  <2>. HIDE DEF order
  <2>. QED
    BY <1>5, <1>6
<1>8. Sorts(order, P, R)
  BY <1>4, <1>7
<1>9. TargetsOf(P) = [k \in DOMAIN order |-> lines.rows[order[k]].target]
  BY DEF TargetsOf
<1>. HIDE DEF order, R
<1>10. /\ IsList(order) /\ Len(order) = Cardinality(P) /\ \A i \in 1 .. Len(order) : order[i] \in P
  BY <1>2, <1>3, <1>8, SortedFacts
<1>11. DOMAIN order = 1 .. Len(order) /\ Len(order) \in Nat
  BY <1>10, ListFacts
<1>. DEFINE S == {lines.rows[i].target : i \in P}
           s == [k \in 1 .. Len(order) |-> lines.rows[order[k]].target]
<1>12. s \in Seq(S) /\ Len(s) = Len(order)
  BY <1>10, <1>11
<1>13. IsList(s)
  BY <1>12, SeqIsList
<1>14. s = <<>> => P = {}
  <2>1. s = <<>> => Len(order) = 0
    BY <1>12
  <2>. QED
    BY <1>2, <1>10, <2>1, FS_EmptySet
<1>15. \A k \in 1 .. Len(s) : \E i \in P : s[k] = lines.rows[i].target
  BY <1>10, <1>12
<1>. QED
  BY SMTT(30), <1>9, <1>11, <1>13, <1>14, <1>15

------------------------------------------------------------------------------
(* What a step does to the threads. *)

\* A thread in the middle of a request.
Ready(s, t) ==
  /\ DOMAIN h = Threads /\ t \in Threads /\ Work(h[t]) /\ Honest(h[t], touched, mixed) /\ Logs /\ now \in Nat
  /\ h[t].r \in s.requests /\ (h[t].at = "begin" => h[t].r.id \notin touched)

Stays(t) == DOMAIN h' = Threads /\ \A u \in Threads \ {t} : h'[u] = h[u]

Grows(t) == /\ touched \subseteq touched' /\ touched' \subseteq touched \cup {h[t].r.id}
            /\ mixed \subseteq mixed'
            /\ todo' = todo /\ now' = now

Continues(t) ==
  /\ Stays(t) /\ Grows(t) /\ Busy(t)
  /\ h'[t].r = h[t].r /\ h'[t].alone = h[t].alone /\ h'[t].at \notin {"idle", "begin"}
  /\ outcome' = outcome /\ lines'.audit = lines.audit
  /\ Work(h'[t]) /\ Honest(h'[t], touched', mixed') /\ Logs'

\* A request that is refused has changed nothing or has stopped halfway; one that was
\* audited is in the log.
Answered(t, how) ==
  \/ /\ lines'.audit = lines.audit
     /\ how \in {500, Dropped} \/ h[t].r.id \notin touched
  \/ /\ lines'.audit = Append(lines.audit, [id |-> h[t].r.id, kind |-> h[t].r.kind, ok |-> how = 200, role |-> h[t].role])
     /\ how \in {400, 403, 404, 422} => h[t].r.id \notin touched \/ (how = 422 /\ h[t].r.id \in mixed)

Finishes(t) ==
  /\ Stays(t) /\ Grows(t) /\ Busy(t)
  /\ h'[t] = Idle
  /\ \E how \in Statuses \cup {Dropped} : outcome' = [outcome EXCEPT ![h[t].r.id] = how] /\ Answered(t, how)
  /\ touched' = touched /\ Logs'

Steps(t) == Continues(t) \/ Finishes(t)

\* Only the acting thread moves.
LEMMA Moved ==
  ASSUME DOMAIN h = Threads, NEW t \in Threads, NEW x, Becomes(t, x)
  PROVE  Stays(t) /\ h'[t] = x
BY DEF Becomes, Stays

\* What most steps leave as it is.
Quiet == UNCHANGED <<todo, now, outcome, touched>> /\ mixed \subseteq mixed' /\ lines' = lines

\* A step after which the request is still being served.
LEMMA Changes ==
  ASSUME NEW s \in Scenes, NEW t \in Threads, Ready(s, t), Busy(t), NEW x, Becomes(t, x),
         Work(x), Honest(x, touched', mixed'), x.r = h[t].r, x.alone = h[t].alone, x.at \notin {"idle", "begin"},
         Grows(t), outcome' = outcome, lines'.audit = lines.audit, Logs'
  PROVE  Continues(t)
BY Moved DEF Ready, Continues

\* The same when nothing but files has changed.
LEMMA QuietChanges ==
  ASSUME NEW s \in Scenes, NEW t \in Threads, Ready(s, t), Busy(t), NEW x, Becomes(t, x), Quiet,
         Work(x), Honest(x, touched, mixed), x.r = h[t].r, x.alone = h[t].alone, x.at \notin {"idle", "begin"}
  PROVE  Continues(t)
<1>1. Honest(x, touched', mixed')
  BY DEF Quiet, Honest, Spared
<1>2. Grows(t) /\ outcome' = outcome /\ lines'.audit = lines.audit /\ Logs'
  BY DEF Quiet, Grows, Ready, Logs
<1>. QED
  BY <1>1, <1>2, Changes

\* The request is answered with a status.
LEMMA Answering ==
  ASSUME NEW s \in Scenes, NEW t \in Threads, Ready(s, t), Busy(t), NEW status \in Statuses, Quiet,
         Becomes(t, [h[t] EXCEPT !.at = "audit", !.status = status]),
         status \in {200, 500} \/ h[t].r.id \notin touched \/ (status = 422 /\ h[t].r.id \in mixed)
  PROVE  Continues(t)
<1>. DEFINE x == [h[t] EXCEPT !.at = "audit", !.status = status]
<1>1. DOMAIN x = Fields /\ x.at = "audit" /\ x.status = status /\ \A f \in Fields \ {"at", "status"} : x[f] = h[t][f]
  BY DEF Ready, Work, Fields
<1>. HIDE DEF x
<1>2. Becomes(t, x)
  BY DEF x
<1>3. Work(x) /\ Honest(x, touched, mixed)
  BY <1>1 DEF Ready, Work, Honest, Spared, Fields, Places, Deleting
<1>4. x.r = h[t].r /\ x.alone = h[t].alone
  BY <1>1 DEF Fields
<1>. QED
  BY <1>1, <1>2, <1>3, <1>4, QuietChanges

\* The request ends.
LEMMA Finishing ==
  ASSUME NEW s \in Scenes, NEW t \in Threads, Ready(s, t), Busy(t), NEW how \in Statuses \cup {Dropped}, Ends(t, how),
         UNCHANGED <<todo, now, touched>>, mixed \subseteq mixed', lines' = lines,
         how \in {500, Dropped} \/ h[t].r.id \notin touched
  PROVE  Finishes(t)
<1>1. Stays(t) /\ h'[t] = Idle
  BY Moved DEF Ends, Ready
<1>2. Logs' /\ Grows(t)
  BY DEF Logs, Ready, Grows
<1>. QED
  BY <1>1, <1>2 DEF Finishes, Ends, Answered

\* The workflow file and "no file" are not snapshots.
LEMMA FilesApart == Workflow \notin SnapshotName /\ Workflow.dir # Dir /\ \A f \in SnapshotName : f.dir = Dir /\ f # NoFile
<1>1. /\ \A f \in SnapshotName : f.dir = Dir
      /\ Workflow.dir = "run" /\ NoFile.dir = "" /\ Dir = "snapshots"
  BY DEF SnapshotName, Workflow, NoFile, Dir
<1>. QED
  BY <1>1

\* Opening a file for writing goes on with the request.
LEMMA TruncateStep ==
  ASSUME NEW s \in Scenes, NEW t \in Threads, Ready(s, t), Truncate(t)
  PROVE  Steps(t)
<1>. DEFINE p == "fill"
           x == [h[t] EXCEPT !.at = p]
<1>1. DOMAIN x = Fields /\ x.at = p /\ \A f \in Fields \ {"at"} : x[f] = h[t][f]
  BY DEF Ready, Work, Fields
<1>2. Becomes(t, x) /\ Busy(t) /\ p \in Places \ {"idle", "begin"}
  BY DEF Truncate, Busy, Places
<1>. HIDE DEF x
<1>3. Work(x) /\ Honest(x, touched', mixed')
  BY <1>1 DEF Ready, Work, Honest, Spared, Busy, Single, Edits, Deleting, Fields, Places, Statuses, Logs, Grows, history, disk, counters, Truncate, Touches
<1>4. Grows(t) /\ outcome' = outcome /\ lines'.audit = lines.audit /\ Logs'
  BY DEF Ready, Work, Honest, Spared, Busy, Single, Edits, Deleting, Fields, Places, Statuses, Logs, Grows, history, disk, counters, Truncate, Touches
<1>5. x.r = h[t].r /\ x.alone = h[t].alone
  BY <1>1 DEF Fields
<1>. QED
  BY <1>1, <1>2, <1>3, <1>4, <1>5, Changes DEF Steps

\* So does writing the markdown.
LEMMA MarkdownStep ==
  ASSUME NEW s \in Scenes, NEW t \in Threads, Ready(s, t), WriteMarkdown(t)
  PROVE  Steps(t)
<1>. DEFINE p == "audit"
           x == [h[t] EXCEPT !.at = p]
<1>1. DOMAIN x = Fields /\ x.at = p /\ \A f \in Fields \ {"at"} : x[f] = h[t][f]
  BY DEF Ready, Work, Fields
<1>2. Becomes(t, x) /\ Busy(t) /\ p \in Places \ {"idle", "begin"}
  BY DEF WriteMarkdown, Busy, Places
<1>. HIDE DEF x
<1>3. Work(x) /\ Honest(x, touched', mixed')
  BY <1>1 DEF Ready, Work, Honest, Spared, Busy, Single, Edits, Deleting, Fields, Places, Statuses, Logs, Grows, history, disk, counters, WriteMarkdown
<1>4. Grows(t) /\ outcome' = outcome /\ lines'.audit = lines.audit /\ Logs'
  BY DEF Ready, Work, Honest, Spared, Busy, Single, Edits, Deleting, Fields, Places, Statuses, Logs, Grows, history, disk, counters, WriteMarkdown
<1>5. x.r = h[t].r /\ x.alone = h[t].alone
  BY <1>1 DEF Fields
<1>. QED
  BY <1>1, <1>2, <1>3, <1>4, <1>5, Changes DEF Steps

\* So does filling the workflow file.
LEMMA FillWorkflowStep ==
  ASSUME NEW s \in Scenes, NEW t \in Threads, Ready(s, t), FillWorkflow(t)
  PROVE  Steps(t)
<1>. DEFINE p == IF h[t].r.kind = "action" THEN "log" ELSE "audit"
           x == [h[t] EXCEPT !.at = p]
<1>1. DOMAIN x = Fields /\ x.at = p /\ \A f \in Fields \ {"at"} : x[f] = h[t][f]
  BY DEF Ready, Work, Fields
<1>2. Becomes(t, x) /\ Busy(t) /\ p \in Places \ {"idle", "begin"}
  BY DEF FillWorkflow, Busy, Places
<1>. HIDE DEF x
<1>3. Work(x) /\ Honest(x, touched', mixed')
  BY <1>1, FilesApart DEF Ready, Work, Honest, Spared, Busy, Single, Edits, Deleting, Fields, Places, Statuses, Logs, Grows, history, disk, counters, FillWorkflow
<1>4. Grows(t) /\ outcome' = outcome /\ lines'.audit = lines.audit /\ Logs'
  BY DEF Ready, Work, Honest, Spared, Busy, Single, Edits, Deleting, Fields, Places, Statuses, Logs, Grows, history, disk, counters, FillWorkflow
<1>5. x.r = h[t].r /\ x.alone = h[t].alone
  BY <1>1 DEF Fields
<1>. QED
  BY <1>1, <1>2, <1>3, <1>4, <1>5, Changes DEF Steps

\* So does the line in the log of actions.
LEMMA LogActionStep ==
  ASSUME NEW s \in Scenes, NEW t \in Threads, Ready(s, t), LogAction(t)
  PROVE  Steps(t)
<1>. DEFINE p == "audit"
           x == [h[t] EXCEPT !.at = p]
<1>0. h[t].at = "log" /\ UNCHANGED history
  BY DEF LogAction, history
<1>1. DOMAIN x = Fields /\ x.at = p /\ \A f \in Fields \ {"at"} : x[f] = h[t][f]
  BY DEF Ready, Work, Fields
<1>2. Becomes(t, x) /\ Busy(t) /\ p \in Places \ {"idle", "begin"}
  BY DEF LogAction, Busy, Places
<1>. HIDE DEF x
<1>3. Work(x) /\ Honest(x, touched', mixed')
  BY <1>0, <1>1 DEF Ready, Work, Honest, Spared, Busy, Single, Edits, Deleting, Fields, Places, Statuses, Logs, Grows, history, disk, counters
<1>4. Grows(t) /\ outcome' = outcome /\ lines'.audit = lines.audit /\ Logs'
  BY Appended  DEF Ready, Work, Honest, Spared, Busy, Single, Edits, Deleting, Fields, Places, Statuses, Logs, Grows, history, disk, counters, LogAction, Log
<1>5. x.r = h[t].r /\ x.alone = h[t].alone
  BY <1>1 DEF Fields
<1>. QED
  BY <1>1, <1>2, <1>3, <1>4, <1>5, Changes DEF Steps

\* So does the line in the log of deliveries.
LEMMA CloseDeliveryStep ==
  ASSUME NEW s \in Scenes, NEW t \in Threads, Ready(s, t), CloseDelivery(t)
  PROVE  Steps(t)
<1>. DEFINE p == "audit"
           x == [h[t] EXCEPT !.at = p]
<1>0. h[t].at = "deliver" /\ UNCHANGED history
  BY DEF CloseDelivery, history
<1>1. DOMAIN x = Fields /\ x.at = p /\ \A f \in Fields \ {"at"} : x[f] = h[t][f]
  BY DEF Ready, Work, Fields
<1>2. Becomes(t, x) /\ Busy(t) /\ p \in Places \ {"idle", "begin"}
  BY DEF CloseDelivery, Busy, Places
<1>. HIDE DEF x
<1>3. Work(x) /\ Honest(x, touched', mixed')
  BY <1>0, <1>1 DEF Ready, Work, Honest, Spared, Busy, Single, Edits, Deleting, Fields, Places, Statuses, Logs, Grows, history, disk, counters
<1>4. Grows(t) /\ outcome' = outcome /\ lines'.audit = lines.audit /\ Logs'
  BY Appended  DEF Ready, Work, Honest, Spared, Busy, Single, Edits, Deleting, Fields, Places, Statuses, Logs, Grows, history, disk, counters, CloseDelivery, Log
<1>5. x.r = h[t].r /\ x.alone = h[t].alone
  BY <1>1 DEF Fields
<1>. QED
  BY <1>1, <1>2, <1>3, <1>4, <1>5, Changes DEF Steps

\* Starting a run goes on or answers.
LEMMA TriggerStep ==
  ASSUME NEW s \in Scenes, NEW t \in Threads, Ready(s, t), Trigger(t)
  PROVE  Steps(t)
<1>. DEFINE p == "audit"
           x == [h[t] EXCEPT !.at = p]
<1>1. DOMAIN x = Fields /\ x.at = p /\ \A f \in Fields \ {"at"} : x[f] = h[t][f]
  BY DEF Ready, Work, Fields
<1>2. Becomes(t, x) /\ Busy(t) /\ p \in Places \ {"idle", "begin"}
  BY DEF Trigger, Busy, Places
<1>. HIDE DEF x
<1>3. Work(x) /\ Honest(x, touched', mixed')
  BY <1>1 DEF Ready, Work, Honest, Spared, Busy, Single, Edits, Deleting, Fields, Places, Statuses, Logs, Grows, history, disk, counters, Trigger, Touches
<1>4. Grows(t) /\ outcome' = outcome /\ lines'.audit = lines.audit /\ Logs'
  BY DEF Ready, Work, Honest, Spared, Busy, Single, Edits, Deleting, Fields, Places, Statuses, Logs, Grows, history, disk, counters, Trigger, Touches
<1>5. x.r = h[t].r /\ x.alone = h[t].alone
  BY <1>1 DEF Fields
<1>. QED
  BY <1>1, <1>2, <1>3, <1>4, <1>5, Changes DEF Steps

\* Stopping a run goes on or answers.
LEMMA TriggerStopStep ==
  ASSUME NEW s \in Scenes, NEW t \in Threads, Ready(s, t), TriggerStop(t)
  PROVE  Steps(t)
<1>. DEFINE p == "audit"
           x == [h[t] EXCEPT !.at = p]
<1>1. DOMAIN x = Fields /\ x.at = p /\ \A f \in Fields \ {"at"} : x[f] = h[t][f]
  BY DEF Ready, Work, Fields
<1>2. Becomes(t, x) /\ Busy(t) /\ p \in Places \ {"idle", "begin"}
  BY DEF TriggerStop, Busy, Places
<1>. HIDE DEF x
<1>3. Work(x) /\ Honest(x, touched', mixed')
  BY <1>1 DEF Ready, Work, Honest, Spared, Busy, Single, Edits, Deleting, Fields, Places, Statuses, Logs, Grows, history, disk, counters, TriggerStop, Touches
<1>4. Grows(t) /\ outcome' = outcome /\ lines'.audit = lines.audit /\ Logs'
  BY DEF Ready, Work, Honest, Spared, Busy, Single, Edits, Deleting, Fields, Places, Statuses, Logs, Grows, history, disk, counters, TriggerStop, Touches
<1>5. x.r = h[t].r /\ x.alone = h[t].alone
  BY <1>1 DEF Fields
<1>. QED
  BY <1>1, <1>2, <1>3, <1>4, <1>5, Changes DEF Steps

\* The record of a request that is going to write a file.
LEMMA WritingRecord ==
  ASSUME NEW w, NEW x, NEW T, NEW M, Work(w), Honest(w, T, M), w.at \in {"begin", "next"}, w.at = "begin" => w.r.id \notin T,
         DOMAIN x = Fields, x.at = "write", \A g \in Fields \ {"at", "file", "rec"} : x[g] = w[g],
         \/ w.r.kind \in {"save", "import"} \cup Edits /\ x.file \in SnapshotName
         \/ w.r.kind \in {"workflow", "action"} /\ x.file = Workflow,
         w.r.kind \in Edits => w.at = "next" /\ w.ids # <<>>,
         w.r.kind \notin Edits => w.at = "begin"
  PROVE  Work(x) /\ Honest(x, T, M)
<1>1. x.ids = w.ids /\ x.r = w.r /\ x.status = w.status /\ x.hits = w.hits
  BY DEF Work, Fields
<1>2. Work(x)
  BY <1>1 DEF Work, Fields, Places, Deleting
<1>3. CASE w.at = "begin"
  BY <1>1, <1>2, <1>3 DEF Honest, Single, Edits, Deleting
<1>4. CASE w.at = "next"
  BY <1>1, <1>2, <1>4 DEF Honest, Single, Edits, Deleting
<1>. QED
  BY <1>3, <1>4

\* The request is going to write a file.
LEMMA Writing ==
  ASSUME NEW s \in Scenes, NEW t \in Threads, Ready(s, t), h[t].at \in {"begin", "next"}, NEW f, NEW rec, Quiet,
         Becomes(t, [h[t] EXCEPT !.at = "write", !.file = f, !.rec = rec]),
         \/ h[t].r.kind \in {"save", "import"} \cup Edits /\ f \in SnapshotName
         \/ h[t].r.kind \in {"workflow", "action"} /\ f = Workflow,
         h[t].r.kind \in Edits => h[t].at = "next" /\ h[t].ids # <<>>,
         h[t].r.kind \notin Edits => h[t].at = "begin"
  PROVE  Continues(t)
<1>. DEFINE x == [h[t] EXCEPT !.at = "write", !.file = f, !.rec = rec]
<1>1. /\ DOMAIN x = Fields /\ x.at = "write" /\ x.file = f
      /\ \A g \in Fields \ {"at", "file", "rec"} : x[g] = h[t][g]
  BY DEF Ready, Work, Fields
<1>. HIDE DEF x
<1>2. Becomes(t, x)
  BY DEF x
<1>3. Work(x) /\ Honest(x, touched, mixed)
  BY <1>1, WritingRecord DEF Ready
<1>4. x.r = h[t].r /\ x.alone = h[t].alone
  BY <1>1 DEF Fields
<1>. QED
  BY <1>1, <1>2, <1>3, <1>4, QuietChanges DEF Busy

\* The record of a request that is done with the first of its snapshots.
LEMMA SkippingRecord ==
  ASSUME NEW w, NEW x, NEW T, NEW M, NEW N, Work(w), Honest(w, T, M), M \subseteq N,
         w.at \in {"next", "fill"} \cup Deleting, w.ids # <<>>, w.r.kind \in Edits \cup {"delete", "retention"},
         DOMAIN x = Fields, x.at = "next", x.ids = Tail(w.ids),
         \A f \in Fields \ {"at", "ids", "hits", "bad", "status", "file", "rec"} : x[f] = w[f],
         x.hits \in Nat, x.status \in Statuses,
         \/ w.r.id \in N /\ x.status = 422
         \/ w.at \in {"fill", "look", "unmark"} /\ x.status = w.status /\ x.hits > 0
         \/ w.at \in {"next", "unlink"} /\ x.hits = w.hits
  PROVE  Work(x) /\ Honest(x, T, N)
<1>1. IsList(x.ids) /\ x.r = w.r /\ w.hits \in Nat
  BY ListFacts DEF Work, Fields
<1>2. Work(x)
  BY <1>1 DEF Work, Fields, Places, Deleting
<1>3. CASE w.r.kind = "bulk"
  BY <1>1, <1>2, <1>3 DEF Honest, Single, Deleting
<1>4. CASE w.r.kind \in Single
  <2>1. x.ids = <<>>
    BY <1>4 DEF Honest, Deleting
  <2>2. x.status = 200 \/ Spared(x, T, N)
    BY <1>1, <1>4 DEF Honest, Spared, Deleting
  <2>. QED
    BY <1>1, <1>2, <1>4, <2>1, <2>2 DEF Honest, Single, Deleting
<1>5. CASE w.r.kind = "retention"
  BY <1>1, <1>2, <1>5 DEF Honest, Single, Deleting
<1>. QED
  BY <1>3, <1>4, <1>5 DEF Edits, Single

\* The request is done with the first of its snapshots.
LEMMA Skipping ==
  ASSUME NEW s \in Scenes, NEW t \in Threads, Ready(s, t), h[t].at \in {"next", "fill"} \cup Deleting, h[t].ids # <<>>,
         h[t].r.kind \in Edits \cup {"delete", "retention"},
         NEW x, Becomes(t, x), Quiet, DOMAIN x = Fields, x.at = "next", x.ids = Tail(h[t].ids),
         \A f \in Fields \ {"at", "ids", "hits", "bad", "status", "file", "rec"} : x[f] = h[t][f],
         x.hits \in Nat, x.status \in Statuses,
         \/ h[t].r.id \in mixed' /\ x.status = 422
         \/ h[t].at \in {"fill", "look", "unmark"} /\ x.status = h[t].status /\ x.hits > 0
         \/ h[t].at \in {"next", "unlink"} /\ x.hits = h[t].hits
  PROVE  Continues(t)
<1>1. x.r = h[t].r /\ x.alone = h[t].alone
  BY DEF Fields
<1>2. Work(x) /\ Honest(x, touched, mixed')
  BY SkippingRecord DEF Ready, Quiet
<1>3. Grows(t) /\ outcome' = outcome /\ lines'.audit = lines.audit /\ Logs' /\ touched' = touched
  BY DEF Quiet, Grows, Ready, Logs
<1>. QED
  BY <1>1, <1>2, <1>3, Changes DEF Busy, Deleting

\* A snapshot is left for failed: what becomes of a thread that does.
LEMMA SkippedShape ==
  ASSUME NEW w, Work(w), NEW status
  PROVE  /\ DOMAIN Skipped(w, status) = Fields
         /\ Skipped(w, status).at = "next" /\ Skipped(w, status).ids = Tail(w.ids)
         /\ Skipped(w, status).bad = w.bad \cup {Head(w.ids)} /\ Skipped(w, status).status = status
         /\ \A f \in Fields \ {"at", "ids", "bad", "status"} : Skipped(w, status)[f] = w[f]
BY DEF Skipped, Work, Fields

\* A snapshot is deleted: what becomes of a thread that does.
LEMMA DeletedShape ==
  ASSUME NEW w, Work(w)
  PROVE  /\ DOMAIN Deleted(w) = Fields
         /\ Deleted(w).at = "next" /\ Deleted(w).ids = Tail(w.ids) /\ Deleted(w).hits = w.hits + 1
         /\ \A f \in Fields \ {"at", "ids", "hits"} : Deleted(w)[f] = w[f]
BY DEF Deleted, Work, Fields

\* The first snapshot is left for failed.
LEMMA Skips ==
  ASSUME NEW s \in Scenes, NEW t \in Threads, Ready(s, t), h[t].at \in {"next", "fill"} \cup Deleting, h[t].ids # <<>>,
         h[t].r.kind \in Edits \cup {"delete", "retention"}, NEW status \in {400, 404, 422},
         Becomes(t, Skipped(h[t], status)), Quiet,
         h[t].at \in {"next", "unlink"} \/ (h[t].r.id \in mixed' /\ status = 422)
  PROVE  Continues(t)
<1>. DEFINE x == Skipped(h[t], status)
<1>1. /\ DOMAIN x = Fields /\ x.at = "next" /\ x.ids = Tail(h[t].ids) /\ x.status = status
      /\ \A f \in Fields \ {"at", "ids", "bad", "status"} : x[f] = h[t][f]
  BY SkippedShape DEF Ready
<1>2. Becomes(t, x)
  OBVIOUS
<1>. HIDE DEF x
<1>3. x.hits = h[t].hits /\ x.hits \in Nat /\ x.status \in Statuses
  BY <1>1 DEF Ready, Work, Fields, Statuses
<1>4. \A f \in Fields \ {"at", "ids", "hits", "bad", "status", "file", "rec"} : x[f] = h[t][f]
  BY <1>1
<1>. QED
  BY ZenonT(30), <1>1, <1>2, <1>3, <1>4, Skipping

\* A step that leaves everything but its thread as it is.
LEMMA QuietStep ==
  UNCHANGED <<todo, disk, outcome, counters, history>> => Quiet
BY DEF Quiet, disk, counters, history

\* The end of a loop over snapshots goes on to the answer.
LEMMA EndEachStep ==
  ASSUME NEW s \in Scenes, NEW t \in Threads, Ready(s, t), EndEach(t)
  PROVE  Steps(t)
<1>. DEFINE status == IF h[t].r.kind = "bulk" THEN IF h[t].bad # {} /\ h[t].hits = 0 THEN 422 ELSE 200
                      ELSE IF h[t].r.kind = "retention" THEN 200 ELSE h[t].status
<1>1. /\ h[t].at = "next" /\ Becomes(t, [h[t] EXCEPT !.at = "audit", !.status = status])
      /\ UNCHANGED <<todo, disk, outcome, counters, history>>
  BY DEF EndEach
<1>2. status \in Statuses /\ Busy(t)
  BY <1>1 DEF Ready, Work, Statuses, Busy
<1>3. status \in {200, 500} \/ h[t].r.id \notin touched \/ (status = 422 /\ h[t].r.id \in mixed)
  BY <1>1 DEF Ready, Work, Honest, Spared, Edits, Single, Deleting
<1>. HIDE DEF status
<1>. QED
  BY <1>1, <1>2, <1>3, QuietStep, Answering DEF Steps

\* A launch that fails answers or is recorded as failed.
LEMMA LaunchFailsStep ==
  ASSUME NEW s \in Scenes, NEW t \in Threads, Ready(s, t), LaunchFails(t)
  PROVE  Steps(t)
<1>1. /\ h[t].at = "spawn" /\ Becomes(t, [h[t] EXCEPT !.at = "audit", !.status = 500])
      /\ UNCHANGED <<todo, disk, outcome, now, history>>
  BY DEF LaunchFails
<1>2. Quiet /\ Busy(t) /\ 500 \in Statuses
  BY <1>1 DEF Quiet, disk, history, Busy, Statuses
<1>. QED
  BY ZenonT(30), <1>1, <1>2, Answering DEF Steps

\* A request that is looked at for the first time is turned down.
LEMMA TurnsDown ==
  ASSUME NEW s \in Scenes, NEW t \in Threads, Ready(s, t), h[t].at = "begin", NEW status \in {400, 404, 422, 200},
         Answers(t, status)
  PROVE  Steps(t)
<1>1. Busy(t) /\ h[t].r.id \notin touched /\ status \in Statuses
  BY DEF Busy, Ready, Statuses
<1>2. Becomes(t, [h[t] EXCEPT !.at = "audit", !.status = status]) /\ Quiet
  BY QuietStep DEF Answers, Stay
<1>. QED
  BY ZenonT(30), <1>1, <1>2, Answering DEF Steps

\* The handlers of the three groups answer in the same way.
LEMMA AnswersAlike ==
  ASSUME NEW t, NEW status
  PROVE  (Fails(t, status) <=> Answers(t, status)) /\ (Answer(t, status) <=> Answers(t, status))
BY DEF Fails, Answers, Answer, Stay

\* What may be wrong with a request for a run.
LEMMA RunProblems == \A r : RunProblem(r) \in {200, 400, 404}
BY DEF RunProblem

\* A workflow that is to be written is written next.
LEMMA WritesWorkflowStep ==
  ASSUME NEW s \in Scenes, NEW t \in Threads, Ready(s, t), h[t].at = "begin", h[t].r.kind \in {"workflow", "action"},
         NEW w, WritesWorkflow(t, w)
  PROVE  Steps(t)
<1>1. Becomes(t, [h[t] EXCEPT !.at = "write", !.file = Workflow, !.rec = w]) /\ Quiet
  BY QuietStep DEF WritesWorkflow, Stay
<1>2. h[t].r.kind \notin Edits
  BY DEF Edits
<1>. QED
  BY <1>1, <1>2, Writing DEF Steps

\* Checking a request for a run goes on or answers.
LEMMA CheckStep ==
  ASSUME NEW s \in Scenes, NEW t \in Threads, Ready(s, t), Check(t)
  PROVE  Steps(t)
<1>1. h[t].at = "begin" /\ h[t].r.kind \in RunControls /\ UNCHANGED <<todo, disk, outcome, counters, history>>
  BY DEF Check, Answer
<1>2. CASE \E status \in {200, 404, 422} : Answer(t, status)
  BY <1>1, <1>2, TurnsDown, AnswersAlike
<1>3. CASE \E p \in {"spawn", "stop"} : Becomes(t, [h[t] EXCEPT !.at = p])
  <2>1. PICK p \in {"spawn", "stop"} : Becomes(t, [h[t] EXCEPT !.at = p])
    BY <1>3
  <2>. DEFINE x == [h[t] EXCEPT !.at = p]
  <2>2. DOMAIN x = Fields /\ x.at = p /\ \A f \in Fields \ {"at"} : x[f] = h[t][f]
    BY DEF Ready, Work, Fields
  <2>3. Becomes(t, x)
    BY <2>1
  <2>. HIDE DEF x
  <2>4. x.r = h[t].r /\ x.alone = h[t].alone
    BY <2>2 DEF Fields
  <2>5. Work(x) /\ Honest(x, touched, mixed)
    BY <1>1, <2>1, <2>2 DEF Ready, Work, Honest, Spared, Deleting, Fields, Places, RunControls, Single
  <2>. QED
    BY <1>1, <2>1, <2>2, <2>3, <2>4, <2>5, QuietStep, QuietChanges DEF Steps, Busy
<1>. DEFINE r == h[t].r
           status == CASE ~r.valid                                  -> 422
                       [] r.valid /\ r.kind = "resume" /\ ~Resumable(runs[r.out]) -> 422
                       [] r.valid /\ r.kind \in {"stop", "retry"} /\ ~runs[r.out].known -> 404
                       [] OTHER                                     -> 200
<1>4. status \in {200, 404, 422}
  OBVIOUS
<1>5. Answer(t, status) \/ Becomes(t, [h[t] EXCEPT !.at = IF r.kind = "stop" THEN "stop" ELSE "spawn"])
  <2>. HIDE DEF status
  <2>. QED
    BY DEF Check, status
<1>. HIDE DEF status
<1>. QED
  BY <1>2, <1>3, <1>4, <1>5

\* An approval goes on or answers.
LEMMA ApproveStep ==
  ASSUME NEW s \in Scenes, NEW t \in Threads, Ready(s, t), Approve(t)
  PROVE  Steps(t)
<1>1. h[t].at = "begin" /\ h[t].r.kind = "approval" /\ RunProblem(h[t].r) \in {200, 400, 404}
  BY RunProblems DEF Approve
<1>2. CASE \E status \in {400, 404} : Answers(t, status)
  BY <1>1, <1>2, TurnsDown
<1>3. CASE ~ \E status \in {400, 404} : Answers(t, status)
  <2>1. /\ Log("approvals", [decision |-> h[t].r.decision, role |-> h[t].role, at |-> now])
        /\ Becomes(t, [h[t] EXCEPT !.at = "audit"]) /\ Touches(t)
        /\ UNCHANGED <<todo, outcome, counters, mixed>>
    BY <1>1, <1>3 DEF Approve
  <2>. DEFINE x == [h[t] EXCEPT !.at = "audit"]
  <2>2. DOMAIN x = Fields /\ x.at = "audit" /\ \A f \in Fields \ {"at"} : x[f] = h[t][f]
    BY DEF Ready, Work, Fields
  <2>3. Becomes(t, x)
    BY <2>1
  <2>. HIDE DEF x
  <2>4. x.r = h[t].r /\ x.alone = h[t].alone
    BY <2>2 DEF Fields
  <2>5. Work(x) /\ Honest(x, touched', mixed')
    BY <1>1, <2>2 DEF Ready, Work, Honest, Spared, Deleting, Fields, Places, Single
  <2>6. Grows(t) /\ outcome' = outcome /\ lines'.audit = lines.audit /\ Logs'
    BY <2>1, Appended DEF Ready, Grows, Touches, Log, Logs, counters
  <2>. QED
    BY <1>1, <2>2, <2>3, <2>4, <2>5, <2>6, Changes DEF Steps, Busy
<1>. QED
  BY <1>2, <1>3

\* An update of the workflow goes on or answers.
LEMMA UpdateWorkflowStep ==
  ASSUME NEW s \in Scenes, NEW t \in Threads, Ready(s, t), UpdateWorkflow(t)
  PROVE  Steps(t)
<1>1. h[t].at = "begin" /\ h[t].r.kind = "workflow" /\ RunProblem(h[t].r) \in {200, 400, 404}
  BY RunProblems DEF UpdateWorkflow
<1>2. CASE \E status \in {400, 404, 422} : Answers(t, status)
  BY <1>1, <1>2, TurnsDown
<1>3. CASE \E w : WritesWorkflow(t, w)
  BY <1>1, <1>3, WritesWorkflowStep
<1>. QED
  BY <1>1, <1>2, <1>3 DEF UpdateWorkflow

\* An action on the workflow goes on or answers.
LEMMA ActOnWorkflowStep ==
  ASSUME NEW s \in Scenes, NEW t \in Threads, Ready(s, t), ActOnWorkflow(t)
  PROVE  Steps(t)
<1>1. h[t].at = "begin" /\ h[t].r.kind = "action" /\ RunProblem(h[t].r) \in {200, 400, 404}
  BY RunProblems DEF ActOnWorkflow
<1>2. CASE \E status \in {400, 404, 422} : Answers(t, status)
  BY <1>1, <1>2, TurnsDown
<1>3. CASE \E w : WritesWorkflow(t, w)
  BY <1>1, <1>3, WritesWorkflowStep
<1>4. CASE Aborts(t)
  BY <1>1, <1>4, Finishing DEF Aborts, Steps, Busy, disk, counters, history
<1>. DEFINE r == h[t].r
           status == IF r.run = "" \/ r.action \notin {"escalate", "clear_escalation", "extend_due"} THEN 400
                     ELSE IF RunProblem(r) # 200 THEN RunProblem(r)
                     ELSE IF Existing.form = "torn" THEN 422 ELSE 200
<1>5. \/ Aborts(t) \/ (status # 200 /\ Answers(t, status))
      \/ WritesWorkflow(t, Acted(Existing, ActionRow(t, Existing)))
  BY DEF ActOnWorkflow
<1>6. status \in {200, 400, 404, 422}
  <2>1. status = 400 \/ status = RunProblem(r) \/ status = 422 \/ status = 200
    <3>. DEFINE bad == r.run = "" \/ r.action \notin {"escalate", "clear_escalation", "extend_due"}
                p == RunProblem(r)
                torn == Existing.form = "torn"
    <3>1. status = IF bad THEN 400 ELSE IF p # 200 THEN p ELSE IF torn THEN 422 ELSE 200
      OBVIOUS
    <3>. HIDE DEF bad, p, torn, status
    <3>. QED
      BY <3>1 DEF p
  <2>. HIDE DEF status
  <2>. QED
    BY <1>1, <2>1
<1>. HIDE DEF status
<1>. QED
  BY <1>2, <1>3, <1>4, <1>5, <1>6

\* A workflow that cannot be written answers.
LEMMA WorkflowFailsStep ==
  ASSUME NEW s \in Scenes, NEW t \in Threads, Ready(s, t), WorkflowWriteFails(t)
  PROVE  Steps(t)
<1>1. Busy(t) /\ Ends(t, Dropped) /\ UNCHANGED <<todo, now, touched, lines>> /\ mixed \subseteq mixed'
  BY DEF WorkflowWriteFails, Busy, disk
<1>. QED
  BY <1>1, Finishing DEF Steps

\* A new snapshot is written next.
LEMMA NewSnapshotStep ==
  ASSUME NEW s \in Scenes, NEW t \in Threads, Ready(s, t), h[t].at = "begin", h[t].r.kind \in {"save", "import"},
         NEW rec, NewSnapshot(t, rec)
  PROVE  Continues(t)
<1>1. PICK k \in Tails : LET f == [dir |-> Dir, at |-> now, tail |-> k] IN
                           /\ Becomes(t, [h[t] EXCEPT !.at = "write", !.file = f, !.rec = rec])
                           /\ UNCHANGED <<todo, disk, outcome, counters, history>>
  BY DEF NewSnapshot
<1>2. [dir |-> Dir, at |-> now, tail |-> k] \in SnapshotName
  BY SnapshotAssumption DEF Ready, SnapshotName
<1>. QED
  BY <1>1, <1>2, QuietStep, Writing DEF Edits

\* A save goes on or answers.
LEMMA SaveStep ==
  ASSUME NEW s \in Scenes, NEW t \in Threads, Ready(s, t), SaveSnapshot(t)
  PROVE  Steps(t)
<1>1. h[t].at = "begin" /\ h[t].r.kind = "save" /\ Busy(t) /\ h[t].r.id \notin touched
  BY DEF SaveSnapshot, Ready, Busy
<1>2. CASE \E rec : NewSnapshot(t, rec)
  BY <1>1, <1>2, NewSnapshotStep DEF Steps
<1>3. CASE Ends(t, 422) /\ UNCHANGED <<todo, disk, counters, history>>
  BY <1>1, <1>3, Finishing DEF Steps, Statuses, disk, counters, history
<1>. QED
  BY <1>2, <1>3 DEF SaveSnapshot

\* An import goes on or answers.
LEMMA ImportStep ==
  ASSUME NEW s \in Scenes, NEW t \in Threads, Ready(s, t), Import(t)
  PROVE  Steps(t)
<1>1. h[t].at = "begin" /\ h[t].r.kind = "import" /\ Busy(t) /\ h[t].r.id \notin touched
  BY DEF Import, Ready, Busy
<1>2. CASE \E rec : NewSnapshot(t, rec)
  BY <1>1, <1>2, NewSnapshotStep DEF Steps
<1>3. CASE Ends(t, Dropped) /\ UNCHANGED <<todo, disk, counters, history>>
  BY <1>1, <1>3, Finishing DEF Steps, disk, counters, history
<1>4. CASE Fails(t, 400)
  BY <1>1, <1>4, TurnsDown, AnswersAlike
<1>. QED
  BY <1>2, <1>3, <1>4 DEF Import

\* A list of one element has an empty tail.
LEMMA OneLong ==
  ASSUME NEW s, IsList(s), Len(s) = 1
  PROVE  Tail(s) = <<>>
<1>1. s # <<>>
  BY ListFacts
<1>2. IsList(Tail(s)) /\ Len(Tail(s)) = 0
  BY <1>1, ListFacts
<1>. QED
  BY ONLY <1>2, ListFacts

\* The start of an edit or a deletion goes on or answers.
LEMMA BeginEachStep ==
  ASSUME NEW s \in Scenes, NEW t \in Threads, Ready(s, t), BeginEach(t)
  PROVE  Steps(t)
<1>1. /\ h[t].at = "begin" /\ h[t].r.kind \in Edits \cup {"delete"}
      /\ h[t].r.ids \in Seq(SnapshotName) /\ (h[t].r.kind \in Single => Len(h[t].r.ids) = 1)
  BY SnapshotAssumption DEF BeginEach, Ready, Edits, Single
<1>2. CASE Fails(t, 400)
  BY <1>1, <1>2, TurnsDown, AnswersAlike
<1>3. CASE ~ Fails(t, 400)
  <2>1. Becomes(t, [h[t] EXCEPT !.at = "next", !.ids = h[t].r.ids]) /\ Quiet
    BY <1>3, QuietStep DEF BeginEach
  <2>. DEFINE x == [h[t] EXCEPT !.at = "next", !.ids = h[t].r.ids]
  <2>2. DOMAIN x = Fields /\ x.at = "next" /\ x.ids = h[t].r.ids /\ \A f \in Fields \ {"at", "ids"} : x[f] = h[t][f]
    BY DEF Ready, Work, Fields
  <2>3. Becomes(t, x)
    BY <2>1
  <2>. HIDE DEF x
  <2>4. x.r = h[t].r /\ x.alone = h[t].alone
    BY <2>2 DEF Fields
  <2>5. IsList(x.ids) /\ (x.r.kind \in Single => Tail(x.ids) = <<>>)
    <3>1. IsList(x.ids)
      BY <1>1, <2>2, SeqIsList
    <3>2. ASSUME Len(x.ids) = 1
          PROVE  Tail(x.ids) = <<>>
      BY <3>1, <3>2, OneLong
    <3>. QED
      BY <1>1, <2>2, <2>4, <3>1, <3>2
  <2>6. Work(x)
    BY <1>1, <2>2, <2>4, <2>5 DEF Ready, Work, Deleting, Fields, Places, Edits
  <2>7. Honest(x, touched, mixed)
    BY <1>1, <2>2, <2>4, <2>5 DEF Ready, Work, Honest, Spared, Deleting, Fields, Edits, Single
  <2>. QED
    BY <1>1, <2>1, <2>2, <2>3, <2>4, <2>6, <2>7, QuietChanges DEF Steps, Busy
<1>. QED
  BY <1>2, <1>3

\* A snapshot is passed over.
LEMMA NextStep ==
  ASSUME NEW s \in Scenes, NEW t \in Threads, Ready(s, t), h[t].at = "next", h[t].ids # <<>>,
         NEW status \in {400, 404, 422}, Next1(t, status)
  PROVE  Continues(t)
<1>1. Becomes(t, Skipped(h[t], status)) /\ Quiet
  BY QuietStep DEF Next1
<1>2. h[t].r.kind \in Edits \cup {"delete", "retention"}
  BY DEF Ready, Work
<1>. QED
  BY <1>1, <1>2, Skips

\* A loop over snapshots is at a snapshot.
LEMMA HeadIsName ==
  ASSUME NEW t \in Threads, Snapshots1, h[t].at \in {"next"} \cup Deleting, h[t].ids # <<>>
  PROVE  Head(h[t].ids) \in SnapshotName
BY HeadTailProperties DEF Snapshots1, NamesOk, Deleting

\* An edit of one snapshot goes on or answers.
LEMMA EditOneStep ==
  ASSUME NEW s \in Scenes, NEW t \in Threads, Ready(s, t), Snapshots1, EditOne(t)
  PROVE  Steps(t)
<1>1. /\ h[t].at = "next" /\ h[t].ids # <<>> /\ h[t].r.kind \in Edits
      /\ Head(h[t].ids) \in SnapshotName
  BY HeadIsName DEF EditOne, Ready, Work, Deletes
<1>2. CASE \E status \in {400, 404, 422} : Next1(t, status)
  BY <1>1, <1>2, NextStep DEF Steps
<1>3. CASE ~ \E status \in {400, 404, 422} : Next1(t, status)
  <2>1. /\ Becomes(t, [h[t] EXCEPT !.at = "write", !.file = Head(h[t].ids),
                                   !.rec = Edited(Normalized(files[Head(h[t].ids)]), h[t].r)])
        /\ UNCHANGED <<todo, disk, outcome, counters, history>>
    BY ZenonT(60), <1>3 DEF EditOne
  <2>. QED
    BY <1>1, <2>1, QuietStep, Writing DEF Steps
<1>. QED
  BY <1>2, <1>3

\* The deletion of one snapshot goes on or answers.
LEMMA DeleteOneStep ==
  ASSUME NEW s \in Scenes, NEW t \in Threads, Ready(s, t), DeleteOne(t)
  PROVE  Steps(t)
<1>1. h[t].at = "next" /\ h[t].ids # <<>> /\ Deletes(h[t].r) /\ h[t].r.kind \in Edits \cup {"delete", "retention"}
  BY DEF DeleteOne, Ready, Work
<1>2. CASE Next1(t, 404)
  BY <1>1, <1>2, NextStep DEF Steps
<1>3. CASE ~ Next1(t, 404)
  <2>1. Becomes(t, [h[t] EXCEPT !.at = "unlink"]) /\ Quiet
    BY <1>3, QuietStep DEF DeleteOne
  <2>. DEFINE x == [h[t] EXCEPT !.at = "unlink"]
  <2>2. DOMAIN x = Fields /\ x.at = "unlink" /\ \A f \in Fields \ {"at"} : x[f] = h[t][f]
    BY DEF Ready, Work, Fields
  <2>3. Becomes(t, x)
    BY <2>1
  <2>. HIDE DEF x
  <2>4. x.r = h[t].r /\ x.alone = h[t].alone
    BY <2>2 DEF Fields
  <2>5. Work(x) /\ Honest(x, touched, mixed)
    BY <1>1, <2>2, <2>4 DEF Ready, Work, Honest, Spared, Deleting, Fields, Places, Single, Edits
  <2>. QED
    BY <1>1, <2>1, <2>2, <2>3, <2>4, <2>5, QuietChanges DEF Steps, Busy
<1>. QED
  BY <1>2, <1>3

\* Removing its file goes on.
LEMMA UnlinkStep ==
  ASSUME NEW s \in Scenes, NEW t \in Threads, Ready(s, t), Unlink(t)
  PROVE  Steps(t)
<1>1. h[t].at = "unlink" /\ Becomes(t, [h[t] EXCEPT !.at = "look"]) /\ Touches(t)
      /\ UNCHANGED <<todo, lines, outcome, counters, mixed>>
  BY DEF Unlink
<1>. DEFINE x == [h[t] EXCEPT !.at = "look"]
<1>2. DOMAIN x = Fields /\ x.at = "look" /\ \A f \in Fields \ {"at"} : x[f] = h[t][f]
  BY DEF Ready, Work, Fields
<1>3. Becomes(t, x)
  BY <1>1
<1>. HIDE DEF x
<1>4. x.r = h[t].r /\ x.alone = h[t].alone
  BY <1>2 DEF Fields
<1>5. Work(x) /\ Honest(x, touched', mixed')
  BY <1>1, <1>2, <1>4 DEF Ready, Work, Honest, Spared, Deleting, Fields, Places, Single, Edits
<1>6. Grows(t) /\ outcome' = outcome /\ lines'.audit = lines.audit /\ Logs'
  BY <1>1 DEF Ready, Grows, Touches, Logs, counters
<1>. QED
  BY <1>1, <1>2, <1>3, <1>4, <1>5, <1>6, Changes DEF Steps, Busy

\* A deletion that is done goes on with the next.
LEMMA DeletedStep ==
  ASSUME NEW s \in Scenes, NEW t \in Threads, Ready(s, t), h[t].at \in {"look", "unmark"},
         Becomes(t, Deleted(h[t])), Quiet
  PROVE  Continues(t)
<1>. DEFINE x == Deleted(h[t])
<1>1. /\ DOMAIN x = Fields /\ x.at = "next" /\ x.ids = Tail(h[t].ids) /\ x.hits = h[t].hits + 1
      /\ \A f \in Fields \ {"at", "ids", "hits"} : x[f] = h[t][f]
  BY DeletedShape DEF Ready
<1>2. Becomes(t, x)
  OBVIOUS
<1>. HIDE DEF x
<1>3. /\ x.status = h[t].status /\ x.hits \in Nat /\ x.hits > 0 /\ x.status \in Statuses
      /\ h[t].r.kind \in Edits \cup {"delete", "retention"} /\ h[t].ids # <<>>
  BY <1>1 DEF Ready, Work, Fields, Deleting
<1>4. \A f \in Fields \ {"at", "ids", "hits", "bad", "status", "file", "rec"} : x[f] = h[t][f]
  BY <1>1
<1>5. h[t].at \in {"next", "fill"} \cup Deleting /\ h[t].at \in {"fill", "look", "unmark"}
  BY DEF Deleting
<1>. QED
  BY ZenonT(30), <1>1, <1>2, <1>3, <1>4, <1>5, Skipping

\* Looking for its markdown goes on.
LEMMA LookForMarkdownStep ==
  ASSUME NEW s \in Scenes, NEW t \in Threads, Ready(s, t), LookForMarkdown(t)
  PROVE  Steps(t)
<1>1. h[t].at = "look" /\ Quiet
  BY QuietStep DEF LookForMarkdown
<1>2. CASE Becomes(t, Deleted(h[t]))
  BY <1>1, <1>2, DeletedStep DEF Steps
<1>3. CASE Becomes(t, [h[t] EXCEPT !.at = "unmark"])
  <2>. DEFINE x == [h[t] EXCEPT !.at = "unmark"]
  <2>1. DOMAIN x = Fields /\ x.at = "unmark" /\ \A f \in Fields \ {"at"} : x[f] = h[t][f]
    BY DEF Ready, Work, Fields
  <2>2. Becomes(t, x)
    BY <1>3
  <2>. HIDE DEF x
  <2>3. x.r = h[t].r /\ x.alone = h[t].alone
    BY <2>1 DEF Fields
  <2>4. Work(x) /\ Honest(x, touched, mixed)
    BY <1>1, <2>1, <2>3 DEF Ready, Work, Honest, Spared, Deleting, Fields, Places, Single, Edits
  <2>. QED
    BY <1>1, <2>1, <2>2, <2>3, <2>4, QuietChanges DEF Steps, Busy
<1>. QED
  BY <1>2, <1>3 DEF LookForMarkdown

\* The deletion of its markdown goes on.
LEMMA DeleteMarkdownStep ==
  ASSUME NEW s \in Scenes, NEW t \in Threads, Ready(s, t), DeleteMarkdown(t)
  PROVE  Steps(t)
<1>1. Becomes(t, Deleted(h[t])) /\ Quiet /\ h[t].at = "unmark"
  BY DEF DeleteMarkdown, Quiet, counters, history
<1>. QED
  BY <1>1, DeletedStep DEF Steps

\* A deletion that fails goes on with the next.
LEMMA DeleteFailsStep ==
  ASSUME NEW s \in Scenes, NEW t \in Threads, Ready(s, t), DeleteFails(t)
  PROVE  Steps(t)
<1>1. /\ h[t].at \in {"unlink", "unmark"} /\ Becomes(t, Skipped(h[t], 422)) /\ Quiet
      /\ h[t].at = "unmark" => h[t].r.id \in mixed'
  BY DEF DeleteFails, Quiet, disk
<1>2. h[t].at \in Deleting /\ h[t].ids # <<>> /\ h[t].r.kind \in Edits \cup {"delete", "retention"}
  BY <1>1 DEF Ready, Work, Deleting
<1>. QED
  BY <1>1, <1>2, Skips DEF Steps

\* Filling a snapshot goes on.
LEMMA FillSnapshotStep ==
  ASSUME NEW s \in Scenes, NEW t \in Threads, Ready(s, t), FillSnapshot(t)
  PROVE  Steps(t)
<1>1. h[t].at = "fill" /\ h[t].r.kind \in {"save", "import"} \cup Edits /\ Quiet
  BY FilesApart DEF FillSnapshot, Ready, Work, Quiet, counters
<1>2. CASE h[t].r.kind \in {"save", "import"}
  <2>. DEFINE x == [h[t] EXCEPT !.at = "markdown"]
  <2>1. DOMAIN x = Fields /\ x.at = "markdown" /\ \A f \in Fields \ {"at"} : x[f] = h[t][f]
    BY DEF Ready, Work, Fields
  <2>2. Becomes(t, x)
    BY <1>2 DEF FillSnapshot
  <2>. HIDE DEF x
  <2>3. x.r = h[t].r /\ x.alone = h[t].alone
    BY <2>1 DEF Fields
  <2>4. Work(x) /\ Honest(x, touched, mixed)
    BY <1>1, <1>2, <2>1, <2>3 DEF Ready, Work, Honest, Spared, Deleting, Fields, Places, Single
  <2>. QED
    BY <1>1, <2>1, <2>2, <2>3, <2>4, QuietChanges DEF Steps, Busy
<1>3. CASE h[t].r.kind \notin {"save", "import"}
  <2>. DEFINE x == [h[t] EXCEPT !.at = "next", !.ids = Tail(@), !.hits = @ + 1, !.file = NoFile, !.rec = Torn]
  <2>1. /\ DOMAIN x = Fields /\ x.at = "next" /\ x.ids = Tail(h[t].ids) /\ x.hits = h[t].hits + 1
        /\ \A f \in Fields \ {"at", "ids", "hits", "file", "rec"} : x[f] = h[t][f]
    BY DEF Ready, Work, Fields
  <2>2. Becomes(t, x)
    BY <1>3 DEF FillSnapshot
  <2>. HIDE DEF x
  <2>3. /\ x.status = h[t].status /\ x.hits \in Nat /\ x.hits > 0 /\ x.status \in Statuses
        /\ h[t].r.kind \in Edits \cup {"delete", "retention"} /\ h[t].ids # <<>>
    BY <1>1, <1>3, <2>1 DEF Ready, Work, Fields
  <2>. QED
    BY <1>1, <2>1, <2>2, <2>3, Skipping DEF Steps
<1>. QED
  BY <1>2, <1>3

\* A snapshot that cannot be written goes on or answers.
LEMMA SnapshotFailsStep ==
  ASSUME NEW s \in Scenes, NEW t \in Threads, Ready(s, t), SnapshotWriteFails(t)
  PROVE  Steps(t)
<1>1. /\ h[t].at = "fill" /\ h[t].r.kind \in {"save", "import"} \cup Edits /\ Busy(t)
      /\ UNCHANGED <<todo, now, touched, lines>> /\ mixed' = mixed \cup {h[t].r.id}
  BY FilesApart DEF SnapshotWriteFails, Ready, Work, Busy, disk
<1>2. CASE h[t].r.kind = "save"
  BY <1>1, <1>2, Finishing DEF SnapshotWriteFails, Steps, Statuses
<1>3. CASE h[t].r.kind = "import"
  <2>1. Becomes(t, [h[t] EXCEPT !.at = "audit", !.status = 500]) /\ Quiet /\ 500 \in Statuses
    BY <1>1, <1>3 DEF SnapshotWriteFails, Quiet, Statuses
  <2>. QED
    BY ZenonT(30), <1>1, <2>1, Answering DEF Steps
<1>4. CASE h[t].r.kind \in Edits
  <2>1. Becomes(t, Skipped(h[t], 422)) /\ Quiet /\ h[t].r.id \in mixed'
    BY <1>1, <1>4 DEF SnapshotWriteFails, Edits, Quiet
  <2>2. h[t].ids # <<>>
    BY <1>1, <1>4 DEF Ready, Work
  <2>. QED
    BY <1>1, <1>4, <2>1, <2>2, Skips DEF Steps
<1>. QED
  BY <1>1, <1>2, <1>3, <1>4

\* The snapshots a retention looks at are finitely many and dated.
LEMMA CandidatesAreDated ==
  ASSUME Snapshots1, NEW r
  PROVE  Dated(files, Candidates(files, r))
<1>1. Candidates(files, r) \subseteq SnapshotFiles(files)
  BY DEF Candidates
<1>2. IsFiniteSet(Candidates(files, r))
  BY <1>1, FS_Subset DEF Snapshots1, FilesOk
<1>. QED
  BY <1>1, <1>2 DEF Dated, Candidates, Snapshots1, FilesOk, IsRecord

\* A limit is a natural number, whatever the request gives.
LEMMA LimitsAreNumbers ==
  ASSUME NEW raw \in SUBSET RawLimit
  PROVE  Limits(raw) \subseteq Nat
BY DEF Limits, RawLimit

\* What a retention is going to delete.
LEMMA RetentionChoice ==
  ASSUME NEW s \in Scenes, NEW r \in s.requests, r.kind = "retention", Snapshots1, now \in Nat
  PROVE  /\ IsList(Matched(files, r, now)) /\ Matched(files, r, now) \in Seq(Candidates(files, r))
         /\ \A k \in 1 .. Len(Matched(files, r, now)) : Goes(files, r, now, Matched(files, r, now)[k])
         /\ \A f \in Candidates(files, r) :
              Goes(files, r, now, f) => \E k \in 1 .. Len(Matched(files, r, now)) : Matched(files, r, now)[k] = f
<1>1. Limits(r.keep) \subseteq Nat /\ Limits(r.maxAge) \subseteq Nat
  BY SnapshotAssumption, LimitsAreNumbers
<1>. QED
  BY <1>1, CandidatesAreDated, MatchedFacts

\* A retention goes on or answers.
LEMMA RetentionStep ==
  ASSUME NEW s \in Scenes, NEW t \in Threads, Ready(s, t), Snapshots1, Retention(t)
  PROVE  Steps(t)
<1>1. h[t].at = "begin" /\ h[t].r.kind = "retention" /\ h[t].r \in s.requests /\ now \in Nat
  BY DEF Retention, Ready
<1>2. CASE Fails(t, 400)
  BY <1>1, <1>2, TurnsDown, AnswersAlike
<1>3. CASE Ends(t, Dropped) /\ UNCHANGED <<todo, disk, counters, history>>
  BY <1>1, <1>3, Finishing DEF Steps, Busy, disk, counters, history
<1>4. CASE ~ Fails(t, 400) /\ ~ (Ends(t, Dropped) /\ UNCHANGED <<todo, disk, counters, history>>)
  <2>. DEFINE ids == IF h[t].r.dryRun THEN <<>> ELSE Matched(files, h[t].r, now)
              x == [h[t] EXCEPT !.at = "next", !.seen = files, !.stamp = now, !.ids = ids]
  <2>1. Becomes(t, x) /\ Quiet
    BY ZenonT(30), <1>4, QuietStep DEF Retention
  <2>2. IsList(ids)
    BY <1>1, RetentionChoice, EmptyList
  <2>. HIDE DEF ids
  <2>3. /\ DOMAIN x = Fields /\ x.at = "next" /\ x.ids = ids /\ x.stamp = now
        /\ \A f \in Fields \ {"at", "ids", "seen", "stamp"} : x[f] = h[t][f]
    BY DEF Ready, Work, Fields
  <2>. HIDE DEF x
  <2>4. x.r = h[t].r /\ x.alone = h[t].alone
    BY <2>3 DEF Fields
  <2>5. Work(x)
    BY <1>1, <2>2, <2>3, <2>4 DEF Ready, Work, Deleting, Fields, Places, Edits
  <2>6. Honest(x, touched, mixed)
    BY <1>1, <2>3, <2>4 DEF Honest, Single, Deleting
  <2>. QED
    BY <1>1, <2>1, <2>3, <2>4, <2>5, <2>6, QuietChanges DEF Steps, Busy
<1>. QED
  BY <1>2, <1>3, <1>4

\* A delivery begins.
LEMMA DeliversStep ==
  ASSUME NEW s \in Scenes, NEW t \in Threads, Ready(s, t), h[t].at = "begin", h[t].r.kind \in {"send", "resend"},
         NEW targets, IsList(targets), Delivers(t, targets)
  PROVE  Steps(t)
<1>. DEFINE x == [h[t] EXCEPT !.at = "deliver", !.ids = targets, !.seen = lines.rows, !.stamp = now,
                              !.hits = 0, !.outcomes = <<>>]
<1>1. /\ DOMAIN x = Fields /\ x.at = "deliver" /\ x.ids = targets /\ x.seen = lines.rows /\ x.stamp = now
      /\ x.hits = 0 /\ x.outcomes = <<>>
      /\ \A f \in Fields \ {"at", "ids", "seen", "stamp", "hits", "outcomes"} : x[f] = h[t][f]
  BY DEF Ready, Work, Fields
<1>2. Becomes(t, x) /\ Quiet
  BY QuietStep DEF Delivers, Stay
<1>. HIDE DEF x
<1>3. x.r = h[t].r /\ x.alone = h[t].alone
  BY <1>1 DEF Fields
<1>4. IsList(lines.rows) /\ now \in Nat
  BY DEF Ready, Logs
<1>5. Work(x)
  BY <1>1, <1>3, <1>4, EmptyList DEF Ready, Work, Deleting, Fields, Places, Edits
<1>6. Honest(x, touched, mixed)
  BY <1>1, <1>3 DEF Ready, Honest, Deleting, Fields, Single
<1>. QED
  BY <1>1, <1>2, <1>3, <1>5, <1>6, QuietChanges DEF Steps, Busy

\* A send goes on or answers.
LEMMA SendStep ==
  ASSUME NEW s \in Scenes, NEW t \in Threads, Ready(s, t), Send(t)
  PROVE  Steps(t)
<1>1. h[t].at = "begin" /\ h[t].r.kind = "send" /\ h[t].r.targets \in Seq(DOMAIN Targets)
  BY DeliveryAssumption DEF Send, Ready
<1>2. CASE Answers(t, 400)
  BY <1>1, <1>2, TurnsDown
<1>3. CASE ~ Answers(t, 400)
  <2>1. Delivers(t, IF h[t].r.targets = <<>> THEN <<"stdout">> ELSE h[t].r.targets)
    BY <1>3 DEF Send
  <2>2. IsList(IF h[t].r.targets = <<>> THEN <<"stdout">> ELSE h[t].r.targets)
    <3>1. <<"stdout">> \in Seq({"stdout"})
      OBVIOUS
    <3>. QED
      BY <1>1, <3>1, SeqIsList
  <2>. QED
    BY <1>1, <2>1, <2>2, DeliversStep
<1>. QED
  BY <1>2, <1>3

\* A resend goes on or answers.
LEMMA ResendStep ==
  ASSUME NEW s \in Scenes, NEW t \in Threads, Ready(s, t), Resend(t)
  PROVE  Steps(t)
<1>. DEFINE failed == {i \in DOMAIN lines.rows : lines.rows[i].delivery = h[t].r.of /\ lines.rows[i].status = "failed"}
<1>1. h[t].at = "begin" /\ h[t].r.kind = "resend" /\ (Answers(t, 400) \/ Delivers(t, TargetsOf(failed)))
  BY DEF Resend
<1>2. IsList(lines.rows) /\ failed \in SUBSET DOMAIN lines.rows
  BY DEF Ready, Logs
<1>. HIDE DEF failed
<1>3. IsList(TargetsOf(failed))
  BY <1>2, TargetsFacts
<1>. QED
  BY <1>1, <1>3, TurnsDown, DeliversStep

\* What became of a target is known.
LEMMA ToldStep ==
  ASSUME NEW s \in Scenes, NEW t \in Threads, Ready(s, t), AtTarget(t), NEW form, Told(t, form),
         Grows(t), UNCHANGED <<outcome, lines>>
  PROVE  Continues(t)
<1>. DEFINE x == [h[t] EXCEPT !.at = "row", !.rec = [form |-> form]]
<1>1. DOMAIN x = Fields /\ x.at = "row" /\ \A f \in Fields \ {"at", "rec"} : x[f] = h[t][f]
  BY DEF Ready, Work, Fields
<1>2. Becomes(t, x) /\ h[t].at = "deliver" /\ h[t].ids # <<>>
  BY DEF Told, AtTarget
<1>. HIDE DEF x
<1>3. x.r = h[t].r /\ x.alone = h[t].alone
  BY <1>1 DEF Fields
<1>4. Work(x) /\ Honest(x, touched', mixed')
  BY <1>1, <1>2, <1>3 DEF Ready, Work, Honest, Spared, Deleting, Fields, Places, Edits, Single
<1>5. lines'.audit = lines.audit /\ Logs'
  BY DEF Ready, Logs
<1>. QED
  BY <1>1, <1>2, <1>3, <1>4, <1>5, Changes DEF Busy

\* What happens at one target goes on.
LEMMA TargetStep ==
  ASSUME NEW s \in Scenes, NEW t \in Threads, Ready(s, t),
         DryRun(t) \/ Rejected(t) \/ Delivered(t) \/ PostFails(t) \/ FileFails(t)
  PROVE  Steps(t)
<1>1. AtTarget(t) /\ UNCHANGED <<todo, now, outcome, lines, mixed>> /\ (touched' = touched \/ Touches(t))
  BY DEF DryRun, Rejected, Delivered, PostFails, FileFails, Stay, disk, counters, history
<1>2. Grows(t)
  BY <1>1 DEF Grows, Touches
<1>3. CASE \E form \in {"dry_run", "failed", "sent"} : Told(t, form)
  BY <1>1, <1>2, <1>3, ToldStep DEF Steps
<1>4. CASE Becomes(t, [h[t] EXCEPT !.hits = @ + 1])
  <2>. DEFINE x == [h[t] EXCEPT !.hits = @ + 1]
  <2>1. DOMAIN x = Fields /\ x.hits = h[t].hits + 1 /\ \A f \in Fields \ {"hits"} : x[f] = h[t][f]
    BY DEF Ready, Work, Fields
  <2>2. Becomes(t, x) /\ h[t].at = "deliver" /\ h[t].ids # <<>>
    BY <1>1, <1>4 DEF AtTarget
  <2>. HIDE DEF x
  <2>3. x.r = h[t].r /\ x.alone = h[t].alone /\ x.at = "deliver"
    BY <2>1, <2>2 DEF Fields
  <2>4. Work(x) /\ Honest(x, touched', mixed')
    BY <2>1, <2>2, <2>3 DEF Ready, Work, Honest, Spared, Deleting, Fields, Places, Edits, Single
  <2>5. lines'.audit = lines.audit /\ Logs'
    BY <1>1 DEF Ready, Logs
  <2>. QED
    BY <1>1, <1>2, <2>1, <2>2, <2>3, <2>4, <2>5, Changes DEF Steps, Busy
<1>. QED
  BY <1>3, <1>4 DEF DryRun, Rejected, Delivered, PostFails, FileFails

\* The row of a target goes on.
LEMMA AppendRowStep ==
  ASSUME NEW s \in Scenes, NEW t \in Threads, Ready(s, t), AppendRow(t)
  PROVE  Steps(t)
<1>1. PICK row : /\ Log("rows", row) /\ Touches(t)
                 /\ Becomes(t, [h[t] EXCEPT !.at = "deliver", !.ids = Tail(@), !.seen = Append(@, row), !.hits = 0,
                                            !.outcomes = Append(@, h[t].rec.form)])
                 /\ UNCHANGED <<todo, outcome, counters, mixed>>
  BY DEF AppendRow
<1>. DEFINE x == [h[t] EXCEPT !.at = "deliver", !.ids = Tail(@), !.seen = Append(@, row), !.hits = 0,
                              !.outcomes = Append(@, h[t].rec.form)]
<1>2. /\ DOMAIN x = Fields /\ x.at = "deliver" /\ x.ids = Tail(h[t].ids) /\ x.seen = Append(h[t].seen, row)
      /\ x.hits = 0 /\ x.outcomes = Append(h[t].outcomes, h[t].rec.form)
      /\ \A f \in Fields \ {"at", "ids", "seen", "hits", "outcomes"} : x[f] = h[t][f]
  BY DEF Ready, Work, Fields
<1>3. Becomes(t, x) /\ h[t].at = "row"
  BY <1>1 DEF AppendRow
<1>. HIDE DEF x
<1>4. x.r = h[t].r /\ x.alone = h[t].alone
  BY <1>2 DEF Fields
<1>5. IsList(x.ids) /\ IsList(x.seen) /\ IsList(x.outcomes)
  BY <1>2, <1>3, ListFacts, Appended DEF Ready, Work
<1>6. Work(x) /\ Honest(x, touched', mixed')
  BY <1>2, <1>3, <1>4, <1>5 DEF Ready, Work, Honest, Spared, Deleting, Fields, Places, Edits, Single
<1>7. Grows(t) /\ outcome' = outcome /\ lines'.audit = lines.audit /\ Logs'
  BY <1>1, Appended DEF Ready, Grows, Touches, Log, Logs, counters
<1>. QED
  BY <1>2, <1>3, <1>4, <1>6, <1>7, Changes DEF Steps, Busy

\* The audit line finishes the request, written or not.
LEMMA AuditStep ==
  ASSUME NEW s \in Scenes, NEW t \in Threads, Ready(s, t), AuditWritten(t) \/ AuditFails(t)
  PROVE  Steps(t)
<1>1. CASE AuditFails(t)
  <2>1. Busy(t) /\ Ends(t, 500) /\ UNCHANGED <<todo, now, touched, mixed, lines>> /\ 500 \in Statuses
    BY <1>1 DEF AuditFails, Busy, disk, history, Statuses
  <2>. QED
    BY <2>1, Finishing DEF Steps
<1>2. CASE AuditWritten(t)
  <2>1. /\ h[t].at = "audit" /\ Ends(t, h[t].status) /\ UNCHANGED <<todo, now, touched, mixed>>
        /\ Log("audit", [id |-> h[t].r.id, kind |-> h[t].r.kind, ok |-> h[t].status = 200, role |-> h[t].role])
    BY <1>2 DEF AuditWritten, counters, history
  <2>2. Stays(t) /\ h'[t] = Idle /\ Grows(t) /\ Busy(t) /\ h[t].status \in Statuses
    BY <2>1, Moved DEF Ends, Ready, Grows, Busy, Work
  <2>3. Logs' /\ lines'.audit = Append(lines.audit, [id |-> h[t].r.id, kind |-> h[t].r.kind,
                                                     ok |-> h[t].status = 200, role |-> h[t].role])
    BY <2>1, Appended DEF Ready, Log, Logs
  <2>4. h[t].status \in {400, 403, 404, 422} => h[t].r.id \notin touched \/ (h[t].status = 422 /\ h[t].r.id \in mixed)
    BY <2>1 DEF Ready, Honest, Spared
  <2>. QED
    <3>1. Answered(t, h[t].status)
      BY ZenonT(30), <2>3, <2>4 DEF Answered
    <3>2. outcome' = [outcome EXCEPT ![h[t].r.id] = h[t].status]
      BY <2>1 DEF Ends
    <3>. QED
      BY <2>1, <2>2, <2>3, <3>1, <3>2 DEF Steps, Finishes
<1>. QED
  BY <1>1, <1>2

\* Whatever a thread does, its request goes on or ends.
LEMMA ServeSteps ==
  ASSUME NEW s \in Scenes, NEW t \in Threads, Ready(s, t), Snapshots1, Serve(t)
  PROVE  Steps(t)
<1>1. CASE SnapshotStep(t)
  BY <1>1, SaveStep, ImportStep, FillSnapshotStep, MarkdownStep, SnapshotFailsStep, BeginEachStep, EditOneStep,
     DeleteOneStep, UnlinkStep, LookForMarkdownStep, DeleteMarkdownStep, DeleteFailsStep, EndEachStep,
     RetentionStep DEF SnapshotStep
<1>2. CASE TrustStep(t)
  BY <1>2, ApproveStep, UpdateWorkflowStep, ActOnWorkflowStep, FillWorkflowStep, WorkflowFailsStep, LogActionStep,
     SendStep, ResendStep, TargetStep, AppendRowStep, CloseDeliveryStep DEF TrustStep
<1>3. CASE RunStep(t)
  BY <1>3, CheckStep, TriggerStep, LaunchFailsStep, TriggerStopStep DEF RunStep
<1>. QED
  BY <1>1, <1>2, <1>3, TruncateStep, AuditStep DEF Serve

------------------------------------------------------------------------------
(* Requests, their answers and the audit log. *)

\* Whoever serves a request satisfies what the steps assume.
LEMMA ServeIsReady ==
  ASSUME NEW s \in Scenes, Base(s), Answers1, NEW t \in Threads, Serve(t)
  PROVE  Busy(t) /\ Ready(s, t)
<1>1. h[t].at # "idle"
  BY DEF Serve, Truncate, SnapshotStep, SaveSnapshot, Import, FillSnapshot, WriteMarkdown, SnapshotWriteFails, BeginEach,
         EditOne, DeleteOne, Unlink, LookForMarkdown, DeleteMarkdown, DeleteFails, EndEach, Retention, TrustStep,
         Approve, UpdateWorkflow, ActOnWorkflow,
         FillWorkflow, WorkflowWriteFails, LogAction, Send, Resend, DryRun, Rejected, Delivered, PostFails, FileFails,
         AppendRow, CloseDelivery, AtTarget, RunStep, Check, Trigger, LaunchFails, TriggerStop, AuditWritten, AuditFails
<1>. QED
  BY <1>1 DEF Base, Answers1, Ready, Busy

\* Different requests have different ids.
LEMMA IdsDiffer ==
  ASSUME NEW s \in Scenes, Base(s), NEW t \in Threads, Busy(t)
  PROVE  /\ h[t].r \in s.requests /\ h[t].r.id \in DOMAIN outcome /\ outcome[h[t].r.id] = Open
         /\ \A r \in todo : r.id # h[t].r.id /\ r \in s.requests
         /\ \A u \in Threads \ {t} : Busy(u) => h[u].r.id # h[t].r.id
<1>1. h[t].r \in s.requests /\ h[t].r \notin todo /\ outcome[h[t].r.id] = Open
      /\ \A u \in Threads \ {t} : Busy(u) => h[u].r # h[t].r /\ h[u].r \in s.requests
  BY DEF Base
<1>2. \A q, r \in s.requests : q.id = r.id => q = r
  BY SceneAssumption
<1>3. todo \subseteq s.requests /\ DOMAIN outcome = {r.id : r \in s.requests}
  BY DEF Base
<1>. QED
  BY <1>1, <1>2, <1>3

\* The record of an idle thread is one of a thread at work.
LEMMA IdleWorks == Work(Idle) /\ Idle.at = "idle"
<1>1. DOMAIN Idle = Fields /\ Idle.at = "idle" /\ Idle.status = 200 /\ Idle.hits = 0 /\ Idle.stamp = 0
      /\ Idle.ids = <<>> /\ Idle.outcomes = <<>>
  BY DEF Idle, Fields
<1>. QED
  BY <1>1, EmptyList DEF Work, Deleting, Places, Statuses

\* A thread stays honest when another request changes something.
LEMMA HonestKept ==
  ASSUME NEW x, NEW T, NEW M, Honest(x, T, M), NEW T2, NEW M2, NEW id, T2 \subseteq T \cup {id}, M \subseteq M2, x.r.id # id
  PROVE  Honest(x, T2, M2)
BY DEF Honest, Spared

\* The records and logs stay together when a request goes on.
LEMMA BaseContinues ==
  ASSUME NEW s \in Scenes, Base(s), NEW t \in Threads, Continues(t)
  PROVE  Base(s)'
<1>1. /\ DOMAIN h' = Threads /\ h'[t].r = h[t].r /\ h'[t].alone = h[t].alone /\ h'[t].at \notin {"idle", "begin"}
      /\ Work(h'[t]) /\ \A u \in Threads \ {t} : h'[u] = h[u]
  BY DEF Continues, Stays
<1>2. /\ touched' \subseteq touched \cup {h[t].r.id} /\ mixed \subseteq mixed' /\ todo' = todo /\ now' = now
      /\ outcome' = outcome /\ Logs' /\ Busy(t)
  BY DEF Continues, Grows
<1>3. \A u \in Threads : h'[u].r = h[u].r /\ h'[u].alone = h[u].alone /\ (Busy(u)' <=> Busy(u)) /\ Work(h'[u])
  BY <1>1, <1>2 DEF Busy, Base
<1>4. touched' \subseteq DOMAIN outcome' /\ \A r \in todo' : outcome'[r.id] = Open /\ r.id \notin touched'
  BY <1>2, IdsDiffer DEF Base
<1>5. \A u \in Threads : Busy(u)' => h'[u].r \in s.requests /\ h'[u].r \notin todo' /\ outcome'[h'[u].r.id] = Open
  BY <1>2, <1>3 DEF Base
<1>6. \A u \in Threads : Busy(u)' => (h'[u].at = "begin" => h'[u].r.id \notin touched')
  BY <1>1, <1>2, <1>3, IdsDiffer DEF Base
<1>7. \A u, v \in Threads : Busy(u)' /\ Busy(v)' /\ u # v
        => h'[v].r # h'[u].r /\ ~h'[u].alone /\ (Group(h'[v].r) = Group(h'[u].r) => Group(h'[u].r) \in mixed')
  BY <1>2, <1>3 DEF Base
<1>. QED
  BY <1>1, <1>2, <1>3, <1>4, <1>5, <1>6, <1>7 DEF Base

\* The records and logs stay together when a request is answered.
LEMMA BaseFinishes ==
  ASSUME NEW s \in Scenes, Base(s), NEW t \in Threads, Finishes(t)
  PROVE  Base(s)'
<1>1. /\ DOMAIN h' = Threads /\ h'[t] = Idle /\ \A u \in Threads \ {t} : h'[u] = h[u]
  BY DEF Finishes, Stays
<1>2. PICK how : outcome' = [outcome EXCEPT ![h[t].r.id] = how]
  BY DEF Finishes
<1>3. /\ touched' = touched /\ mixed \subseteq mixed' /\ todo' = todo /\ now' = now /\ Logs' /\ Busy(t)
  BY DEF Finishes, Grows
<1>4. \A u \in Threads : /\ Work(h'[u])
                         /\ Busy(u)' => u # t /\ h'[u] = h[u] /\ Busy(u)
  BY <1>1, IdleWorks DEF Busy, Base
<1>5. DOMAIN outcome' = DOMAIN outcome /\ \A i \in DOMAIN outcome : i # h[t].r.id => outcome'[i] = outcome[i]
  BY <1>2
<1>6. todo \subseteq s.requests /\ DOMAIN outcome = {r.id : r \in s.requests}
  BY DEF Base
<1>7. \A r \in todo' : outcome'[r.id] = Open /\ r.id \notin touched'
  BY <1>3, <1>5, <1>6, IdsDiffer DEF Base
<1>8. \A u \in Threads : Busy(u)' => h'[u].r \in s.requests /\ h'[u].r \notin todo' /\ outcome'[h'[u].r.id] = Open
  BY <1>3, <1>4, <1>5, IdsDiffer DEF Base
<1>9. \A u \in Threads : Busy(u)' => (h'[u].at = "begin" => h'[u].r.id \notin touched')
  BY <1>3, <1>4 DEF Base
<1>10. \A u, v \in Threads : Busy(u)' /\ Busy(v)' /\ u # v
         => h'[v].r # h'[u].r /\ ~h'[u].alone /\ (Group(h'[v].r) = Group(h'[u].r) => Group(h'[u].r) \in mixed')
  BY <1>3, <1>4 DEF Base
<1>. QED
  BY <1>1, <1>3, <1>4, <1>5, <1>7, <1>8, <1>9, <1>10 DEF Base

\* The answers stay true when a request goes on.
LEMMA AnswersContinue ==
  ASSUME NEW s \in Scenes, Base(s), Answers1, NEW t \in Threads, Continues(t)
  PROVE  Answers1'
<1>1. /\ h'[t].r = h[t].r /\ Honest(h'[t], touched', mixed') /\ \A u \in Threads \ {t} : h'[u] = h[u]
  BY DEF Continues, Stays
<1>2. /\ touched' \subseteq touched \cup {h[t].r.id} /\ mixed \subseteq mixed' /\ outcome' = outcome
      /\ lines'.audit = lines.audit /\ Busy(t)
  BY DEF Continues, Grows
<1>3. outcome[h[t].r.id] = Open
  BY <1>2, IdsDiffer
<1>4. AnswersAreTrue'
  <2>. SUFFICES ASSUME NEW id \in touched'
                PROVE  /\ outcome[id] \notin {400, 403, 404} /\ (outcome[id] = 422 => id \in mixed')
                       /\ outcome[id] \notin {Open, Lost, Dropped, 500}
                            => \E i \in DOMAIN lines.audit : lines.audit[i].id = id /\ lines.audit[i].ok = (outcome[id] = 200)
    BY <1>2 DEF AnswersAreTrue
  <2>1. CASE id = h[t].r.id
    BY <1>3, <2>1 DEF Open
  <2>2. CASE id # h[t].r.id
    BY <1>2, <2>2 DEF Answers1, AnswersAreTrue
  <2>. QED
    BY <2>1, <2>2
<1>5. \A u \in Threads : Busy(u)' => Honest(h'[u], touched', mixed')
  <2>. SUFFICES ASSUME NEW u \in Threads, Busy(u)', u # t
                PROVE  Honest(h[u], touched', mixed')
    BY <1>1
  <2>1. Busy(u) /\ Honest(h[u], touched, mixed) /\ h[u].r.id # h[t].r.id
    BY <1>1, <1>2, IdsDiffer DEF Busy, Answers1
  <2>. QED
    BY <1>2, <2>1, HonestKept
<1>. QED
  BY <1>4, <1>5 DEF Answers1

\* The answers stay true when one more is given.
LEMMA AnswersFinish ==
  ASSUME NEW s \in Scenes, Base(s), Answers1, NEW t \in Threads, Finishes(t)
  PROVE  Answers1'
<1>. DEFINE id == h[t].r.id
<1>1. /\ h'[t] = Idle /\ \A u \in Threads \ {t} : h'[u] = h[u]
  BY DEF Finishes, Stays
<1>2. PICK how \in Statuses \cup {Dropped} : outcome' = [outcome EXCEPT ![id] = how] /\ Answered(t, how)
  BY DEF Finishes
<1>3. /\ touched' = touched /\ mixed \subseteq mixed' /\ Busy(t)
  BY DEF Finishes, Grows
<1>4. id \in DOMAIN outcome /\ outcome'[id] = how /\ \A i \in DOMAIN outcome : i # id => outcome'[i] = outcome[i]
  BY <1>2, <1>3, IdsDiffer
<1>5. IsList(lines.audit)
  BY DEF Base, Logs
<1>6. \A i \in DOMAIN lines.audit : i \in DOMAIN lines'.audit /\ lines'.audit[i] = lines.audit[i]
  BY SMTT(30), <1>2, <1>5, Appended, ListFacts DEF Answered
<1>7. AnswersAreTrue'
  <2>. SUFFICES ASSUME NEW j \in touched
                PROVE  /\ outcome'[j] \notin {400, 403, 404} /\ (outcome'[j] = 422 => j \in mixed')
                       /\ outcome'[j] \notin {Open, Lost, Dropped, 500}
                            => \E i \in DOMAIN lines'.audit : lines'.audit[i].id = j /\ lines'.audit[i].ok = (outcome'[j] = 200)
    BY <1>3 DEF AnswersAreTrue
  <2>1. CASE j # id
    <3>1. j \in DOMAIN outcome
      BY DEF Base
    <3>. QED
      BY <1>3, <1>4, <1>6, <2>1, <3>1 DEF Answers1, AnswersAreTrue
  <2>2. CASE j = id /\ lines'.audit = lines.audit /\ how \in {500, Dropped}
    BY <1>4, <2>2 DEF Dropped
  <2>3. CASE /\ j = id /\ (how \in {400, 403, 404, 422} => how = 422 /\ id \in mixed)
             /\ lines'.audit = Append(lines.audit, [id |-> id, kind |-> h[t].r.kind, ok |-> how = 200, role |-> h[t].role])
    <3>. DEFINE row == [id |-> id, kind |-> h[t].r.kind, ok |-> how = 200, role |-> h[t].role]
    <3>1. row.id = id /\ row.ok = (how = 200)
      OBVIOUS
    <3>. HIDE DEF row
    <3>2. lines'.audit = Append(lines.audit, row)
      BY <2>3 DEF row
    <3>3. Len(lines.audit) + 1 \in DOMAIN lines'.audit /\ lines'.audit[Len(lines.audit) + 1] = row
      BY <1>5, <3>2, Appended, ListFacts
    <3>. QED
      BY SMTT(30), <1>3, <1>4, <2>3, <3>1, <3>3
  <2>. QED
    BY <1>2, <2>1, <2>2, <2>3 DEF Answered
<1>8. \A u \in Threads : Busy(u)' => Honest(h'[u], touched', mixed')
  <2>. SUFFICES ASSUME NEW u \in Threads, Busy(u)'
                PROVE  Honest(h'[u], touched', mixed')
    OBVIOUS
  <2>1. u # t /\ h'[u] = h[u] /\ Busy(u)
    BY <1>1, IdleWorks DEF Busy
  <2>2. Honest(h[u], touched, mixed) /\ h[u].r.id # id
    BY <1>3, <2>1, IdsDiffer DEF Answers1
  <2>. QED
    BY <1>3, <2>1, <2>2, HonestKept
<1>. QED
  BY <1>7, <1>8 DEF Answers1

\* A request that is turned away has changed nothing.
LEMMA TurnedAwayKeeps ==
  ASSUME NEW s \in Scenes, Base(s), Answers1, NEW t \in Threads, NEW r \in todo, NEW status, TurnedAway(t, r, status)
  PROVE  Base(s)' /\ Answers1'
<1>1. /\ todo' = todo \ {r} /\ outcome' = [outcome EXCEPT ![r.id] = status]
      /\ h' = h /\ lines' = lines /\ now' = now /\ touched' = touched /\ mixed' = mixed
  BY DEF TurnedAway, Comes, disk, counters, history
<1>2. todo \subseteq s.requests /\ DOMAIN outcome = {q.id : q \in s.requests} /\ r.id \notin touched
      /\ \A q, p \in s.requests : q.id = p.id => q = p
  BY SceneAssumption DEF Base
<1>3. \A i \in DOMAIN outcome : i # r.id => outcome'[i] = outcome[i]
  BY <1>1
<1>4. \A q \in todo' : q.id # r.id /\ outcome'[q.id] = outcome[q.id]
  BY <1>1, <1>2, <1>3
<1>5. \A u \in Threads : Busy(u) => outcome'[h[u].r.id] = outcome[h[u].r.id]
  <2>1. \A u \in Threads : Busy(u) => h[u].r.id # r.id /\ h[u].r.id \in DOMAIN outcome
    BY IdsDiffer
  <2>. QED
    BY <1>3, <2>1
<1>6. Base(s)'
  BY <1>1, <1>2, <1>4, <1>5 DEF Base, Logs, Busy
<1>7. AnswersAreTrue'
  <2>1. \A j \in touched : outcome'[j] = outcome[j]
    BY <1>2, <1>3 DEF Base
  <2>. QED
    BY <1>1, <2>1 DEF Answers1, AnswersAreTrue
<1>8. \A u \in Threads : Busy(u)' => Honest(h'[u], touched', mixed')
  BY <1>1 DEF Answers1, Busy
<1>. QED
  BY <1>6, <1>7, <1>8 DEF Answers1

\* The record of the request that is taken, and what becomes of the others.
LEMMA TakenShape ==
  ASSUME NEW s \in Scenes, Base(s), NEW t \in Threads, NEW r \in todo, Taken(t, r)
  PROVE  /\ ~Busy(t) /\ DOMAIN h' = Threads
         /\ DOMAIN h'[t] = Fields /\ h'[t].at \in {"audit", "begin"} /\ h'[t].r = r
         /\ h'[t].status = (IF h'[t].at = "audit" THEN 403 ELSE 200)
         /\ h'[t].alone = \A v \in Threads \ {t} : ~Busy(v)
         /\ \A f \in Fields \ {"at", "status", "r", "role", "alone"} : h'[t][f] = Idle[f]
         /\ \A u \in Threads \ {t} :
              /\ DOMAIN h'[u] = Fields /\ \A f \in Fields \ {"alone"} : h'[u][f] = h[u][f]
              /\ Busy(u)' <=> Busy(u)
              /\ Busy(u) => ~h'[u].alone
<1>1. h[t].at = "idle" /\ DOMAIN h' = Threads
  BY DEF Taken, Comes
<1>2. h'[t] = [Idle EXCEPT !.at = IF Refused(r) THEN "audit" ELSE "begin",
                           !.status = IF Refused(r) THEN 403 ELSE 200,
                           !.r = r, !.role = ResolveRequestAuth(r, r.kind),
                           !.alone = \A v \in Threads \ {t} : ~Busy(v)]
  BY DEF Taken
<1>3. \A u \in Threads \ {t} : h'[u] = IF Busy(u) THEN [h[u] EXCEPT !.alone = FALSE] ELSE h[u]
  BY DEF Taken
<1>4. DOMAIN Idle = Fields
  BY DEF Idle, Fields
<1>5. /\ DOMAIN h'[t] = Fields /\ h'[t].at = (IF Refused(r) THEN "audit" ELSE "begin")
      /\ h'[t].status = (IF Refused(r) THEN 403 ELSE 200) /\ h'[t].r = r
      /\ h'[t].alone = \A v \in Threads \ {t} : ~Busy(v)
      /\ \A f \in Fields \ {"at", "status", "r", "role", "alone"} : h'[t][f] = Idle[f]
  <2>. DEFINE at == IF Refused(r) THEN "audit" ELSE "begin"
              status == IF Refused(r) THEN 403 ELSE 200
              role == ResolveRequestAuth(r, r.kind)
              alone == \A v \in Threads \ {t} : ~Busy(v)
  <2>1. h'[t] = [Idle EXCEPT !.at = at, !.status = status, !.r = r, !.role = role, !.alone = alone]
    BY <1>2
  <2>. HIDE DEF at, status, role, alone
  <2>2. /\ DOMAIN h'[t] = Fields /\ h'[t].at = at /\ h'[t].status = status /\ h'[t].r = r /\ h'[t].alone = alone
        /\ \A f \in Fields \ {"at", "status", "r", "role", "alone"} : h'[t][f] = Idle[f]
    BY <1>4, <2>1 DEF Fields
  <2>. QED
    BY <2>2 DEF at, status, role, alone
<1>6. \A u \in Threads \ {t} :
        /\ DOMAIN h'[u] = Fields /\ \A f \in Fields \ {"alone"} : h'[u][f] = h[u][f]
        /\ Busy(u) => ~h'[u].alone
  <2>. TAKE u \in Threads \ {t}
  <2>1. DOMAIN h[u] = Fields /\ u \in DOMAIN h
    BY DEF Base, Work
  <2>2. h'[u] = IF Busy(u) THEN [h[u] EXCEPT !.alone = FALSE] ELSE h[u]
    BY <1>3, <2>1
  <2>. QED
    BY <2>1, <2>2 DEF Fields
<1>7. \A u \in Threads \ {t} : Busy(u)' <=> Busy(u)
  BY <1>6 DEF Busy, Fields
<1>. QED
  BY <1>1, <1>5, <1>6, <1>7 DEF Busy

\* Whether others are at work is not said by a record's place.
LEMMA SameWork ==
  ASSUME NEW w, NEW x, Work(w), DOMAIN x = Fields, \A f \in Fields \ {"alone"} : x[f] = w[f]
  PROVE  Work(x) /\ \A T, M : Honest(w, T, M) => Honest(x, T, M)
<1>1. \A f \in Fields \ {"alone"} : x[f] = w[f]
  OBVIOUS
<1>2. /\ x.at = w.at /\ x.r = w.r /\ x.status = w.status /\ x.hits = w.hits /\ x.stamp = w.stamp
      /\ x.ids = w.ids /\ x.outcomes = w.outcomes /\ x.file = w.file /\ x.seen = w.seen
  BY <1>1 DEF Fields
<1>. QED
  BY <1>2 DEF Work, Honest, Spared

\* Taking a request keeps records and answers.
LEMMA TakenKeeps ==
  ASSUME NEW s \in Scenes, Base(s), Answers1, NEW t \in Threads, NEW r \in todo, Taken(t, r)
  PROVE  Base(s)' /\ Answers1'
<1>1. /\ todo' = todo \ {r} /\ UNCHANGED <<outcome, lines, now, touched>>
      /\ mixed' = IF \E u \in Threads : Busy(u) /\ Group(h[u].r) = Group(r) THEN mixed \cup {Group(r)} ELSE mixed
  BY DEF Taken, Comes, disk, counters
<1>2. r \in s.requests /\ outcome[r.id] = Open /\ r.id \notin touched
  BY DEF Base
<1>3. /\ h'[t].at \in {"audit", "begin"} /\ h'[t].r = r /\ Work(h'[t]) /\ Honest(h'[t], touched', mixed')
      /\ h'[t].alone => \A u \in Threads \ {t} : ~Busy(u)
  <2>. DEFINE x == h'[t]
  <2>1. /\ DOMAIN x = Fields /\ x.at \in {"audit", "begin"} /\ x.r = r
        /\ x.status = (IF x.at = "audit" THEN 403 ELSE 200)
        /\ x.alone = \A v \in Threads \ {t} : ~Busy(v)
        /\ \A f \in Fields \ {"at", "status", "r", "role", "alone"} : x[f] = Idle[f]
    BY ZenonT(30), TakenShape
  <2>. HIDE DEF x
  <2>2. /\ Idle.hits = 0 /\ Idle.stamp = 0 /\ Idle.ids = <<>> /\ Idle.outcomes = <<>>
    BY DEF Idle
  <2>3. x.hits = 0 /\ x.stamp = 0 /\ x.ids = <<>> /\ x.outcomes = <<>> /\ x.status \in {200, 403}
    BY <2>1, <2>2 DEF Fields
  <2>4. Work(x)
    BY <2>1, <2>3, EmptyList DEF Work, Deleting, Places, Statuses
  <2>5. Honest(x, touched', mixed')
    BY <1>1, <1>2, <2>1 DEF Honest, Spared, Deleting
  <2>. QED
    BY <2>1, <2>4, <2>5 DEF x
<1>4. ~Busy(t) /\ DOMAIN h' = Threads
  BY TakenShape
<1>5. \A u \in Threads \ {t} : /\ Work(h'[u]) /\ h'[u].r = h[u].r /\ h'[u].at = h[u].at
                               /\ Busy(u)' <=> Busy(u)
                               /\ Busy(u) => ~h'[u].alone /\ Honest(h'[u], touched, mixed)
  <2>. TAKE u \in Threads \ {t}
  <2>1. /\ DOMAIN h'[u] = Fields /\ \A f \in Fields \ {"alone"} : h'[u][f] = h[u][f]
        /\ Busy(u)' <=> Busy(u)
        /\ Busy(u) => ~h'[u].alone
    BY TakenShape
  <2>2. Work(h[u]) /\ (Busy(u) => Honest(h[u], touched, mixed))
    BY DEF Base, Answers1
  <2>3. Work(h'[u]) /\ (Busy(u) => Honest(h'[u], touched, mixed))
    BY <2>1, <2>2, SameWork
  <2>4. h'[u].r = h[u].r /\ h'[u].at = h[u].at
    BY <2>1 DEF Fields
  <2>. QED
    BY <2>1, <2>3, <2>4
<1>6. \A u \in Threads : Work(h'[u])
  BY <1>3, <1>5
<1>7. mixed \subseteq mixed' /\ \A u \in Threads : Busy(u) /\ Group(h[u].r) = Group(r) => Group(r) \in mixed'
  BY <1>1
<1>8. \A u \in Threads : Busy(u)' =>
        /\ h'[u].r \in s.requests /\ h'[u].r \notin todo' /\ outcome'[h'[u].r.id] = Open
        /\ h'[u].at = "begin" => h'[u].r.id \notin touched'
  <2>. TAKE u \in Threads
  <2>1. CASE u = t
    BY <1>1, <1>2, <1>3, <2>1
  <2>2. CASE u # t
    BY <1>1, <1>5, <2>2 DEF Base
  <2>. QED
    BY <2>1, <2>2
<1>9. \A u, v \in Threads : Busy(u)' /\ Busy(v)' /\ u # v
        => h'[v].r # h'[u].r /\ ~h'[u].alone /\ (Group(h'[v].r) = Group(h'[u].r) => Group(h'[u].r) \in mixed')
  <2>. SUFFICES ASSUME NEW u \in Threads, NEW v \in Threads, Busy(u)', Busy(v)', u # v
                PROVE  h'[v].r # h'[u].r /\ ~h'[u].alone /\ (Group(h'[v].r) = Group(h'[u].r) => Group(h'[u].r) \in mixed')
    OBVIOUS
  <2>1. CASE u = t
    <3>1. Busy(v) /\ h'[v].r = h[v].r /\ h[v].r # r
      BY <1>5, <2>1 DEF Base
    <3>. QED
      BY <1>3, <1>7, <2>1, <3>1
  <2>2. CASE v = t
    <3>1. Busy(u) /\ h'[u].r = h[u].r /\ h[u].r # r /\ ~h'[u].alone
      BY <1>5, <2>2 DEF Base
    <3>. QED
      BY <1>3, <1>7, <2>2, <3>1
  <2>3. CASE u # t /\ v # t
    <3>1. /\ Busy(u) /\ Busy(v) /\ h'[u].r = h[u].r /\ h'[v].r = h[v].r /\ ~h'[u].alone
      BY <1>5, <2>3
    <3>. QED
      BY <1>7, <3>1 DEF Base
  <2>. QED
    BY <2>1, <2>2, <2>3
<1>10. todo' \subseteq s.requests /\ Logs' /\ now' \in Nat /\ DOMAIN outcome' = {q.id : q \in s.requests}
       /\ touched' \subseteq DOMAIN outcome' /\ \A q \in todo' : outcome'[q.id] = Open /\ q.id \notin touched'
  BY <1>1 DEF Base, Logs
<1>11. Base(s)'
  BY <1>4, <1>6, <1>8, <1>9, <1>10 DEF Base
<1>12. AnswersAreTrue'
  BY <1>1, <1>7 DEF Answers1, AnswersAreTrue
<1>13. \A u \in Threads : Busy(u)' => Honest(h'[u], touched', mixed')
  <2>1. \A u \in Threads \ {t} : Busy(u) => Honest(h'[u], touched', mixed')
    BY <1>1, <1>5, <1>7 DEF Honest, Spared
  <2>. QED
    BY <1>3, <1>5, <2>1
<1>. QED
  BY <1>11, <1>12, <1>13 DEF Answers1

\* So does the death of the server: what it was serving is lost, not answered.
LEMMA DieKeeps ==
  ASSUME NEW s \in Scenes, Base(s), Answers1, Die
  PROVE  Base(s)' /\ Answers1'
<1>1. /\ h' = [t \in Threads |-> Idle] /\ UNCHANGED <<todo, lines, now, touched>> /\ mixed \subseteq mixed'
      /\ outcome' = [i \in DOMAIN outcome |-> IF \E t \in Threads : Busy(t) /\ h[t].r.id = i THEN Lost ELSE outcome[i]]
  BY DEF Die, disk
<1>2. DOMAIN h' = Threads /\ \A t \in Threads : h'[t] = Idle /\ Work(h'[t]) /\ ~Busy(t)'
  BY <1>1, IdleWorks DEF Busy
<1>3. DOMAIN outcome' = DOMAIN outcome
      /\ \A i \in DOMAIN outcome : /\ outcome'[i] \in {Lost, outcome[i]}
                                   /\ (\A t \in Threads : Busy(t) => h[t].r.id # i) => outcome'[i] = outcome[i]
  BY <1>1
<1>4. \A r \in todo' : outcome'[r.id] = Open /\ r.id \notin touched'
  <2>. TAKE r \in todo'
  <2>1. r.id \in DOMAIN outcome /\ outcome[r.id] = Open /\ r.id \notin touched
    BY <1>1 DEF Base
  <2>2. \A t \in Threads : Busy(t) => h[t].r.id # r.id
    BY <1>1, IdsDiffer
  <2>. QED
    BY <1>1, <1>3, <2>1, <2>2
<1>5. Base(s)'
  BY <1>1, <1>2, <1>3, <1>4 DEF Base, Logs
<1>6. AnswersAreTrue'
  <2>. SUFFICES ASSUME NEW j \in touched
                PROVE  /\ outcome'[j] \notin {400, 403, 404} /\ (outcome'[j] = 422 => j \in mixed')
                       /\ outcome'[j] \notin {Open, Lost, Dropped, 500}
                            => \E i \in DOMAIN lines.audit : lines.audit[i].id = j /\ lines.audit[i].ok = (outcome'[j] = 200)
    BY <1>1 DEF AnswersAreTrue
  <2>1. outcome'[j] \in {Lost, outcome[j]}
    BY <1>3 DEF Base
  <2>2. CASE outcome'[j] = Lost
    BY <2>2 DEF Lost
  <2>3. CASE outcome'[j] = outcome[j]
    BY <1>1, <2>3 DEF Answers1, AnswersAreTrue
  <2>. QED
    BY <2>1, <2>2, <2>3
<1>. QED
  BY <1>2, <1>5, <1>6 DEF Answers1

\* What others than the server's threads do.
Aside == Tick \/ Alter \/ \E d \in DOMAIN runs : ProcessWrites(d) \/ ProcessEnds(d)

\* Time, processes and people who edit files leave the requests alone.
LEMMA AsideLeaves ==
  ASSUME Aside
  PROVE  UNCHANGED <<todo, h, lines, sent, outcome, touched, mixed, origin>> /\ (now' = now \/ now' = now + 1)
         /\ (Alter \/ files' = files)
BY DEF Aside, Tick, Alter, ProcessWrites, ProcessEnds, disk, counters, history

\* They keep records and answers.
LEMMA AsideKeeps ==
  ASSUME NEW s \in Scenes, Base(s), Answers1, Aside
  PROVE  Base(s)' /\ Answers1'
<1>1. UNCHANGED <<todo, h, lines, outcome, touched, mixed>> /\ now' \in Nat
  BY AsideLeaves DEF Base
<1>. QED
  BY <1>1 DEF Base, Logs, Busy, Answers1, AnswersAreTrue

------------------------------------------------------------------------------
(* Snapshots on disk, and those that a thread is about to write. *)

\* Two states of a thread that read alike as to the files.
Alike(u) == /\ h'[u].at = h[u].at /\ h'[u].file = h[u].file /\ h'[u].rec = h[u].rec /\ h'[u].r = h[u].r
            /\ h'[u].ids = h[u].ids

SnapshotsStay == /\ SnapshotFiles(files') = SnapshotFiles(files)
                 /\ \A f \in SnapshotFiles(files) : files'[f] = files[f]

\* A snapshot of the disk is one under a name of a snapshot.
LEMMA SnapshotOnDisk ==
  /\ \A fs : \A f \in SnapshotName : f \in SnapshotFiles(fs) <=> f \in DOMAIN fs
  /\ NoFile \notin SnapshotName /\ Workflow \notin SnapshotName
BY FilesApart DEF SnapshotFiles, SnapshotName

\* Of the files that threads hold, those of the savers are theirs alone.
LEMMA HeldKept ==
  ASSUME Snapshots1, FilesOk', NEW t \in Threads, \A u \in Threads \ {t} : Alike(u),
         NamesOk(h'[t]), Holds(t)' => Held(t)',
         \A u \in Threads \ {t} : Holds(u) /\ Saves(u) =>
           h'[t].file # h[u].file /\ (h[u].file \in DOMAIN files' => h[u].file \in DOMAIN files /\ files'[h[u].file] = files[h[u].file]),
         \A u \in Threads \ {t} : Holds(u) /\ ~Saves(u) =>
           (h[u].file \in DOMAIN origin' => h[u].file \in DOMAIN origin /\ origin'[h[u].file] = origin[h[u].file])
  PROVE  Snapshots1'
<1>1. \A u \in Threads \ {t} : NamesOk(h'[u])
  BY DEF Alike, NamesOk, Snapshots1
<1>2. ASSUME NEW u \in Threads \ {t}, Holds(u)'
      PROVE  Held(u)'
  <2>1. Holds(u) /\ Held(u) /\ (Saves(u)' <=> Saves(u))
    BY <1>2 DEF Alike, Holds, Snapshots1, Saves
  <2>2. /\ h'[u].rec = h[u].rec /\ h'[u].file = h[u].file /\ h'[u].at = h[u].at
        /\ \A v \in Threads \ {t} : h'[v].file = h[v].file
    BY DEF Alike
  <2>3. CASE Saves(u)
    <3>1. \A v \in Threads \ {u} : h'[v].file # h'[u].file
      BY <2>1, <2>2, <2>3 DEF Held
    <3>2. h'[u].file \in DOMAIN files' => h'[u].at = "fill" /\ files'[h'[u].file] = Torn
      BY <2>1, <2>2, <2>3 DEF Held
    <3>. QED
      BY <2>1, <2>2, <2>3, <3>1, <3>2 DEF Held
  <2>4. CASE ~Saves(u)
    <3>1. h'[u].file \in DOMAIN origin' /\ origin'[h'[u].file].markdown # Nothing => Marked(h'[u].rec, origin'[h'[u].file])
      BY <2>1, <2>2, <2>4 DEF Held
    <3>. QED
      BY <2>1, <2>2, <2>4, <3>1 DEF Held
  <2>. QED
    BY <2>3, <2>4
<1>3. \A u \in Threads : NamesOk(h'[u]) /\ (Holds(u)' => Held(u)')
  BY <1>1, <1>2
<1>. QED
  BY <1>3 DEF Snapshots1

\* Snapshots that stay are as good as before.
LEMMA FilesStay ==
  ASSUME FilesOk, SnapshotsStay, origin' = origin
  PROVE  FilesOk'
BY DEF FilesOk, SnapshotsStay

\* A step that leaves the snapshots and takes up none.
LEMMA Elsewhere ==
  ASSUME Snapshots1, SnapshotsStay, origin' = origin, NEW t \in Threads, \A u \in Threads \ {t} : Alike(u),
         h'[t].file \in {h[t].file, NoFile, Workflow}, NamesOk(h'[t]), ~Holds(t)'
  PROVE  Snapshots1'
<1>1. FilesOk'
  BY FilesStay DEF Snapshots1
<1>2. ASSUME NEW u \in Threads \ {t}, Holds(u), Saves(u)
      PROVE  h'[t].file # h[u].file /\ (h[u].file \in DOMAIN files' => h[u].file \in DOMAIN files /\ files'[h[u].file] = files[h[u].file])
  <2>1. h[u].file \in SnapshotName /\ h[t].file # h[u].file
    BY <1>2 DEF Holds, Snapshots1, Held
  <2>2. h[u].file # NoFile /\ h[u].file # Workflow
        /\ (h[u].file \in DOMAIN files' => h[u].file \in SnapshotFiles(files'))
        /\ (h[u].file \in SnapshotFiles(files) => h[u].file \in DOMAIN files)
    BY <2>1, SnapshotOnDisk
  <2>. QED
    BY <2>1, <2>2 DEF SnapshotsStay
<1>. QED
  BY <1>1, <1>2, HeldKept

\* Files that stay, stay snapshots.
LEMMA SameFiles == files' = files => SnapshotsStay
BY DEF SnapshotsStay

\* Files of other directories.
LEMMA OtherFiles ==
  ASSUME NEW f, f.dir # Dir, NEW x, files' \in {Set(files, f, x), Drop(files, f)}
  PROVE  SnapshotsStay
BY DEF SnapshotsStay, SnapshotFiles, Set, Drop

\* The places of a request that is about no snapshot.
Away == {"idle", "begin", "audit", "log", "deliver", "row", "spawn", "stop"}

\* A thread that leaves the snapshots keeps what is said of them.
LEMMA GoesAway ==
  ASSUME Snapshots1, SnapshotsStay, origin' = origin, DOMAIN h = Threads, NEW t \in Threads, NEW x, Becomes(t, x),
         x.file \in {h[t].file, NoFile}, x.at \in Away
  PROVE  Snapshots1'
<1>1. h'[t] = x /\ \A u \in Threads \ {t} : Alike(u)
  BY DEF Becomes, Alike
<1>2. NamesOk(h'[t]) /\ ~Holds(t)'
  BY <1>1 DEF NamesOk, Holds, Away, Deleting
<1>. QED
  BY <1>1, <1>2, Elsewhere

\* So does one that ends its request.
LEMMA EndsAway ==
  ASSUME Snapshots1, SnapshotsStay, origin' = origin, DOMAIN h = Threads, NEW t \in Threads, NEW how, Ends(t, how)
  PROVE  Snapshots1'
BY GoesAway DEF Ends, Idle, Away

\* So does one that goes on to its answer.
LEMMA AnswersAway ==
  ASSUME Snapshots1, SnapshotsStay, origin' = origin, DOMAIN h = Threads, NEW t \in Threads, DOMAIN h[t] = Fields,
         \/ \E p \in Away : Becomes(t, [h[t] EXCEPT !.at = p])
         \/ \E p \in Away : \E status : Becomes(t, [h[t] EXCEPT !.at = p, !.status = status])
         \/ \E p \in Away : \E rec : Becomes(t, [h[t] EXCEPT !.at = p, !.rec = rec])
  PROVE  Snapshots1'
<1>1. ASSUME NEW x, Becomes(t, x), x.at \in Away, x.file = h[t].file
      PROVE  Snapshots1'
  BY <1>1, GoesAway
<1>2. ASSUME NEW p \in Away, Becomes(t, [h[t] EXCEPT !.at = p])
      PROVE  Snapshots1'
  <2>. DEFINE x == [h[t] EXCEPT !.at = p]
  <2>1. x.at = p /\ x.file = h[t].file
    BY DEF Fields
  <2>2. Becomes(t, x)
    BY <1>2
  <2>. HIDE DEF x
  <2>. QED
    BY <1>1, <2>1, <2>2
<1>3. ASSUME NEW p \in Away, NEW status, Becomes(t, [h[t] EXCEPT !.at = p, !.status = status])
      PROVE  Snapshots1'
  <2>. DEFINE x == [h[t] EXCEPT !.at = p, !.status = status]
  <2>1. x.at = p /\ x.file = h[t].file
    BY DEF Fields
  <2>2. Becomes(t, x)
    BY <1>3
  <2>. HIDE DEF x
  <2>. QED
    BY <1>1, <2>1, <2>2
<1>4. ASSUME NEW p \in Away, NEW rec, Becomes(t, [h[t] EXCEPT !.at = p, !.rec = rec])
      PROVE  Snapshots1'
  <2>. DEFINE x == [h[t] EXCEPT !.at = p, !.rec = rec]
  <2>1. x.at = p /\ x.file = h[t].file
    BY DEF Fields
  <2>2. Becomes(t, x)
    BY <1>4
  <2>. HIDE DEF x
  <2>. QED
    BY <1>1, <2>1, <2>2
<1>. QED
  BY <1>2, <1>3, <1>4

\* The workflow file.
LEMMA TakesWorkflow ==
  ASSUME Snapshots1, SnapshotsStay, origin' = origin, DOMAIN h = Threads, NEW t \in Threads, DOMAIN h[t] = Fields,
         h[t].r.kind \notin Edits, NEW x, Becomes(t, x), x.r = h[t].r, x.file = Workflow, x.at \in {"write", "fill"}
  PROVE  Snapshots1'
<1>1. h'[t] = x /\ \A u \in Threads \ {t} : Alike(u)
  BY DEF Becomes, Alike
<1>2. NamesOk(h'[t]) /\ ~Holds(t)'
  BY <1>1, SnapshotOnDisk DEF NamesOk, Holds, Deleting
<1>. QED
  BY <1>1, <1>2, Elsewhere

\* A handler of the workflow aborts, answers or writes the workflow.
LEMMA WorkflowChoices ==
  ASSUME NEW t, UpdateWorkflow(t) \/ ActOnWorkflow(t)
  PROVE  Aborts(t) \/ (\E status : Answers(t, status)) \/ \E w : WritesWorkflow(t, w)
<1>1. CASE UpdateWorkflow(t)
  BY <1>1 DEF UpdateWorkflow
<1>2. CASE ActOnWorkflow(t)
  <2>. DEFINE r == h[t].r
             status == IF r.run = "" \/ r.action \notin {"escalate", "clear_escalation", "extend_due"} THEN 400
                       ELSE IF RunProblem(r) # 200 THEN RunProblem(r)
                       ELSE IF Existing.form = "torn" THEN 422 ELSE 200
  <2>1. \/ Aborts(t) \/ (status # 200 /\ Answers(t, status))
        \/ WritesWorkflow(t, Acted(Existing, ActionRow(t, Existing)))
    BY <1>2 DEF ActOnWorkflow
  <2>. HIDE DEF status
  <2>. QED
    BY <2>1
<1>. QED
  BY <1>1, <1>2

\* The other handlers of the group answer, are done or begin to deliver.
LEMMA TrustChoices ==
  ASSUME NEW t, Approve(t) \/ Send(t) \/ Resend(t)
  PROVE  (\E status : Answers(t, status)) \/ Becomes(t, [h[t] EXCEPT !.at = "audit"]) \/ \E targets : Delivers(t, targets)
<1>1. CASE Approve(t)
  BY <1>1 DEF Approve
<1>2. CASE Send(t)
  BY <1>2 DEF Send
<1>3. CASE Resend(t)
  BY <1>3 DEF Resend
<1>. QED
  BY <1>1, <1>2, <1>3

\* None of them touches a snapshot.
LEMMA TrustLeavesSnapshots ==
  ASSUME NEW s \in Scenes, Base(s), Snapshots1, NEW t \in Threads, TrustStep(t)
  PROVE  Snapshots1'
<1>1. DOMAIN h = Threads /\ DOMAIN h[t] = Fields /\ Work(h[t])
  BY DEF Base, Work
<1>2. origin' = origin
  BY DEF TrustStep, Approve, UpdateWorkflow, ActOnWorkflow, FillWorkflow, WorkflowWriteFails, LogAction, Send, Resend,
         DryRun, Rejected, Delivered, PostFails, FileFails, AppendRow, CloseDelivery, Answers, Aborts, WritesWorkflow,
         Delivers, Stay, history
<1>3. CASE FillWorkflow(t)
  <2>1. files' \in Filled(Workflow, h[t].rec)
    BY <1>3 DEF FillWorkflow
  <2>2. SnapshotsStay
    <3>1. files' = files \/ \E x : files' = Set(files, Workflow, x)
      BY <2>1 DEF Filled
    <3>. QED
      BY <3>1, SameFiles, OtherFiles, FilesApart
  <2>3. \E p \in Away : Becomes(t, [h[t] EXCEPT !.at = p])
    BY <1>3 DEF FillWorkflow, Away
  <2>. QED
    BY <1>1, <1>2, <2>2, <2>3, AnswersAway
<1>4. CASE ~FillWorkflow(t)
  <2>1. SnapshotsStay
    <3>1. files' = files
      BY <1>4 DEF TrustStep, Approve, UpdateWorkflow, ActOnWorkflow, WorkflowWriteFails, LogAction, Send, Resend,
         DryRun, Rejected, Delivered, PostFails, FileFails, AppendRow, CloseDelivery, Answers, Aborts, WritesWorkflow,
         Delivers, Stay, disk
    <3>. QED
      BY <3>1, SameFiles
  <2>2. CASE \E how : Ends(t, how)
    BY <1>1, <1>2, <2>1, <2>2, EndsAway
  <2>3. CASE \E status : Answers(t, status)
    BY <1>1, <1>2, <2>1, <2>3, AnswersAway DEF Answers, Away
  <2>4. CASE Becomes(t, [h[t] EXCEPT !.at = "audit"])
    BY <1>1, <1>2, <2>1, <2>4, AnswersAway DEF Away
  <2>5. CASE \E form : Told(t, form)
    BY <1>1, <1>2, <2>1, <2>5, AnswersAway DEF Told, Away
  <2>6. CASE h[t].r.kind \in {"workflow", "action"} /\ \E w : WritesWorkflow(t, w)
    <3>1. PICK w : Becomes(t, [h[t] EXCEPT !.at = "write", !.file = Workflow, !.rec = w])
      BY <2>6 DEF WritesWorkflow
    <3>. DEFINE x == [h[t] EXCEPT !.at = "write", !.file = Workflow, !.rec = w]
    <3>2. x.at = "write" /\ x.file = Workflow /\ x.r = h[t].r
      BY <1>1 DEF Fields
    <3>3. Becomes(t, x)
      BY <3>1
    <3>. HIDE DEF x
    <3>4. h[t].r.kind \notin Edits
      BY <2>6 DEF Edits
    <3>. QED
      BY <1>1, <1>2, <2>1, <3>2, <3>3, <3>4, TakesWorkflow
  <2>7. CASE \E targets : Delivers(t, targets)
    <3>1. PICK targets : Delivers(t, targets)
      BY <2>7
    <3>. DEFINE x == [h[t] EXCEPT !.at = "deliver", !.ids = targets, !.seen = lines.rows, !.stamp = now,
                                  !.hits = 0, !.outcomes = <<>>]
    <3>2. x.at = "deliver" /\ x.file = h[t].file
      BY <1>1 DEF Fields
    <3>3. Becomes(t, x)
      BY <3>1 DEF Delivers
    <3>. HIDE DEF x
    <3>. QED
      BY <1>1, <1>2, <2>1, <3>2, <3>3, GoesAway DEF Away
  <2>8. CASE h[t].at = "deliver" /\ Becomes(t, [h[t] EXCEPT !.hits = @ + 1])
    <3>. DEFINE x == [h[t] EXCEPT !.hits = @ + 1]
    <3>2. x.at = "deliver" /\ x.file = h[t].file
      BY <1>1, <2>8 DEF Fields
    <3>3. Becomes(t, x)
      BY <2>8
    <3>. HIDE DEF x
    <3>. QED
      BY <1>1, <1>2, <2>1, <3>2, <3>3, GoesAway DEF Away
  <2>9. CASE AppendRow(t)
    <3>1. PICK row : Becomes(t, [h[t] EXCEPT !.at = "deliver", !.ids = Tail(@), !.seen = Append(@, row), !.hits = 0,
                                             !.outcomes = Append(@, h[t].rec.form)])
      BY <2>9 DEF AppendRow
    <3>. DEFINE x == [h[t] EXCEPT !.at = "deliver", !.ids = Tail(@), !.seen = Append(@, row), !.hits = 0,
                                  !.outcomes = Append(@, h[t].rec.form)]
    <3>2. x.at = "deliver" /\ x.file = h[t].file
      BY <1>1 DEF Fields
    <3>3. Becomes(t, x)
      BY <3>1
    <3>. HIDE DEF x
    <3>. QED
      BY <1>1, <1>2, <2>1, <3>2, <3>3, GoesAway DEF Away
  <2>10. CASE UpdateWorkflow(t) \/ ActOnWorkflow(t)
    <3>1. h[t].r.kind \in {"workflow", "action"}
      BY <2>10 DEF UpdateWorkflow, ActOnWorkflow
    <3>2. Aborts(t) \/ (\E status : Answers(t, status)) \/ \E w : WritesWorkflow(t, w)
      BY <2>10, WorkflowChoices
    <3>. QED
      BY <2>2, <2>3, <2>6, <3>1, <3>2 DEF Aborts
  <2>11. CASE Approve(t) \/ Send(t) \/ Resend(t)
    <3>1. (\E status : Answers(t, status)) \/ Becomes(t, [h[t] EXCEPT !.at = "audit"]) \/ \E targets : Delivers(t, targets)
      BY <2>11, TrustChoices
    <3>. QED
      BY <2>3, <2>4, <2>7, <3>1
  <2>12. CASE DryRun(t) \/ Rejected(t) \/ Delivered(t) \/ PostFails(t) \/ FileFails(t)
    BY <2>5, <2>8, <2>12 DEF DryRun, Rejected, Delivered, PostFails, FileFails, AtTarget
  <2>13. CASE WorkflowWriteFails(t) \/ LogAction(t) \/ CloseDelivery(t)
    BY <2>2, <2>4, <2>13 DEF WorkflowWriteFails, LogAction, CloseDelivery
  <2>. QED
    BY <1>4, <2>9, <2>10, <2>11, <2>12, <2>13 DEF TrustStep
<1>. QED
  BY <1>3, <1>4

\* Neither does a handler of runs, nor the audit line.
LEMMA RunsLeaveSnapshots ==
  ASSUME NEW s \in Scenes, Base(s), Snapshots1, NEW t \in Threads, RunStep(t) \/ AuditWritten(t) \/ AuditFails(t)
  PROVE  Snapshots1'
<1>1. DOMAIN h = Threads /\ DOMAIN h[t] = Fields
  BY DEF Base, Work
<1>2. origin' = origin /\ files' = files
  BY DEF RunStep, Check, Trigger, LaunchFails, TriggerStop, Answer, AuditWritten, AuditFails, disk, history
<1>3. SnapshotsStay
  BY <1>2, SameFiles
<1>4. CASE \E how : Ends(t, how)
  BY <1>1, <1>2, <1>3, <1>4, EndsAway
<1>5. CASE \E p \in Away : Becomes(t, [h[t] EXCEPT !.at = p])
  BY <1>1, <1>2, <1>3, <1>5, AnswersAway
<1>6. CASE \E p \in Away : \E status : Becomes(t, [h[t] EXCEPT !.at = p, !.status = status])
  BY <1>1, <1>2, <1>3, <1>6, AnswersAway
<1>7. CASE Check(t)
  <2>1. (\E status : Answer(t, status)) \/ \E p \in {"stop", "spawn"} : Becomes(t, [h[t] EXCEPT !.at = p])
    BY <1>7 DEF Check
  <2>. QED
    BY <1>5, <1>6, <2>1 DEF Answer, Away
<1>8. CASE Trigger(t) \/ LaunchFails(t) \/ TriggerStop(t)
  <2>1. \/ Becomes(t, [h[t] EXCEPT !.at = "audit"])
        \/ Becomes(t, [h[t] EXCEPT !.at = "audit", !.status = 500])
    BY <1>8 DEF Trigger, LaunchFails, TriggerStop
  <2>2. "audit" \in Away
    BY DEF Away
  <2>. QED
    BY ZenonT(40), <1>5, <1>6, <2>1, <2>2
<1>9. CASE AuditWritten(t) \/ AuditFails(t)
  BY <1>4, <1>9 DEF AuditWritten, AuditFails
<1>. QED
  BY <1>7, <1>8, <1>9 DEF RunStep

\* Loading a record completes it, and leaves one that has kept its mark as it is.
LEMMA NormalizedFacts ==
  ASSUME NEW x, IsRecord(x)
  PROVE  LET y == Normalized(x) IN
         /\ IsRecord(y) /\ y.form = x.form /\ y.schema = Version /\ y.cmp # Nothing /\ y.markdown # Nothing
         /\ \A c : Marked(x, c) => Marked(y, c) /\ Content(y) = Content(x)
<1>. DEFINE cmp == IF x.cmp = Nothing THEN Rendered(x.snap) ELSE x.cmp
            markdown == IF x.markdown = Nothing THEN Rendered(x.snap) ELSE x.markdown
            y == [x EXCEPT !.schema = Version, !.cmp = cmp, !.markdown = markdown]
            kept == x.schema = Version /\ x.cmp # Nothing /\ x.integrity # {}
            z == [y EXCEPT !.integrity = IF kept THEN x.integrity ELSE {Content(y)}]
            names == {"form", "schema", "snap", "cmp", "markdown", "integrity", "persisted", "name", "pinned",
                      "archived", "archivedAt", "tags"}
<1>1. DOMAIN x = names /\ x.persisted \in Nat
  BY DEF IsRecord
<1>2. cmp # Nothing /\ markdown # Nothing
  <2>1. Rendered(x.snap) # Nothing
    <3>1. Rendered(x.snap).by = "server" /\ Nothing.by = "none"
      BY DEF Rendered, Nothing
    <3>. QED
      BY <3>1
  <2>. QED
    BY <2>1
<1>3. (x.cmp # Nothing => cmp = x.cmp) /\ (x.markdown # Nothing => markdown = x.markdown)
  OBVIOUS
<1>. HIDE DEF cmp, markdown
<1>4. /\ DOMAIN y = names /\ y.schema = Version /\ y.cmp = cmp /\ y.markdown = markdown
      /\ \A f \in names \ {"schema", "cmp", "markdown"} : y[f] = x[f]
  BY <1>1
<1>5. Normalized(x) = z
  <2>1. y.integrity = x.integrity
    BY <1>4
  <2>. QED
    BY <2>1 DEF Normalized, cmp, markdown
<1>. HIDE DEF y
<1>6. /\ DOMAIN z = names /\ (kept => z.integrity = x.integrity) /\ \A f \in names \ {"integrity"} : z[f] = y[f]
  BY <1>4
<1>. HIDE DEF z
<1>7. z.schema = Version /\ z.cmp = cmp /\ z.markdown = markdown /\ z.snap = x.snap /\ z.form = x.form /\ z.persisted = x.persisted
  BY <1>4, <1>6
<1>8. IsRecord(z)
  BY <1>1, <1>6, <1>7 DEF IsRecord
<1>9. ASSUME NEW c, Marked(x, c)
      PROVE  Marked(z, c) /\ Content(z) = Content(x)
  <2>1. x.schema = Version /\ x.cmp # Nothing /\ x.markdown # Nothing /\ x.integrity = {c}
    BY <1>9 DEF Marked
  <2>2. z.integrity = {c} /\ z.cmp = x.cmp /\ z.markdown = x.markdown
    BY <1>3, <1>6, <1>7, <2>1
  <2>. QED
    BY <1>7, <2>1, <2>2 DEF Marked, Content
<1>. QED
  BY <1>2, <1>5, <1>7, <1>8, <1>9

\* An edit leaves the content and the mark of a record.
LEMMA EditedFacts ==
  ASSUME NEW x, IsRecord(x), NEW r
  PROVE  LET y == Edited(x, r) IN IsRecord(y) /\ y.form = x.form /\ \A c : Marked(x, c) => Marked(y, c)
<1>. DEFINE name == IF "name" \in r.gives THEN r.name ELSE x.name
            pinned == IF "pinned" \in r.gives THEN r.pinned ELSE x.pinned
            archived == IF "archived" \in r.gives THEN r.archived ELSE x.archived
            archivedAt == IF "archived" \notin r.gives THEN x.archivedAt ELSE IF r.archived THEN now ELSE 0
            tags == IF "tags" \in r.gives THEN r.tags ELSE x.tags
            y == [x EXCEPT !.name = name, !.pinned = pinned, !.archived = archived, !.archivedAt = archivedAt, !.tags = tags]
<1>1. Edited(x, r) = y
  BY DEF Edited
<1>. HIDE DEF name, pinned, archived, archivedAt, tags
<1>2. DOMAIN y = DOMAIN x /\ \A f \in {"form", "schema", "snap", "cmp", "markdown", "integrity", "persisted"} : y[f] = x[f]
  BY DEF IsRecord
<1>. HIDE DEF y
<1>3. /\ y.form = x.form /\ y.schema = x.schema /\ y.cmp = x.cmp /\ y.markdown = x.markdown
      /\ y.integrity = x.integrity /\ y.persisted = x.persisted
  BY <1>2
<1>. QED
  BY <1>1, <1>2, <1>3 DEF IsRecord, Marked

\* A new record is marked with its own content.
LEMMA RecordFacts ==
  ASSUME now \in Nat, NEW r, NEW c, NEW name, NEW pinned, NEW archived, NEW tags
  PROVE  LET x == Record(r, c, name, pinned, archived, tags) IN
         IsRecord(x) /\ Readable(x) /\ x.schema = Version /\ x.cmp = c.cmp /\ x.integrity = {Content(x)}
<1>. DEFINE x == Record(r, c, name, pinned, archived, tags)
            at == IF archived THEN now ELSE 0
<1>1. x = [form |-> "record", schema |-> Version, snap |-> c.snap, cmp |-> c.cmp, markdown |-> c.markdown,
           integrity |-> {Content(c)}, persisted |-> now, name |-> name, pinned |-> pinned,
           archived |-> archived, archivedAt |-> at, tags |-> tags]
  BY DEF Record
<1>. HIDE DEF at, x
<1>2. /\ x.form = "record" /\ x.schema = Version /\ x.snap = c.snap /\ x.cmp = c.cmp /\ x.markdown = c.markdown
      /\ x.integrity = {Content(c)} /\ x.persisted = now
  BY <1>1
<1>3. DOMAIN x = {"form", "schema", "snap", "cmp", "markdown", "integrity", "persisted", "name", "pinned",
                  "archived", "archivedAt", "tags"}
  BY <1>1
<1>4. Content(x) = Content(c)
  BY <1>2 DEF Content
<1>. QED
  BY <1>2, <1>3, <1>4 DEF IsRecord, Readable, x

\* The snapshots that are left when a file is deleted are good.
LEMMA FilesDropped ==
  ASSUME FilesOk, NEW f, files' = Drop(files, f), origin' = origin
  PROVE  FilesOk' /\ \A g \in DOMAIN files' : g \in DOMAIN files /\ files'[g] = files[g]
<1>1. DOMAIN files' \subseteq DOMAIN files /\ \A g \in DOMAIN files' : files'[g] = files[g]
  BY DEF Drop
<1>2. SnapshotFiles(files') \subseteq SnapshotFiles(files) /\ SnapshotFiles(files') \subseteq DOMAIN files'
  BY <1>1 DEF SnapshotFiles
<1>3. IsFiniteSet(SnapshotFiles(files'))
  BY <1>2, FS_Subset DEF FilesOk
<1>. QED
  BY <1>1, <1>2, <1>3 DEF FilesOk

\* They are good when one is written with a mark of its own origin.
LEMMA FilesSet ==
  ASSUME FilesOk, NEW f \in SnapshotName, NEW x, files' = Set(files, f, x),
         DOMAIN origin' \subseteq SnapshotName,
         \A g \in DOMAIN origin' : g # f => g \in DOMAIN origin /\ origin'[g] = origin[g],
         Readable(x) => IsRecord(x) /\ (f \in DOMAIN origin' /\ origin'[f].markdown # Nothing => Marked(x, origin'[f]))
  PROVE  FilesOk' /\ \A g \in DOMAIN files' : g # f => g \in DOMAIN files /\ files'[g] = files[g]
<1>1. DOMAIN files' = DOMAIN files \cup {f} /\ files'[f] = x /\ \A g \in DOMAIN files' : g # f => files'[g] = files[g]
  BY DEF Set
<1>2. f \in SnapshotFiles(files') /\ SnapshotFiles(files') = SnapshotFiles(files) \cup {f} /\ SnapshotFiles(files') \subseteq DOMAIN files'
  BY <1>1 DEF SnapshotFiles, SnapshotName
<1>3. IsFiniteSet(SnapshotFiles(files'))
  BY <1>2, FS_AddElement DEF FilesOk
<1>4. ASSUME NEW g \in SnapshotFiles(files')
      PROVE  /\ g \in SnapshotName
             /\ Readable(files'[g]) =>
                  /\ IsRecord(files'[g])
                  /\ g \in DOMAIN origin' /\ origin'[g].markdown # Nothing => Marked(files'[g], origin'[g])
  <2>1. CASE g = f
    BY <1>1, <2>1
  <2>2. CASE g # f
    BY <1>1, <1>2, <2>2 DEF FilesOk
  <2>. QED
    BY <2>1, <2>2
<1>5. \A g \in DOMAIN files' : g # f => g \in DOMAIN files /\ files'[g] = files[g]
  BY <1>1
<1>. QED
  BY <1>3, <1>4, <1>5 DEF FilesOk

\* The request goes on to its next snapshot, or with the deletion of this one.
LEMMA GoesNext ==
  ASSUME Snapshots1, SnapshotsStay, origin' = origin, DOMAIN h = Threads, NEW t \in Threads, NEW x, Becomes(t, x),
         x.file \in {h[t].file, NoFile}, x.at \in {"next"} \cup Deleting, x.ids \in Seq(SnapshotName)
  PROVE  Snapshots1'
<1>1. h'[t] = x /\ \A u \in Threads \ {t} : Alike(u)
  BY DEF Becomes, Alike
<1>2. NamesOk(h'[t]) /\ ~Holds(t)'
  BY <1>1 DEF NamesOk, Holds, Deleting
<1>. QED
  BY <1>1, <1>2, Elsewhere

\* The head and the tail of a list of snapshots.
LEMMA TailOfNames ==
  ASSUME NEW ids \in Seq(SnapshotName), ids # <<>>
  PROVE  Tail(ids) \in Seq(SnapshotName) /\ Head(ids) \in SnapshotName
BY HeadTailProperties

\* A thread is done with the first of its snapshots.
LEMMA LoopGoesOn ==
  ASSUME Snapshots1, SnapshotsStay, origin' = origin, DOMAIN h = Threads, NEW t \in Threads, Work(h[t]),
         h[t].ids \in Seq(SnapshotName), h[t].ids # <<>>, NEW status,
         Becomes(t, Skipped(h[t], status)) \/ Becomes(t, Deleted(h[t]))
  PROVE  Snapshots1'
<1>1. ASSUME NEW x, Becomes(t, x), x.file = h[t].file, x.at = "next", x.ids = Tail(h[t].ids)
      PROVE  Snapshots1'
  BY <1>1, TailOfNames, GoesNext
<1>2. /\ Skipped(h[t], status).file = h[t].file /\ Skipped(h[t], status).at = "next"
      /\ Skipped(h[t], status).ids = Tail(h[t].ids)
  BY SkippedShape DEF Fields
<1>3. Deleted(h[t]).file = h[t].file /\ Deleted(h[t]).at = "next" /\ Deleted(h[t]).ids = Tail(h[t].ids)
  BY DeletedShape DEF Fields
<1>. QED
  BY <1>1, <1>2, <1>3

\* Steps of one snapshot after the other that leave the snapshots.
LEMMA EachLeavesSnapshots ==
  ASSUME NEW s \in Scenes, Base(s), Snapshots1, NEW t \in Threads,
         \/ BeginEach(t) \/ (\E status : Next1(t, status) /\ h[t].at = "next" /\ h[t].ids # <<>>)
         \/ LookForMarkdown(t) \/ DeleteMarkdown(t) \/ DeleteFails(t) \/ EndEach(t) \/ Retention(t)
  PROVE  Snapshots1'
<1>1. DOMAIN h = Threads /\ DOMAIN h[t] = Fields /\ Work(h[t]) /\ now \in Nat
  BY DEF Base, Work
<1>2. origin' = origin
  BY DEF BeginEach, Next1, LookForMarkdown, DeleteMarkdown, DeleteFails, EndEach, Retention, Fails, history
<1>0. h[t].at \in Deleting => h[t].ids \in Seq(SnapshotName) /\ h[t].ids # <<>> /\ Head(h[t].ids) \in SnapshotName
  BY <1>1, HeadIsName DEF Snapshots1, NamesOk, Work
<1>3. SnapshotsStay
  <2>1. CASE DeleteMarkdown(t)
    <3>1. Markdown(Head(h[t].ids)).dir # Dir
      <4>1. Head(h[t].ids) \in SnapshotName
        BY <1>0, <2>1 DEF DeleteMarkdown, Deleting
      <4>. QED
        BY <4>1 DEF Markdown, SnapshotName, Dir
    <3>. QED
      BY <2>1, <3>1, OtherFiles DEF DeleteMarkdown
  <2>2. CASE ~DeleteMarkdown(t)
    BY <2>2, SameFiles DEF BeginEach, Next1, LookForMarkdown, DeleteFails, EndEach, Retention, Fails, disk
  <2>. QED
    BY <2>1, <2>2
<1>4. CASE \E status : Fails(t, status)
  BY <1>1, <1>2, <1>3, <1>4, AnswersAway DEF Fails, Away
<1>5. ASSUME NEW x, Becomes(t, x), x.file = h[t].file, x.at = "next", x.ids \in Seq(SnapshotName)
      PROVE  Snapshots1'
  BY <1>1, <1>2, <1>3, <1>5, GoesNext
<1>6. CASE BeginEach(t)
  <2>. DEFINE x == [h[t] EXCEPT !.at = "next", !.ids = h[t].r.ids]
  <2>1. Becomes(t, x) \/ Fails(t, 400)
    BY <1>6 DEF BeginEach
  <2>2. x.file = h[t].file /\ x.at = "next" /\ x.ids = h[t].r.ids
    BY <1>1 DEF Fields
  <2>. HIDE DEF x
  <2>3. h[t].r \in s.requests
    BY <1>6 DEF Base, BeginEach, Busy
  <2>4. h[t].r.ids \in Seq(SnapshotName)
    BY <1>6, <2>3, SnapshotAssumption DEF BeginEach
  <2>. QED
    BY <1>4, <1>5, <2>1, <2>2, <2>4
<1>7. CASE \E status : Next1(t, status) /\ h[t].at = "next" /\ h[t].ids # <<>>
  <2>1. PICK status : Next1(t, status) /\ h[t].at = "next" /\ h[t].ids # <<>>
    BY <1>7
  <2>2. Becomes(t, Skipped(h[t], status)) /\ h[t].ids \in Seq(SnapshotName)
    BY <2>1 DEF Next1, Snapshots1, NamesOk, Deleting
  <2>. QED
    BY <1>1, <1>2, <1>3, <2>1, <2>2, LoopGoesOn
<1>8. CASE LookForMarkdown(t) \/ DeleteMarkdown(t) \/ DeleteFails(t)
  <2>1. h[t].at \in Deleting
    BY <1>8 DEF LookForMarkdown, DeleteMarkdown, DeleteFails, Deleting
  <2>2. CASE Becomes(t, Skipped(h[t], 422)) \/ Becomes(t, Deleted(h[t]))
    BY <1>0, <1>1, <1>2, <1>3, <2>1, <2>2, LoopGoesOn
  <2>3. CASE Becomes(t, [h[t] EXCEPT !.at = "unmark"])
    <3>. DEFINE x == [h[t] EXCEPT !.at = "unmark"]
    <3>1. x.file = h[t].file /\ x.at \in Deleting /\ x.ids = h[t].ids
      BY <1>1 DEF Fields, Deleting
    <3>2. Becomes(t, x)
      BY <2>3
    <3>. HIDE DEF x
    <3>. QED
      BY <1>0, <1>1, <1>2, <1>3, <2>1, <3>1, <3>2, GoesNext
  <2>. QED
    BY <1>8, <2>2, <2>3 DEF LookForMarkdown, DeleteMarkdown, DeleteFails
<1>9. CASE EndEach(t)
  <2>1. \E status : Becomes(t, [h[t] EXCEPT !.at = "audit", !.status = status])
    BY <1>9 DEF EndEach
  <2>. QED
    BY <1>1, <1>2, <1>3, <2>1, AnswersAway DEF Away
<1>10. CASE Retention(t)
  <2>. DEFINE ids == IF h[t].r.dryRun THEN <<>> ELSE Matched(files, h[t].r, now)
             x == [h[t] EXCEPT !.at = "next", !.seen = files, !.stamp = now, !.ids = ids]
  <2>1. Becomes(t, x) \/ Fails(t, 400) \/ Ends(t, Dropped)
    BY <1>10 DEF Retention
  <2>2. h[t].r \in s.requests /\ h[t].r.kind = "retention"
    BY <1>10 DEF Base, Retention, Busy
  <2>3. ids \in Seq(SnapshotName)
    <3>1. Matched(files, h[t].r, now) \in Seq(Candidates(files, h[t].r))
      BY <1>1, <2>2, RetentionChoice
    <3>2. Candidates(files, h[t].r) \subseteq SnapshotName
      BY CandidatesAreDated DEF Dated
    <3>3. Matched(files, h[t].r, now) \in Seq(SnapshotName)
      BY <3>1, <3>2, SeqMonotonic
    <3>. QED
      BY <3>3
  <2>. HIDE DEF ids
  <2>4. x.file = h[t].file /\ x.at = "next" /\ x.ids = ids
    BY <1>1 DEF Fields
  <2>. HIDE DEF x
  <2>5. CASE Ends(t, Dropped)
    BY <1>1, <1>2, <1>3, <2>5, EndsAway
  <2>. QED
    BY <1>4, <1>5, <2>1, <2>3, <2>4, <2>5
<1>. QED
  BY <1>6, <1>7, <1>8, <1>9, <1>10

\* A snapshot's file is taken up to be written.
LEMMA TakesUp ==
  ASSUME Snapshots1, files' = files, origin' = origin, DOMAIN h = Threads, NEW t \in Threads, DOMAIN h[t] = Fields,
         NEW f \in SnapshotName, NEW rec,
         NEW x, Becomes(t, x), x.at = "write", x.file = f, x.rec = rec, x.ids = h[t].ids, x.r = h[t].r,
         h[t].r.kind \in Edits => h[t].ids \in Seq(SnapshotName),
         IsRecord(rec), Readable(rec),
         \A u \in Threads \ {t} : Holds(u) /\ Saves(u) => h[u].file # f,
         Saves(t) => /\ rec.schema = Version /\ rec.cmp # Nothing /\ rec.integrity = {Content(rec)}
                     /\ f \notin DOMAIN files /\ \A u \in Threads \ {t} : h[u].file # f,
         ~Saves(t) => (f \in DOMAIN origin /\ origin[f].markdown # Nothing => Marked(rec, origin[f]))
  PROVE  Snapshots1'
<1>1. x.at = "write" /\ x.file = f /\ x.rec = rec /\ x.ids = h[t].ids /\ x.r = h[t].r
  OBVIOUS
<1>2. h'[t] = x /\ \A u \in Threads \ {t} : Alike(u) /\ h'[u] = h[u]
  BY DEF Becomes, Alike
<1>3. FilesOk'
  BY SameFiles, FilesStay DEF Snapshots1
<1>4. NamesOk(h'[t])
  BY <1>1, <1>2 DEF NamesOk, Deleting
<1>5. Held(t)'
  <2>1. Saves(t)' <=> Saves(t)
    BY <1>1, <1>2 DEF Saves
  <2>. QED
    BY <1>1, <1>2, <2>1 DEF Held
<1>. QED
  BY <1>1, <1>2, <1>3, <1>4, <1>5, HeldKept

\* A new snapshot is held by one thread and is not on the disk yet.
LEMMA NewSnapshotKeeps ==
  ASSUME NEW s \in Scenes, Base(s), Snapshots1, NEW t \in Threads, Saves(t), NEW rec, NewSnapshot(t, rec),
         IsRecord(rec), Readable(rec), rec.schema = Version, rec.cmp # Nothing, rec.integrity = {Content(rec)}
  PROVE  Snapshots1'
<1>1. PICK k \in Tails : LET f == [dir |-> Dir, at |-> now, tail |-> k] IN
                           /\ Fresh(f)
                           /\ Becomes(t, [h[t] EXCEPT !.at = "write", !.file = f, !.rec = rec])
                           /\ UNCHANGED <<todo, disk, outcome, counters, history>>
  BY DEF NewSnapshot
<1>. DEFINE f == [dir |-> Dir, at |-> now, tail |-> k]
<1>2. f \in SnapshotName
  BY SnapshotAssumption DEF Base, SnapshotName
<1>3. f \notin DOMAIN files /\ (\A u \in Threads : h[u].file # f) /\ files' = files /\ origin' = origin
      /\ Becomes(t, [h[t] EXCEPT !.at = "write", !.file = f, !.rec = rec])
  BY <1>1 DEF Fresh, disk, history
<1>. HIDE DEF f
<1>4. DOMAIN h = Threads /\ DOMAIN h[t] = Fields /\ h[t].r.kind \notin Edits
  BY DEF Base, Work, Saves, Edits
<1>. DEFINE x == [h[t] EXCEPT !.at = "write", !.file = f, !.rec = rec]
<1>5. x.at = "write" /\ x.file = f /\ x.rec = rec /\ x.ids = h[t].ids /\ x.r = h[t].r
  BY <1>4 DEF Fields
<1>6. Becomes(t, x)
  BY <1>3
<1>. HIDE DEF x
<1>. QED
  BY <1>2, <1>3, <1>4, <1>5, <1>6, TakesUp

\* So a save keeps what is said of the snapshots.
LEMMA SaveKeeps ==
  ASSUME NEW s \in Scenes, Base(s), Snapshots1, NEW t \in Threads, SaveSnapshot(t)
  PROVE  Snapshots1'
<1>1. DOMAIN h = Threads /\ h[t].at = "begin" /\ Saves(t) /\ now \in Nat
  BY DEF Base, SaveSnapshot, Saves
<1>2. CASE Ends(t, 422) /\ UNCHANGED <<todo, disk, counters, history>>
  BY <1>1, <1>2, SameFiles, EndsAway DEF disk, history
<1>3. CASE ~ (Ends(t, 422) /\ UNCHANGED <<todo, disk, counters, history>>)
  <2>. DEFINE r == h[t].r
              rec == Record(r, r.body, r.name, r.pinned, r.archived, r.tags)
  <2>1. r.body.cmp # Nothing /\ NewSnapshot(t, rec)
    BY <1>3 DEF SaveSnapshot
  <2>2. IsRecord(rec) /\ Readable(rec) /\ rec.schema = Version /\ rec.cmp = r.body.cmp /\ rec.integrity = {Content(rec)}
    BY <1>1, RecordFacts
  <2>. HIDE DEF rec
  <2>. QED
    BY <1>1, <2>1, <2>2, NewSnapshotKeeps
<1>. QED
  BY <1>2, <1>3

\* So does an import.
LEMMA ImportKeeps ==
  ASSUME NEW s \in Scenes, Base(s), Snapshots1, NEW t \in Threads, Import(t)
  PROVE  Snapshots1'
<1>. DEFINE r == h[t].r
            c == Normalized(r.body)
            marks == IF r.bare THEN [pinned |-> FALSE, archived |-> FALSE, tags |-> {}]
                     ELSE [pinned |-> c.pinned, archived |-> c.archived, tags |-> c.tags]
            rec == Record(r, c, Given(r.name, c.name), marks.pinned, marks.archived, marks.tags)
<1>1. DOMAIN h = Threads /\ DOMAIN h[t] = Fields /\ h[t].at = "begin" /\ Saves(t) /\ now \in Nat
  BY DEF Base, Import, Saves, Work
<1>2. CASE Ends(t, Dropped) /\ UNCHANGED <<todo, disk, counters, history>>
  BY <1>1, <1>2, SameFiles, EndsAway DEF disk, history
<1>3. CASE Fails(t, 400)
  <2>1. Becomes(t, [h[t] EXCEPT !.at = "audit", !.status = 400]) /\ files' = files /\ origin' = origin
    BY <1>3 DEF Fails, disk, history
  <2>2. "audit" \in Away
    BY DEF Away
  <2>. QED
    BY ZenonT(30), <1>1, <2>1, <2>2, SameFiles, AnswersAway
<1>4. CASE r.body.form \notin {"absent", "bad"} /\ NewSnapshot(t, rec)
  <2>1. r \in s.requests /\ r.kind = "import"
    BY DEF Base, Import, Busy
  <2>2. IsRecord(r.body)
    BY <1>4, <2>1, SnapshotAssumption
  <2>3. c.cmp # Nothing
    BY <2>2, NormalizedFacts
  <2>4. IsRecord(rec) /\ Readable(rec) /\ rec.schema = Version /\ rec.cmp = c.cmp /\ rec.integrity = {Content(rec)}
    <3>. HIDE DEF c, marks
    <3>. QED
      BY <1>1, RecordFacts
  <2>. HIDE DEF rec, c, marks
  <2>. QED
    BY <1>1, <1>4, <2>3, <2>4, NewSnapshotKeeps
<1>5. \/ Ends(t, Dropped) /\ UNCHANGED <<todo, disk, counters, history>>
      \/ Fails(t, 400)
      \/ r.body.form \notin {"absent", "bad"} /\ NewSnapshot(t, rec)
  <2>. HIDE DEF rec
  <2>. QED
    BY DEF Import, rec, marks, c
<1>. QED
  BY <1>2, <1>3, <1>4, <1>5

\* An edit holds a record whose mark is that of the file it has read.
LEMMA EditOneKeeps ==
  ASSUME NEW s \in Scenes, Base(s), Snapshots1, NEW t \in Threads, EditOne(t)
  PROVE  Snapshots1'
<1>. DEFINE r == h[t].r
            f == Head(h[t].ids)
            rec == Edited(Normalized(files[f]), r)
<1>1. /\ DOMAIN h = Threads /\ DOMAIN h[t] = Fields /\ h[t].at = "next" /\ h[t].ids # <<>> /\ r.kind \in Edits
      /\ h[t].ids \in Seq(SnapshotName) /\ f \in SnapshotName
  BY HeadIsName DEF Base, Work, EditOne, Deletes, Snapshots1, NamesOk, Deleting
<1>2. CASE \E status : Next1(t, status)
  BY <1>1, <1>2, EachLeavesSnapshots
<1>3. CASE ~ \E status : Next1(t, status)
  <2>1. /\ f \in DOMAIN files /\ Readable(files[f]) /\ files' = files /\ origin' = origin
        /\ Becomes(t, [h[t] EXCEPT !.at = "write", !.file = f, !.rec = rec])
    BY ZenonT(30), <1>3 DEF EditOne, disk, history
  <2>2. IsRecord(files[f]) /\ (f \in DOMAIN origin /\ origin[f].markdown # Nothing => Marked(files[f], origin[f]))
    BY <1>1, <2>1, SnapshotOnDisk DEF Snapshots1, FilesOk
  <2>. DEFINE y == Normalized(files[f])
  <2>3. IsRecord(y) /\ y.form = files[f].form /\ \A c : Marked(files[f], c) => Marked(y, c)
    BY <2>2, NormalizedFacts
  <2>. HIDE DEF y
  <2>4. IsRecord(Edited(y, r)) /\ Edited(y, r).form = y.form /\ \A c : Marked(y, c) => Marked(Edited(y, r), c)
    BY <2>3, EditedFacts
  <2>5. IsRecord(rec) /\ Readable(rec) /\ \A c : Marked(files[f], c) => Marked(rec, c)
    BY <2>1, <2>3, <2>4 DEF y, Readable
  <2>. HIDE DEF rec
  <2>6. \A u \in Threads \ {t} : Holds(u) /\ Saves(u) => h[u].file # f
    <3>1. Torn.form = "torn"
      BY DEF Torn
    <3>. QED
      BY <2>1, <3>1 DEF Snapshots1, Held, Readable
  <2>7. ~Saves(t)
    BY <1>1 DEF Saves, Edits
  <2>. HIDE DEF f
  <2>. DEFINE x == [h[t] EXCEPT !.at = "write", !.file = f, !.rec = rec]
  <2>8. x.at = "write" /\ x.file = f /\ x.rec = rec /\ x.ids = h[t].ids /\ x.r = h[t].r
    BY <1>1 DEF Fields
  <2>9. Becomes(t, x)
    BY <2>1
  <2>. HIDE DEF x
  <2>. QED
    BY <1>1, <2>1, <2>2, <2>5, <2>6, <2>7, <2>8, <2>9, TakesUp
<1>. QED
  BY <1>2, <1>3

\* A deletion keeps what is said of the snapshots.
LEMMA DeleteOneKeeps ==
  ASSUME NEW s \in Scenes, Base(s), Snapshots1, NEW t \in Threads, DeleteOne(t)
  PROVE  Snapshots1'
<1>. DEFINE f == Head(h[t].ids)
<1>1. /\ DOMAIN h = Threads /\ DOMAIN h[t] = Fields /\ h[t].at = "next" /\ h[t].ids # <<>>
      /\ h[t].ids \in Seq(SnapshotName)
  BY DEF Base, Work, DeleteOne, Snapshots1, NamesOk, Deleting
<1>2. CASE \E status : Next1(t, status)
  BY <1>1, <1>2, EachLeavesSnapshots
<1>3. CASE ~ \E status : Next1(t, status)
  <2>1. files' = files /\ origin' = origin /\ Becomes(t, [h[t] EXCEPT !.at = "unlink"])
    BY <1>3 DEF DeleteOne, disk, history
  <2>. DEFINE x == [h[t] EXCEPT !.at = "unlink"]
  <2>2. x.at \in Deleting /\ x.file = h[t].file /\ x.ids = h[t].ids
    BY <1>1 DEF Fields, Deleting
  <2>3. Becomes(t, x)
    BY <2>1
  <2>. HIDE DEF x
  <2>. QED
    BY <1>1, <2>1, <2>2, <2>3, SameFiles, GoesNext
<1>. QED
  BY <1>2, <1>3

\* So does the removal of the file.
LEMMA UnlinkKeeps ==
  ASSUME NEW s \in Scenes, Base(s), Snapshots1, NEW t \in Threads, Unlink(t)
  PROVE  Snapshots1'
<1>. DEFINE f == Head(h[t].ids)
            x == [h[t] EXCEPT !.at = "look"]
<1>1. /\ DOMAIN h = Threads /\ DOMAIN h[t] = Fields /\ h[t].ids \in Seq(SnapshotName)
      /\ files' = Drop(files, f) /\ origin' = origin /\ Becomes(t, x)
  BY DEF Base, Work, Unlink, Snapshots1, NamesOk, Deleting
<1>2. x.at = "look" /\ x.file = h[t].file /\ x.ids = h[t].ids
  BY <1>1 DEF Fields
<1>3. h'[t] = x /\ \A u \in Threads \ {t} : Alike(u)
  BY <1>1 DEF Becomes, Alike
<1>. HIDE DEF x
<1>4. FilesOk' /\ \A g \in DOMAIN files' : g \in DOMAIN files /\ files'[g] = files[g]
  BY <1>1, FilesDropped DEF Snapshots1
<1>5. NamesOk(h'[t]) /\ ~Holds(t)'
  BY <1>1, <1>2, <1>3 DEF NamesOk, Holds
<1>6. \A u \in Threads \ {t} : Holds(u) /\ Saves(u) => h'[t].file # h[u].file
  BY <1>2, <1>3 DEF Snapshots1, Held
<1>. QED
  BY <1>1, <1>3, <1>4, <1>5, <1>6, HeldKept

\* So does opening a file: what is torn is not readable.
LEMMA TruncateKeeps ==
  ASSUME NEW s \in Scenes, Base(s), Snapshots1, NEW t \in Threads, Truncate(t)
  PROVE  Snapshots1'
<1>. DEFINE x == [h[t] EXCEPT !.at = "fill"]
<1>1. /\ DOMAIN h = Threads /\ DOMAIN h[t] = Fields /\ h[t].at = "write" /\ Work(h[t])
      /\ files' = Set(files, h[t].file, Torn) /\ origin' = origin /\ Becomes(t, x)
  BY DEF Base, Work, Truncate
<1>2. x.at = "fill" /\ x.file = h[t].file /\ x.ids = h[t].ids /\ x.r = h[t].r /\ x.rec = h[t].rec
  BY <1>1 DEF Fields
<1>. HIDE DEF x
<1>3. h'[t] = x /\ \A u \in Threads \ {t} : Alike(u) /\ h'[u] = h[u]
  BY <1>1 DEF Becomes, Alike
<1>4. CASE h[t].file = Workflow /\ h[t].r.kind \in {"workflow", "action"}
  <2>1. SnapshotsStay
    BY <1>1, <1>4, OtherFiles, FilesApart
  <2>2. h[t].r.kind \notin Edits
    BY <1>4 DEF Edits
  <2>. QED
    BY <1>1, <1>2, <1>4, <2>1, <2>2, TakesWorkflow
<1>5. CASE h[t].file \in SnapshotName
  <2>1. ~Readable(Torn)
    BY DEF Readable, Torn
  <2>2. FilesOk' /\ \A g \in DOMAIN files' : g # h[t].file => g \in DOMAIN files /\ files'[g] = files[g]
    BY <1>1, <1>5, <2>1, FilesSet DEF Snapshots1, FilesOk
  <2>3. files'[h[t].file] = Torn
    BY <1>1 DEF Set
  <2>4. NamesOk(h'[t])
    BY <1>1, <1>2, <1>3 DEF Snapshots1, NamesOk, Deleting
  <2>5. Held(t)'
    <3>1. Held(t) /\ (Saves(t)' <=> Saves(t))
      BY <1>1, <1>2, <1>3, <1>5 DEF Snapshots1, Holds, Saves
    <3>2. CASE Saves(t)
      BY <1>2, <1>3, <2>3, <3>1, <3>2 DEF Held
    <3>3. CASE ~Saves(t)
      BY <1>1, <1>2, <1>3, <3>1, <3>3 DEF Held
    <3>. QED
      BY <3>2, <3>3
  <2>6. \A u \in Threads \ {t} : Holds(u) /\ Saves(u) => h[t].file # h[u].file
    BY DEF Snapshots1, Held
  <2>7. \A u \in Threads \ {t} : Holds(u) /\ Saves(u) =>
          h'[t].file # h[u].file /\ (h[u].file \in DOMAIN files' => h[u].file \in DOMAIN files /\ files'[h[u].file] = files[h[u].file])
    BY <1>2, <1>3, <2>2, <2>6
  <2>. QED
    BY <1>1, <1>3, <2>2, <2>4, <2>5, <2>7, HeldKept
<1>. QED
  BY <1>1, <1>4, <1>5 DEF Work

\* So does filling it, also if it was deleted or written meanwhile.
LEMMA FillKeeps ==
  ASSUME NEW s \in Scenes, Base(s), Snapshots1, NEW t \in Threads, FillSnapshot(t)
  PROVE  Snapshots1'
<1>. DEFINE f == h[t].file
            rec == h[t].rec
<1>1. /\ DOMAIN h = Threads /\ DOMAIN h[t] = Fields /\ h[t].at = "fill" /\ f \in SnapshotName /\ h[t].ids \in IF Saves(t) THEN {h[t].ids} ELSE Seq(SnapshotName)
      /\ h[t].r.kind \in Edits => h[t].ids # <<>>
      /\ Saves(t) \/ h[t].r.kind \in Edits
  BY FilesApart DEF Base, Work, FillSnapshot, Saves, Snapshots1, NamesOk, Deleting
<1>2. Held(t) /\ IsRecord(rec) /\ Readable(rec)
  BY <1>1 DEF Snapshots1, Holds, Held
<1>3. \A u \in Threads \ {t} : Holds(u) /\ Saves(u) => h[u].file # f
  BY DEF Snapshots1, Held
<1>4. files' = files \/ \E x \in {rec, Torn} : files' = Set(files, f, x)
  BY DEF FillSnapshot, Filled
<1>5. f \notin DOMAIN files => files' = files
  BY DEF FillSnapshot, Filled
<1>6. ASSUME FilesOk /\ DOMAIN origin' \subseteq SnapshotName,
             \A g \in DOMAIN origin' : g # f => g \in DOMAIN origin /\ origin'[g] = origin[g],
             f \in DOMAIN origin' /\ origin'[f].markdown # Nothing => Marked(rec, origin'[f]),
             f \in DOMAIN files => \E x \in {rec, Torn} : files' = Set(files, f, x)
      PROVE  FilesOk' /\ \A g \in DOMAIN files' : g # f => g \in DOMAIN files /\ files'[g] = files[g]
  <2>1. CASE f \in DOMAIN files
    <3>1. PICK x \in {rec, Torn} : files' = Set(files, f, x)
      BY <1>6, <2>1
    <3>2. ~Readable(Torn)
      BY DEF Readable, Torn
    <3>. HIDE DEF f, rec
    <3>3. Readable(x) => IsRecord(x) /\ (f \in DOMAIN origin' /\ origin'[f].markdown # Nothing => Marked(x, origin'[f]))
      BY <1>2, <1>6, <3>2
    <3>. QED
      BY <1>1, <1>6, <3>1, <3>3, FilesSet
  <2>2. CASE f \notin DOMAIN files
    <3>1. files' = files
      BY <1>5, <2>2
    <3>2. \A g \in SnapshotFiles(files) : g \in DOMAIN files /\ g # f
      BY <2>2 DEF SnapshotFiles
    <3>. QED
      BY <1>6, <3>1, <3>2 DEF FilesOk
  <2>. QED
    BY <2>1, <2>2
<1>7. CASE Saves(t)
  <2>. DEFINE x == [h[t] EXCEPT !.at = "markdown"]
  <2>1. Becomes(t, x) /\ origin' = Set(origin, f, Content(rec))
    BY <1>7 DEF FillSnapshot, Saves
  <2>2. x.at = "markdown" /\ x.file = f
    BY <1>1 DEF Fields
  <2>3. h'[t] = x /\ \A u \in Threads \ {t} : Alike(u)
    BY <1>1, <2>1 DEF Becomes, Alike
  <2>. HIDE DEF x
  <2>4. /\ DOMAIN origin' = DOMAIN origin \cup {f} /\ origin'[f] = Content(rec)
        /\ \A g \in DOMAIN origin : g # f => origin'[g] = origin[g]
    BY <2>1 DEF Set
  <2>5. /\ rec.schema = Version /\ rec.cmp # Nothing /\ rec.integrity = {Content(rec)}
        /\ (f \in DOMAIN files => files[f] = Torn) /\ \A u \in Threads \ {t} : h[u].file # f
    BY <1>2, <1>7 DEF Held
  <2>6. f \in DOMAIN origin' /\ origin'[f].markdown # Nothing => Marked(rec, origin'[f])
    BY <2>4, <2>5 DEF Marked, Content
  <2>7. f \in DOMAIN files => \E y \in {rec, Torn} : files' = Set(files, f, y)
    BY DEF FillSnapshot, Filled
  <2>8. FilesOk' /\ \A g \in DOMAIN files' : g # f => g \in DOMAIN files /\ files'[g] = files[g]
    <3>1. FilesOk /\ DOMAIN origin \subseteq SnapshotName
      BY DEF Snapshots1, FilesOk
    <3>2. DOMAIN origin' \subseteq SnapshotName /\ \A g \in DOMAIN origin' : g # f => g \in DOMAIN origin /\ origin'[g] = origin[g]
      BY <1>1, <2>4, <3>1
    <3>. QED
      BY <1>6, <2>6, <2>7, <3>1, <3>2
  <2>. HIDE DEF f, rec
  <2>9. NamesOk(h'[t]) /\ ~Holds(t)'
    BY <1>1, <2>2, <2>3 DEF NamesOk, Holds, Deleting
  <2>10. \A u \in Threads \ {t} : Holds(u) /\ Saves(u) =>
           h'[t].file # h[u].file /\ (h[u].file \in DOMAIN files' => h[u].file \in DOMAIN files /\ files'[h[u].file] = files[h[u].file])
    BY <1>3, <2>2, <2>3, <2>8
  <2>11. \A u \in Threads \ {t} : Holds(u) /\ ~Saves(u) =>
           (h[u].file \in DOMAIN origin' => h[u].file \in DOMAIN origin /\ origin'[h[u].file] = origin[h[u].file])
    BY <2>4, <2>5
  <2>. QED
    BY <2>3, <2>8, <2>9, <2>10, <2>11, HeldKept
<1>8. CASE ~Saves(t)
  <2>. DEFINE x == [h[t] EXCEPT !.at = "next", !.ids = Tail(@), !.hits = @ + 1, !.file = NoFile, !.rec = Torn]
  <2>1. Becomes(t, x) /\ origin' = origin
    BY <1>8 DEF FillSnapshot, Saves
  <2>2. x.at = "next" /\ x.file = NoFile /\ x.ids = Tail(h[t].ids)
    BY <1>1 DEF Fields
  <2>3. h'[t] = x /\ \A u \in Threads \ {t} : Alike(u)
    BY <1>1, <2>1 DEF Becomes, Alike
  <2>. HIDE DEF x
  <2>4. f \in DOMAIN origin /\ origin[f].markdown # Nothing => Marked(rec, origin[f])
    BY <1>2, <1>8 DEF Held
  <2>5. f \in DOMAIN files => \E y \in {rec, Torn} : files' = Set(files, f, y)
    BY DEF FillSnapshot, Filled
  <2>6. FilesOk' /\ \A g \in DOMAIN files' : g # f => g \in DOMAIN files /\ files'[g] = files[g]
    BY <1>6, <2>1, <2>4, <2>5 DEF Snapshots1, FilesOk
  <2>7. Tail(h[t].ids) \in Seq(SnapshotName)
    BY <1>1, <1>8, TailOfNames
  <2>8. NamesOk(h'[t]) /\ ~Holds(t)'
    BY <2>2, <2>3, <2>7 DEF NamesOk, Holds
  <2>9. \A u \in Threads \ {t} : Holds(u) /\ Saves(u) =>
          h'[t].file # h[u].file /\ (h[u].file \in DOMAIN files' => h[u].file \in DOMAIN files /\ files'[h[u].file] = files[h[u].file])
    <3>1. \A u \in Threads : Holds(u) => h[u].file # NoFile
      BY FilesApart DEF Holds
    <3>. QED
      BY <1>3, <2>2, <2>3, <2>6, <3>1
  <2>. QED
    BY <2>1, <2>3, <2>6, <2>8, <2>9, HeldKept
<1>. QED
  BY <1>7, <1>8

\* So does the markdown beside it.
LEMMA MarkdownKeeps ==
  ASSUME NEW s \in Scenes, Base(s), Snapshots1, NEW t \in Threads, WriteMarkdown(t)
  PROVE  Snapshots1'
<1>1. /\ DOMAIN h = Threads /\ DOMAIN h[t] = Fields /\ h[t].file \in SnapshotName /\ origin' = origin
      /\ Becomes(t, [h[t] EXCEPT !.at = "audit"])
  BY DEF Base, Work, WriteMarkdown, Snapshots1, NamesOk, history
<1>2. Markdown(h[t].file).dir # Dir
  BY <1>1 DEF Markdown, SnapshotName, Dir
<1>3. SnapshotsStay
  BY <1>2, OtherFiles DEF WriteMarkdown
<1>4. "audit" \in Away
  BY DEF Away
<1>. QED
  BY <1>1, <1>3, <1>4, AnswersAway

\* So does a full disk.
LEMMA SnapshotFailsKeeps ==
  ASSUME NEW s \in Scenes, Base(s), Snapshots1, NEW t \in Threads, SnapshotWriteFails(t)
  PROVE  Snapshots1'
<1>1. /\ DOMAIN h = Threads /\ DOMAIN h[t] = Fields /\ Work(h[t]) /\ h[t].at = "fill" /\ h[t].file.dir = Dir
      /\ origin' = origin /\ files' = files
  BY DEF Base, Work, SnapshotWriteFails, disk
<1>2. SnapshotsStay /\ h[t].r.kind \in {"save", "import"} \cup Edits
  BY <1>1, SameFiles, FilesApart DEF Work
<1>3. CASE h[t].r.kind = "save"
  BY <1>1, <1>2, <1>3, EndsAway DEF SnapshotWriteFails
<1>4. CASE h[t].r.kind = "import"
  <2>1. Becomes(t, [h[t] EXCEPT !.at = "audit", !.status = 500])
    BY <1>4 DEF SnapshotWriteFails
  <2>2. "audit" \in Away
    BY DEF Away
  <2>. QED
    BY ZenonT(30), <1>1, <1>2, <2>1, <2>2, AnswersAway
<1>5. CASE h[t].r.kind \in Edits
  <2>1. Becomes(t, Skipped(h[t], 422))
    BY <1>5 DEF SnapshotWriteFails, Edits
  <2>2. h[t].ids \in Seq(SnapshotName) /\ h[t].ids # <<>>
    BY <1>1, <1>5 DEF Snapshots1, NamesOk, Work
  <2>. QED
    BY <1>1, <1>2, <2>1, <2>2, LoopGoesOn
<1>. QED
  BY <1>2, <1>3, <1>4, <1>5

\* Nothing that a mark says is altered with the content.
LEMMA AlterKeeps ==
  ASSUME Snapshots1, Alter
  PROVE  Snapshots1'
<1>1. PICK f \in SnapshotFiles(files) : Readable(files[f]) /\ files' = [files EXCEPT ![f].snap.text = "altered"]
  BY DEF Alter
<1>2. h' = h /\ origin' = origin
  BY DEF Alter, history
<1>. DEFINE y == [files[f].snap EXCEPT !.text = "altered"]
            x == [files[f] EXCEPT !.snap = y]
<1>3. files' = [files EXCEPT ![f] = x]
  BY <1>1
<1>. HIDE DEF y
<1>4. IsRecord(files[f]) /\ (f \in DOMAIN origin /\ origin[f].markdown # Nothing => Marked(files[f], origin[f]))
      /\ f \in SnapshotName
  BY <1>1 DEF Snapshots1, FilesOk
<1>5. DOMAIN x = DOMAIN files[f] /\ \A g \in DOMAIN files[f] \ {"snap"} : x[g] = files[f][g]
  OBVIOUS
<1>. HIDE DEF x
<1>6. IsRecord(x) /\ (f \in DOMAIN origin /\ origin[f].markdown # Nothing => Marked(x, origin[f]))
  <2>1. x.schema = files[f].schema /\ x.cmp = files[f].cmp /\ x.markdown = files[f].markdown
        /\ x.integrity = files[f].integrity /\ x.persisted = files[f].persisted
    BY <1>4, <1>5 DEF IsRecord
  <2>. QED
    BY <1>4, <1>5, <2>1 DEF IsRecord, Marked
<1>7. f \in DOMAIN files
  BY DEF SnapshotFiles
<1>8. files' = Set(files, f, x)
  BY <1>3, <1>7 DEF Set
<1>9. FilesOk' /\ \A g \in DOMAIN files' : g # f => g \in DOMAIN files /\ files'[g] = files[g]
  <2>1. FilesOk /\ DOMAIN origin' \subseteq SnapshotName
    BY <1>2 DEF Snapshots1, FilesOk
  <2>. QED
    BY <1>2, <1>4, <1>6, <1>8, <2>1, FilesSet
<1>10. \A u \in Threads : NamesOk(h[u]) /\ (Holds(u) => Held(u))
  BY DEF Snapshots1
<1>11. \A u \in Threads : Holds(u) /\ Saves(u) => h[u].file # f
  <2>1. Torn.form = "torn"
    BY DEF Torn
  <2>. QED
    BY <1>1, <1>7, <1>10, <2>1 DEF Held, Readable
<1>12. ASSUME NEW u \in Threads, Holds(u)'
       PROVE  Held(u)'
  <2>1. Holds(u) /\ Held(u) /\ (Saves(u)' <=> Saves(u))
    BY <1>2, <1>10, <1>12 DEF Holds, Saves
  <2>2. CASE Saves(u)
    <3>1. h'[u].file \in DOMAIN files' => h'[u].at = "fill" /\ files'[h'[u].file] = Torn
      BY <1>2, <1>9, <1>11, <2>1, <2>2 DEF Held
    <3>. QED
      BY <1>2, <2>1, <2>2, <3>1 DEF Held
  <2>3. CASE ~Saves(u)
    BY <1>2, <2>1, <2>3 DEF Held
  <2>. QED
    BY <2>2, <2>3
<1>. QED
  BY <1>2, <1>9, <1>10, <1>12 DEF Snapshots1

\* A step in which only threads change, and none that holds a snapshot.
LEMMA ThreadsApart ==
  ASSUME Snapshots1, files' = files, origin' = origin,
         \A u \in Threads : (h'[u].file = NoFile /\ h'[u].at \in Away) \/ Alike(u)
  PROVE  Snapshots1'
<1>1. FilesOk'
  BY SameFiles, FilesStay DEF Snapshots1
<1>2. \A u \in Threads : NamesOk(h'[u])
  BY DEF Snapshots1, NamesOk, Alike, Away, Deleting
<1>3. ASSUME NEW u \in Threads, Holds(u)'
      PROVE  Held(u)'
  <2>1. Alike(u)
    BY <1>3 DEF Holds, Away
  <2>2. Holds(u) /\ Held(u) /\ (Saves(u)' <=> Saves(u)) /\ h'[u].file = h[u].file /\ h[u].file # NoFile
        /\ h'[u].rec = h[u].rec /\ h'[u].at = h[u].at
    BY <1>3, <2>1, FilesApart DEF Alike, Holds, Saves, Snapshots1
  <2>3. \A v \in Threads : h'[v].file \in {h[v].file, NoFile}
    BY DEF Alike
  <2>4. CASE Saves(u)
    <3>1. \A v \in Threads \ {u} : h'[v].file # h'[u].file
      BY <2>2, <2>3, <2>4 DEF Held
    <3>. QED
      BY <2>2, <2>4, <3>1 DEF Held
  <2>5. CASE ~Saves(u)
    BY <2>2, <2>5 DEF Held
  <2>. QED
    BY <2>4, <2>5
<1>. QED
  BY <1>1, <1>2, <1>3 DEF Snapshots1

\* So does every step.
LEMMA SnapshotsKept ==
  ASSUME NEW s \in Scenes, Base(s), Snapshots1, [ServerNext]_serverVars
  PROVE  Snapshots1'
<1>1. ASSUME NEW t \in Threads, Serve(t)
      PROVE  Snapshots1'
  <2>1. CASE SnapshotStep(t)
    BY <2>1, SaveKeeps, ImportKeeps, FillKeeps, MarkdownKeeps, SnapshotFailsKeeps, EachLeavesSnapshots, EditOneKeeps,
       DeleteOneKeeps, UnlinkKeeps DEF SnapshotStep
  <2>. QED
    BY <1>1, <2>1, TruncateKeeps, TrustLeavesSnapshots, RunsLeaveSnapshots DEF Serve
<1>2. ASSUME NEW t \in Threads, NEW r \in todo, Taken(t, r)
      PROVE  Snapshots1'
  <2>1. files' = files /\ origin' = origin
    BY <1>2 DEF Taken, disk
  <2>2. h'[t].file = NoFile /\ h'[t].at \in Away
    <3>1. h'[t].at \in {"audit", "begin"} /\ \A f \in Fields \ {"at", "status", "r", "role", "alone"} : h'[t][f] = Idle[f]
      BY ZenonT(30), <1>2, TakenShape
    <3>2. h'[t].file = Idle.file
      BY <3>1 DEF Fields
    <3>. QED
      BY <3>1, <3>2 DEF Idle, Away
  <2>3. \A u \in Threads \ {t} : Alike(u)
    <3>1. \A u \in Threads \ {t} : \A f \in Fields \ {"alone"} : h'[u][f] = h[u][f]
      BY ZenonT(30), <1>2, TakenShape
    <3>. QED
      BY <3>1 DEF Alike, Fields
  <2>. QED
    BY <2>1, <2>2, <2>3, ThreadsApart
<1>3. ASSUME NEW t \in Threads, NEW r \in todo, NEW status, TurnedAway(t, r, status)
      PROVE  Snapshots1'
  <2>1. h' = h /\ files' = files /\ origin' = origin
    BY <1>3 DEF TurnedAway, disk, history
  <2>. QED
    BY <2>1, ThreadsApart DEF Alike
<1>4. CASE Die
  <2>1. h' = [t \in Threads |-> Idle] /\ files' = files /\ origin' = origin
    BY <1>4 DEF Die, disk
  <2>2. \A t \in Threads : h'[t].file = NoFile /\ h'[t].at \in Away
    BY <2>1 DEF Idle, Away
  <2>. QED
    BY <2>1, <2>2, ThreadsApart
<1>5. CASE Aside
  <2>1. h' = h /\ origin' = origin /\ (Alter \/ files' = files)
    BY <1>5, AsideLeaves
  <2>. QED
    BY <2>1, AlterKeeps, ThreadsApart DEF Alike
<1>6. CASE UNCHANGED serverVars
  BY <1>6, ThreadsApart DEF Alike, serverVars, disk, history
<1>. QED
  BY <1>1, <1>2, <1>3, <1>4, <1>5, <1>6 DEF ServerNext, Arrive, Malformed, Forbidden, Aside

------------------------------------------------------------------------------
(* The whole server. *)

\* What a thread does keeps the requests and their answers in order.
LEMMA ServeKeeps ==
  ASSUME NEW s \in Scenes, Base(s), Answers1, Snapshots1, NEW t \in Threads, Serve(t)
  PROVE  Base(s)' /\ Answers1'
<1>1. Steps(t)
  BY ServeIsReady, ServeSteps
<1>. QED
  BY <1>1, BaseContinues, BaseFinishes, AnswersContinue, AnswersFinish DEF Steps

\* So does every step.
LEMMA AnswersKept ==
  ASSUME NEW s \in Scenes, Base(s), Answers1, Snapshots1, [ServerNext]_serverVars
  PROVE  Base(s)' /\ Answers1'
<1>1. ASSUME NEW t \in Threads, NEW r \in todo, NEW status, TurnedAway(t, r, status)
      PROVE  Base(s)' /\ Answers1'
  BY <1>1, TurnedAwayKeeps
<1>2. ASSUME NEW t \in Threads, NEW r \in todo, Taken(t, r)
      PROVE  Base(s)' /\ Answers1'
  BY <1>2, TakenKeeps
<1>3. ASSUME NEW t \in Threads, Arrive(t)
      PROVE  Base(s)' /\ Answers1'
  BY <1>1, <1>2, <1>3 DEF Arrive, Malformed, Forbidden
<1>4. ASSUME NEW t \in Threads, Serve(t)
      PROVE  Base(s)' /\ Answers1'
  BY <1>4, ServeKeeps
<1>5. CASE Aside
  BY <1>5, AsideKeeps
<1>6. CASE UNCHANGED serverVars
  BY <1>6 DEF serverVars, disk, counters, history, Base, Logs, Busy, Answers1, AnswersAreTrue
<1>. QED
  BY <1>3, <1>4, <1>5, <1>6, DieKeeps DEF ServerNext, Aside

\* The server starts with nobody at work.
LEMMA ServerStarts ==
  ASSUME NEW s \in Scenes, RequestsInit(s), origin = s.origin
  PROVE  Base(s) /\ Answers1 /\ Snapshots1 /\ Delivery1(s) /\ Retention1
<1>1. /\ DOMAIN h = Threads /\ \A t \in Threads : h[t] = Idle /\ ~Busy(t)
      /\ todo = s.requests /\ touched = {} /\ now = s.now /\ files = s.files
      /\ outcome = [i \in {r.id : r \in s.requests} |-> Open]
      /\ lines = [n \in {"audit", "actions", "approvals", "rows", "deliveries"} |-> <<>>]
  BY IdleWorks DEF RequestsInit, Busy
<1>2. Logs
  BY <1>1, EmptyList DEF Logs
<1>3. Base(s)
  BY <1>1, <1>2, IdleWorks, SceneAssumption DEF Base
<1>4. Answers1
  BY <1>1 DEF Answers1, AnswersAreTrue
<1>5. FilesOk
  <2>1. /\ IsFiniteSet(SnapshotFiles(s.files)) /\ SnapshotFiles(s.files) \cup DOMAIN s.origin \subseteq SnapshotName
        /\ \A f \in SnapshotFiles(s.files) :
             Readable(s.files[f]) =>
               /\ IsRecord(s.files[f])
               /\ f \in DOMAIN s.origin /\ s.origin[f].markdown # Nothing => Marked(s.files[f], s.origin[f])
    BY SnapshotAssumption
  <2>. QED
    BY <1>1, <2>1 DEF FilesOk
<1>6. \A t \in Threads : NamesOk(h[t]) /\ ~Holds(t)
  BY <1>1, IdleWorks DEF NamesOk, Holds, Deleting
<1>7. Delivery1(s)
  <2>1. sent = {} /\ DOMAIN lines.rows = {} /\ DOMAIN lines.deliveries = {}
    BY <1>1, EmptyList, ListFacts DEF RequestsInit
  <2>2. \A t \in Threads : ~Delivering(t)
    BY <1>1, IdleWorks DEF Delivering
  <2>. QED
    BY <2>1, <2>2 DEF Delivery1, Attempts
<1>8. Retention1
  BY <1>1, IdleWorks DEF Retention1, Retains, Deleting
<1>. QED
  BY <1>3, <1>4, <1>5, <1>6, <1>7, <1>8 DEF Snapshots1

\* A mark that a record has kept is good exactly if its content is what was saved.
LEMMA MarksAreTrue ==
  ASSUME Snapshots1
  PROVE  IntegrityTrue
<1>. SUFFICES ASSUME NEW f \in DOMAIN origin \cap DOMAIN files, Readable(files[f]), origin[f].markdown # Nothing
              PROVE  IntegrityOk(Normalized(files[f])) <=> Content(files[f]) = origin[f]
  BY DEF IntegrityTrue
<1>1. f \in SnapshotFiles(files)
  BY SnapshotOnDisk DEF Snapshots1, FilesOk
<1>2. IsRecord(files[f]) /\ Marked(files[f], origin[f])
  BY <1>1 DEF Snapshots1, FilesOk
<1>3. Marked(Normalized(files[f]), origin[f]) /\ Content(Normalized(files[f])) = Content(files[f])
  BY <1>2, NormalizedFacts
<1>. QED
  BY <1>3 DEF Marked, IntegrityOk

------------------------------------------------------------------------------
(* Counting rows. *)

\* How many of some numbers come up to one of them.
LEMMA UpToCounts ==
  ASSUME NEW n \in Nat, NEW A \in SUBSET (1 .. n)
  PROVE  /\ IsFiniteSet(A) /\ Cardinality(A) \in Nat
         /\ \A i \in A : Cardinality(UpTo(A, i)) \in 1 .. Cardinality(A)
<1>1. IsFiniteSet(A) /\ Cardinality(A) \in Nat
  <2>1. IsFiniteSet(1 .. n)
    BY FS_Interval
  <2>2. IsFiniteSet(A)
    BY <2>1, FS_Subset
  <2>. QED
    BY <2>2, FS_CardinalityType
<1>2. ASSUME NEW i \in A
      PROVE  Cardinality(UpTo(A, i)) \in 1 .. Cardinality(A)
  <2>1. UpTo(A, i) \subseteq A /\ i \in UpTo(A, i)
    BY DEF UpTo
  <2>2. IsFiniteSet(UpTo(A, i)) /\ Cardinality(UpTo(A, i)) \in Nat /\ Cardinality(UpTo(A, i)) <= Cardinality(A)
    BY <1>1, <2>1, FS_Subset, FS_CardinalityType
  <2>3. Cardinality(UpTo(A, i)) # 0
    BY <2>1, <2>2, FS_EmptySet
  <2>. QED
    BY <1>1, <2>2, <2>3
<1>. QED
  BY <1>1, <1>2

\* All of them come up to the last one.
LEMMA LastCounts ==
  ASSUME NEW n \in Nat, NEW A \in SUBSET (1 .. n), A # {}
  PROVE  \E m \in A : UpTo(A, m) = A
<1>. DEFINE R == {p \in A \X A : p[1] < p[2]}
<1>1. IsFiniteSet(A) /\ Cardinality(A) \in Nat /\ Cardinality(A) # 0
  BY UpToCounts, FS_EmptySet
<1>2. StrictOrder(A, R)
  BY DEF StrictOrder
<1>3. PICK s : Sorts(s, A, R)
  BY <1>1, <1>2, SortedExists
<1>4. s \in [1 .. Cardinality(A) -> A] /\ \A i, j \in DOMAIN s : i < j => s[i] < s[j]
  BY <1>3 DEF Sorts
<1>5. \A f \in A : \E i \in 1 .. Len(s) : s[i] = f
  BY <1>1, <1>2, <1>3, SortedFacts
<1>6. Len(s) = Cardinality(A)
  BY <1>1, <1>2, <1>3, SortedFacts
<1>. DEFINE m == s[Cardinality(A)]
<1>7. m \in A /\ \A i \in 1 .. Cardinality(A) : s[i] <= m
  <2>1. Cardinality(A) \in DOMAIN s /\ DOMAIN s = 1 .. Cardinality(A)
    BY <1>1, <1>4
  <2>2. \A i \in 1 .. Cardinality(A) : i < Cardinality(A) \/ i = Cardinality(A)
    BY <1>1
  <2>3. \A i \in 1 .. Cardinality(A) : s[i] \in Nat
    <3>1. A \subseteq Nat /\ \A i \in 1 .. Cardinality(A) : s[i] \in A
      BY <1>4
    <3>. QED
      BY <3>1
  <2>. QED
    BY <1>4, <2>1, <2>2, <2>3
<1>. HIDE DEF m
<1>8. UpTo(A, m) = A
  BY <1>5, <1>6, <1>7 DEF UpTo
<1>. QED
  BY <1>7, <1>8

\* The number of the next attempt, if attempts have been counted so far.
LEMMA NextAttempt ==
  ASSUME NEW rows, IsList(rows), Attempts(rows), NEW target, NEW key
  PROVE  AttemptNumber(rows, target, key) = Cardinality(Alikes(rows, target, key)) + 1
<1>. DEFINE A == Alikes(rows, target, key)
           S == {0} \cup {rows[i].attempt : i \in A}
<1>1. Len(rows) \in Nat /\ A \in SUBSET (1 .. Len(rows)) /\ DOMAIN rows = 1 .. Len(rows)
  BY ListFacts DEF Alikes
<1>2. \A i \in A : rows[i].target = target /\ rows[i].key = key /\ i \in DOMAIN rows
  BY DEF Alikes
<1>. HIDE DEF A
<1>3. IsFiniteSet(A) /\ Cardinality(A) \in Nat /\ \A i \in A : Cardinality(UpTo(A, i)) \in 1 .. Cardinality(A)
  BY <1>1, UpToCounts
<1>4. \A i \in A : rows[i].attempt = Cardinality(UpTo(A, i))
  BY <1>2 DEF A, Attempts
<1>5. \A x \in S : x \in Nat /\ x <= Cardinality(A)
  BY <1>3, <1>4
<1>6. Cardinality(A) \in S
  <2>1. CASE A = {}
    BY <2>1, FS_EmptySet
  <2>2. CASE A # {}
    <3>1. PICK m \in A : UpTo(A, m) = A
      BY <1>1, <2>2, LastCounts
    <3>. QED
      BY <1>4, <3>1
  <2>. QED
    BY <2>1, <2>2
<1>7. AttemptNumber(rows, target, key) = 1 + Max(S)
  BY DEF AttemptNumber, A, Alikes
<1>. HIDE DEF S
<1>8. Max(S) = Cardinality(A)
  BY <1>3, <1>5, <1>6 DEF Max
<1>. QED
  BY <1>3, <1>7, <1>8 DEF A

\* One more row is one more attempt.
LEMMA AttemptsAppended ==
  ASSUME NEW rows, IsList(rows), Attempts(rows), NEW row,
         row.attempt = AttemptNumber(rows, row.target, row.key)
  PROVE  Attempts(Append(rows, row))
<1>. DEFINE n == Len(rows)
           more == Append(rows, row)
<1>1. n \in Nat /\ DOMAIN rows = 1 .. n
  BY ListFacts
<1>2. Len(more) = n + 1 /\ DOMAIN more = 1 .. n + 1 /\ more[n + 1] = row /\ \A i \in 1 .. n : more[i] = rows[i]
  BY Appended, ListFacts
<1>. HIDE DEF n, more
<1>3. ASSUME NEW i \in 1 .. n
      PROVE  more[i].attempt = Cardinality(UpTo(Alikes(more, more[i].target, more[i].key), i))
  <2>1. UpTo(Alikes(more, rows[i].target, rows[i].key), i) = UpTo(Alikes(rows, rows[i].target, rows[i].key), i)
    BY <1>1, <1>2 DEF UpTo, Alikes
  <2>2. rows[i].attempt = Cardinality(UpTo(Alikes(rows, rows[i].target, rows[i].key), i))
    BY <1>1 DEF Attempts
  <2>. QED
    BY <1>2, <2>1, <2>2
<1>4. row.attempt = Cardinality(UpTo(Alikes(more, row.target, row.key), n + 1))
  <2>. DEFINE A == Alikes(rows, row.target, row.key)
  <2>1. UpTo(Alikes(more, row.target, row.key), n + 1) = A \cup {n + 1} /\ n + 1 \notin A /\ A \in SUBSET (1 .. n)
    BY <1>1, <1>2 DEF UpTo, Alikes
  <2>2. row.attempt = Cardinality(A) + 1
    BY NextAttempt
  <2>. HIDE DEF A
  <2>3. IsFiniteSet(A)
    BY <1>1, <2>1, UpToCounts
  <2>4. Cardinality(A \cup {n + 1}) = Cardinality(A) + 1
    BY <2>1, <2>3, FS_AddElement
  <2>. QED
    BY <2>1, <2>2, <2>4
<1>5. \A i \in DOMAIN more : i \in 1 .. n \/ i = n + 1
  BY <1>1, <1>2
<1>6. \A i \in DOMAIN more : more[i].attempt = Cardinality(UpTo(Alikes(more, more[i].target, more[i].key), i))
  BY <1>2, <1>3, <1>4, <1>5
<1>. QED
  BY <1>6 DEF Attempts, more

\* The outcomes of a delivery and its rows, when it has one row more.
LEMMA RepeatsMore ==
  ASSUME NEW rows, IsList(rows), NEW outcomes, IsList(outcomes), NEW row, Repeats(outcomes, rows, row.delivery)
  PROVE  Repeats(Append(outcomes, row.status), Append(rows, row), row.delivery)
<1>. DEFINE n == Len(rows)
           more == Append(rows, row)
           told == Append(outcomes, row.status)
           mine == {i \in DOMAIN rows : rows[i].delivery = row.delivery}
           ours == {i \in DOMAIN more : more[i].delivery = row.delivery}
<1>1. n \in Nat /\ DOMAIN rows = 1 .. n
  BY ListFacts
<1>2. Len(more) = n + 1 /\ DOMAIN more = 1 .. n + 1 /\ more[n + 1] = row /\ \A i \in 1 .. n : more[i] = rows[i]
  BY Appended, ListFacts
<1>3. Len(outcomes) = Cardinality(mine) /\ \A i \in mine : rows[i].status = outcomes[Cardinality(UpTo(mine, i))]
  BY DEF Repeats, UpTo
<1>. HIDE DEF n, more
<1>4. mine \in SUBSET (1 .. n) /\ ours = mine \cup {n + 1} /\ n + 1 \notin mine
  BY <1>1, <1>2
<1>. HIDE DEF mine, ours
<1>5. IsFiniteSet(mine) /\ Cardinality(mine) \in Nat /\ \A i \in mine : Cardinality(UpTo(mine, i)) \in 1 .. Cardinality(mine)
  BY <1>1, <1>4, UpToCounts
<1>6. Cardinality(ours) = Cardinality(mine) + 1
  BY <1>4, <1>5, FS_AddElement
<1>7. Len(told) = Cardinality(ours) /\ told[Cardinality(ours)] = row.status
      /\ \A k \in 1 .. Cardinality(mine) : told[k] = outcomes[k]
  BY <1>3, <1>6, Appended
<1>. HIDE DEF told
<1>8. ASSUME NEW i \in mine
      PROVE  more[i].status = told[Cardinality(UpTo(ours, i))]
  <2>1. UpTo(ours, i) = UpTo(mine, i) /\ more[i] = rows[i]
    BY <1>1, <1>2, <1>4 DEF UpTo
  <2>. QED
    BY <1>3, <1>5, <1>7, <2>1
<1>9. more[n + 1].status = told[Cardinality(UpTo(ours, n + 1))]
  <2>1. \A i \in ours : i <= n + 1
    BY <1>1, <1>4
  <2>2. UpTo(ours, n + 1) = ours
    BY <2>1 DEF UpTo
  <2>. QED
    BY <1>2, <1>7, <2>2
<1>10. \A i \in ours : more[i].status = told[Cardinality(UpTo(ours, i))]
  BY <1>4, <1>8, <1>9
<1>. QED
  BY <1>7, <1>10 DEF Repeats, UpTo, ours, more, told

\* A row of another delivery changes nothing in that.
LEMMA RepeatsStill ==
  ASSUME NEW rows, IsList(rows), NEW outcomes, NEW row, NEW id, id # row.delivery, Repeats(outcomes, rows, id)
  PROVE  Repeats(outcomes, Append(rows, row), id)
<1>. DEFINE n == Len(rows)
           more == Append(rows, row)
<1>1. n \in Nat /\ DOMAIN rows = 1 .. n
  BY ListFacts
<1>2. Len(more) = n + 1 /\ DOMAIN more = 1 .. n + 1 /\ more[n + 1] = row /\ \A i \in 1 .. n : more[i] = rows[i]
  BY Appended, ListFacts
<1>. HIDE DEF n, more
<1>3. {i \in DOMAIN more : more[i].delivery = id} = {i \in DOMAIN rows : rows[i].delivery = id}
  BY <1>1, <1>2
<1>. DEFINE mine == {i \in DOMAIN rows : rows[i].delivery = id}
<1>4. \A i \in mine : more[i] = rows[i]
  BY <1>1, <1>2
<1>5. Len(outcomes) = Cardinality(mine) /\ \A i \in mine : rows[i].status = outcomes[Cardinality(UpTo(mine, i))]
  BY DEF Repeats, UpTo
<1>6. \A i \in mine : more[i].status = outcomes[Cardinality(UpTo(mine, i))]
  BY <1>4, <1>5
<1>. QED
  BY <1>3, <1>5, <1>6 DEF Repeats, UpTo, more

\* A delivery without rows has no outcomes.
LEMMA RepeatsNone ==
  ASSUME NEW rows, NEW id, \A i \in DOMAIN rows : rows[i].delivery # id
  PROVE  Repeats(<<>>, rows, id)
<1>1. {i \in DOMAIN rows : rows[i].delivery = id} = {}
  OBVIOUS
<1>2. Len(<<>>) = 0 /\ Cardinality({}) = 0
  BY EmptyList, FS_EmptySet
<1>. QED
  BY <1>1, <1>2 DEF Repeats

------------------------------------------------------------------------------
(* Deliveries and their rows. *)

\* What holds of a delivery goes on holding while others work.
LEMMA DeliveryStaysOk ==
  ASSUME NEW w, NEW x, NEW rows, NEW T, NEW S, NEW M, DeliveryOk(w, rows, T, S, M),
         x.at = w.at, x.r = w.r, x.ids = w.ids, x.seen = w.seen, x.outcomes = w.outcomes, x.rec = w.rec,
         NEW T2, T \subseteq T2, NEW S2, S \subseteq S2, NEW M2, M \subseteq M2
  PROVE  DeliveryOk(x, rows, T2, S2, M2)
BY DEF DeliveryOk

\* A target stays accounted for until the server dies.
LEMMA StillAccounted ==
  ASSUME NEW x, Accounted(x, lines.rows), lines'.rows = lines.rows, outcome[x[1]] = Lost => outcome'[x[1]] = Lost,
         \A t \in Threads : AtHand(h[t], x) => AtHand(h'[t], x) \/ outcome'[x[1]] = Lost
  PROVE  Accounted(x, lines.rows)'
BY DEF Accounted

\* A step that appends no row and closes no delivery.
LEMMA DeliveryCarried ==
  ASSUME NEW s \in Scenes, Delivery1(s), lines'.rows = lines.rows, lines'.deliveries = lines.deliveries,
         touched \subseteq touched', sent \subseteq sent', mixed \subseteq mixed',
         \A t \in Threads : Delivering(t)' => DeliveryOk(h'[t], lines.rows, touched', sent', mixed'),
         \A x \in sent' : Received(s, x, touched') /\ Accounted(x, lines.rows)',
         \A t \in Threads : \A id \in touched :
           Busy(t)' /\ h'[t].r.id = id => Busy(t) /\ h[t].r.id = id /\ (h[t].at = "audit" => h'[t].at = "audit")
  PROVE  Delivery1(s)'
<1>1. \A i \in DOMAIN lines'.rows : RowOk(s, lines'.rows, i, touched', sent')
  BY DEF Delivery1, RowOk
<1>2. "delivery" \notin mixed' => Attempts(lines'.rows)
  BY DEF Delivery1
<1>3. ASSUME NEW i \in DOMAIN lines'.deliveries
      PROVE  Logged(lines'.deliveries[i], lines'.rows, touched') /\ Done(lines.deliveries[i].delivery)'
  <2>1. Logged(lines.deliveries[i], lines.rows, touched) /\ Done(lines.deliveries[i].delivery)
    BY DEF Delivery1
  <2>2. lines'.deliveries[i] = lines.deliveries[i] /\ lines.deliveries[i].delivery \in touched
    BY <2>1 DEF Logged
  <2>3. Logged(lines'.deliveries[i], lines'.rows, touched')
    BY <2>1, <2>2 DEF Logged
  <2>. DEFINE id == lines.deliveries[i].delivery
  <2>4. \A t \in Threads : Busy(t)' /\ h'[t].r.id = id => h'[t].at = "audit"
    BY <2>1, <2>2 DEF Done
  <2>5. Done(lines.deliveries[i].delivery)'
    BY <2>2, <2>4 DEF Done
  <2>. QED
    BY <2>3, <2>5
<1>. QED
  BY <1>1, <1>2, <1>3 DEF Delivery1

\* What was received belongs to a request that has changed something.
LEMMA ReceivedIds ==
  ASSUME NEW s \in Scenes, Base(s), Delivery1(s), NEW x \in sent
  PROVE  x[1] \in touched /\ x[1] \in DOMAIN outcome
BY DEF Base, Delivery1, Received

\* A thread goes on, with a delivery or something else.
LEMMA DeliveryContinues ==
  ASSUME NEW s \in Scenes, Base(s), Delivery1(s), NEW t \in Threads, Continues(t), h[t].at # "audit",
         lines'.rows = lines.rows, lines'.deliveries = lines.deliveries, sent \subseteq sent',
         \A x \in sent' \ sent : Received(s, x, touched') /\ AtHand(h'[t], x),
         \A x \in sent : AtHand(h[t], x) => AtHand(h'[t], x),
         Delivering(t)' => DeliveryOk(h'[t], lines.rows, touched', sent', mixed')
  PROVE  Delivery1(s)'
<1>1. /\ h'[t].r = h[t].r /\ Busy(t) /\ \A u \in Threads \ {t} : h'[u] = h[u]
      /\ outcome' = outcome /\ touched \subseteq touched' /\ mixed \subseteq mixed'
  BY DEF Continues, Stays, Grows
<1>2. ASSUME NEW u \in Threads, Delivering(u)'
      PROVE  DeliveryOk(h'[u], lines.rows, touched', sent', mixed')
  <2>1. CASE u = t
    BY <1>2, <2>1
  <2>2. CASE u # t
    <3>1. h'[u] = h[u] /\ Delivering(u)
      BY <1>1, <1>2, <2>2 DEF Delivering
    <3>2. DeliveryOk(h[u], lines.rows, touched, sent, mixed)
      BY <3>1 DEF Delivery1
    <3>. QED
      BY <1>1, <3>1, <3>2, DeliveryStaysOk
  <2>. QED
    BY <2>1, <2>2
<1>3. ASSUME NEW x \in sent'
      PROVE  Received(s, x, touched') /\ Accounted(x, lines.rows)'
  <2>1. CASE x \in sent
    <3>1. Received(s, x, touched) /\ Accounted(x, lines.rows)
      BY <2>1 DEF Delivery1
    <3>2. \A u \in Threads : AtHand(h[u], x) => AtHand(h'[u], x)
      BY <1>1, <2>1
    <3>3. Accounted(x, lines.rows)'
      BY <1>1, <3>1, <3>2, StillAccounted
    <3>. QED
      BY <1>1, <3>1, <3>3 DEF Received
  <2>2. CASE x \notin sent
    BY <2>2 DEF Accounted
  <2>. QED
    BY <2>1, <2>2
<1>4. \A u \in Threads : Busy(u)' => /\ Busy(u) /\ h'[u].r = h[u].r
                                     /\ (h[u].at = "audit" => h'[u].at = "audit")
  BY <1>1 DEF Busy
<1>. QED
  BY <1>1, <1>2, <1>3, <1>4, DeliveryCarried

\* A thread that delivers nothing ends its request.
LEMMA DeliveryFinishes ==
  ASSUME NEW s \in Scenes, Base(s), Delivery1(s), NEW t \in Threads, Finishes(t), ~Delivering(t),
         lines'.rows = lines.rows, lines'.deliveries = lines.deliveries, sent' = sent
  PROVE  Delivery1(s)'
<1>1. /\ h'[t] = Idle /\ Busy(t) /\ \A u \in Threads \ {t} : h'[u] = h[u]
      /\ touched \subseteq touched' /\ mixed \subseteq mixed' /\ Idle.at = "idle"
  BY IdleWorks DEF Finishes, Stays, Grows
<1>2. PICK how : outcome' = [outcome EXCEPT ![h[t].r.id] = how]
  BY DEF Finishes
<1>3. \A u \in Threads : Busy(u)' => u # t /\ h'[u] = h[u] /\ Busy(u)
  BY <1>1 DEF Busy
<1>4. ASSUME NEW u \in Threads, Delivering(u)'
      PROVE  DeliveryOk(h'[u], lines.rows, touched', sent', mixed')
  <2>1. h'[u] = h[u] /\ Delivering(u)
    BY <1>1, <1>4 DEF Delivering
  <2>2. DeliveryOk(h[u], lines.rows, touched, sent, mixed)
    BY <2>1 DEF Delivery1
  <2>. QED
    BY <1>1, <2>1, <2>2, DeliveryStaysOk
<1>5. ASSUME NEW x \in sent
      PROVE  Received(s, x, touched') /\ Accounted(x, lines.rows)'
  <2>1. Received(s, x, touched) /\ Accounted(x, lines.rows) /\ x[1] \in DOMAIN outcome
    BY ReceivedIds DEF Delivery1
  <2>2. \A u \in Threads : AtHand(h[u], x) => AtHand(h'[u], x)
    BY <1>1 DEF AtHand, Delivering
  <2>3. outcome[x[1]] = Lost => outcome'[x[1]] = Lost
    <3>1. outcome[h[t].r.id] = Open /\ Open # Lost
      BY <1>1, IdsDiffer DEF Open, Lost
    <3>. QED
      BY <1>2, <2>1, <3>1
  <2>4. Accounted(x, lines.rows)'
    BY <2>1, <2>2, <2>3, StillAccounted
  <2>. QED
    BY <1>1, <2>1, <2>4 DEF Received
<1>. QED
  BY <1>1, <1>3, <1>4, <1>5, DeliveryCarried

\* The thread's request is about something else.
LEMMA DeliveryElsewhere ==
  ASSUME NEW s \in Scenes, Base(s), Delivery1(s), NEW t \in Threads, Serve(t), Steps(t), h[t].r.kind \notin {"send", "resend"}
  PROVE  Delivery1(s)'
<1>1. Work(h[t]) /\ ~Delivering(t) /\ DOMAIN h = Threads
  BY DEF Base, Work, Delivering
<1>2. lines'.rows = lines.rows /\ lines'.deliveries = lines.deliveries /\ sent' = sent
  <2>1. ~(AtTarget(t) \/ AppendRow(t) \/ CloseDelivery(t))
    BY <1>1 DEF AtTarget, AppendRow, CloseDelivery, Delivering
  <2>2. /\ sent' = sent
        /\ lines' = lines \/ \E row : Log("approvals", row) \/ Log("actions", row) \/ Log("audit", row)
    <3>1. CASE SnapshotStep(t) \/ Truncate(t)
      BY <3>1 DEF Truncate, SnapshotStep, SaveSnapshot, Import, FillSnapshot, WriteMarkdown, SnapshotWriteFails,
         BeginEach, EditOne, DeleteOne, Unlink, LookForMarkdown, DeleteMarkdown, DeleteFails, EndEach, Retention,
         NewSnapshot, Fails, Next1, disk
    <3>2. CASE TrustStep(t)
      BY <2>1, <3>2 DEF TrustStep, Approve, UpdateWorkflow, ActOnWorkflow, FillWorkflow, WorkflowWriteFails, LogAction,
         Send, Resend, DryRun, Rejected, Delivered, PostFails, FileFails, Answers, Aborts, WritesWorkflow, Delivers, Stay, disk
    <3>3. CASE RunStep(t)
      BY <3>3 DEF RunStep, Check, Trigger, LaunchFails, TriggerStop, Answer, disk
    <3>4. CASE AuditWritten(t) \/ AuditFails(t)
      BY <3>4 DEF AuditWritten, AuditFails, disk
    <3>. QED
      BY <3>1, <3>2, <3>3, <3>4 DEF Serve
  <2>. QED
    BY <2>2 DEF Log, Base, Logs
<1>3. CASE Finishes(t)
  BY <1>1, <1>2, <1>3, DeliveryFinishes
<1>4. CASE Continues(t)
  <2>1. h'[t].r = h[t].r /\ Work(h'[t])
    BY <1>4 DEF Continues
  <2>2. ~Delivering(t)'
    BY <2>1 DEF Work, Delivering
  <2>3. h[t].at # "audit"
    <3>1. SUFFICES ASSUME h[t].at = "audit"
                   PROVE  FALSE
      OBVIOUS
    <3>2. AuditWritten(t) \/ AuditFails(t)
      BY <3>1 DEF Serve, Truncate, SnapshotStep, SaveSnapshot, Import, FillSnapshot, WriteMarkdown, SnapshotWriteFails, BeginEach,
         EditOne, DeleteOne, Unlink, LookForMarkdown, DeleteMarkdown, DeleteFails, EndEach, Retention, TrustStep,
         Approve, UpdateWorkflow, ActOnWorkflow,
         FillWorkflow, WorkflowWriteFails, LogAction, Send, Resend, DryRun, Rejected, Delivered, PostFails, FileFails,
         AppendRow, CloseDelivery, AtTarget, RunStep, Check, Trigger, LaunchFails, TriggerStop
    <3>3. h'[t] = Idle
      BY <1>1, <3>2 DEF AuditWritten, AuditFails, Ends, Becomes
    <3>. QED
      BY <1>4, <3>3, IdleWorks DEF Continues
  <2>4. \A x : ~AtHand(h[t], x)
    BY <1>1 DEF AtHand, Delivering
  <2>. QED
    BY <1>2, <1>4, <2>2, <2>3, <2>4, DeliveryContinues
<1>. QED
  BY <1>3, <1>4 DEF Steps

\* A delivery begins, and its rows are none yet.
LEMMA DeliversKeeps ==
  ASSUME NEW s \in Scenes, Base(s), Delivery1(s), NEW t \in Threads, Ready(s, t), Steps(t),
         h[t].at = "begin", NEW targets, targets # <<>>, Delivers(t, targets),
         IsRetry(h[t].r.of) => \A k \in DOMAIN targets : Failed(lines.rows, h[t].r.of, targets[k], Len(lines.rows))
  PROVE  Delivery1(s)'
<1>. DEFINE x == [h[t] EXCEPT !.at = "deliver", !.ids = targets, !.seen = lines.rows, !.stamp = now,
                              !.hits = 0, !.outcomes = <<>>]
<1>1. /\ x.at = "deliver" /\ x.ids = targets /\ x.seen = lines.rows /\ x.outcomes = <<>> /\ x.r = h[t].r
  BY DEF Ready, Work, Fields
<1>2. h'[t] = x /\ lines' = lines /\ sent' = sent
  BY DEF Delivers, Becomes, Stay, disk, Ready
<1>. HIDE DEF x
<1>3. Continues(t)
  BY <1>1, <1>2, IdleWorks DEF Steps, Finishes
<1>4. h[t].r.id \notin touched /\ \A i \in DOMAIN lines.rows : lines.rows[i].delivery \in touched
  BY DEF Ready, Delivery1, RowOk
<1>5. Repeats(<<>>, lines.rows, h[t].r.id)
  BY <1>4, RepeatsNone
<1>6. DeliveryOk(x, lines.rows, touched', sent', mixed')
  BY <1>1, <1>5 DEF DeliveryOk
<1>7. \A y : ~AtHand(h[t], y)
  BY DEF AtHand
<1>. QED
  BY <1>2, <1>3, <1>6, <1>7, DeliveryContinues

\* A send begins with a true account of its deliveries.
LEMMA SendKeeps ==
  ASSUME NEW s \in Scenes, Base(s), Delivery1(s), NEW t \in Threads, Ready(s, t), Steps(t), Send(t)
  PROVE  Delivery1(s)'
<1>1. h[t].at = "begin" /\ h[t].r.kind = "send" /\ ~IsRetry(h[t].r.of) /\ h[t].r \in s.requests
  BY DeliveryAssumption DEF Send, Ready, IsRetry
<1>2. CASE Answers(t, 400)
  <2>. DEFINE x == [h[t] EXCEPT !.at = "audit", !.status = 400]
  <2>1. x.at = "audit"
    BY DEF Ready, Work, Fields
  <2>2. h'[t] = x /\ lines' = lines /\ sent' = sent
    BY <1>2 DEF Answers, Becomes, Stay, disk, Ready
  <2>. HIDE DEF x
  <2>3. Continues(t) /\ ~Delivering(t)' /\ \A y : ~AtHand(h[t], y)
    BY <1>1, <2>1, <2>2, IdleWorks DEF Steps, Finishes, Delivering, AtHand
  <2>. QED
    BY <1>1, <2>2, <2>3, DeliveryContinues
<1>3. CASE ~ Answers(t, 400)
  <2>. DEFINE targets == IF h[t].r.targets = <<>> THEN <<"stdout">> ELSE h[t].r.targets
  <2>1. Delivers(t, targets)
    BY <1>3 DEF Send
  <2>2. targets # <<>>
    OBVIOUS
  <2>. HIDE DEF targets
  <2>. QED
    BY <1>1, <2>1, <2>2, DeliversKeeps
<1>. QED
  BY <1>2, <1>3

\* A resend begins with targets that have failed.
LEMMA ResendKeeps ==
  ASSUME NEW s \in Scenes, Base(s), Delivery1(s), NEW t \in Threads, Ready(s, t), Steps(t), Resend(t)
  PROVE  Delivery1(s)'
<1>. DEFINE failed == {i \in DOMAIN lines.rows : lines.rows[i].delivery = h[t].r.of /\ lines.rows[i].status = "failed"}
            targets == TargetsOf(failed)
<1>1. h[t].at = "begin" /\ (Answers(t, 400) \/ (failed # {} /\ Delivers(t, targets)))
  BY DEF Resend
<1>2. CASE Answers(t, 400)
  <2>. DEFINE x == [h[t] EXCEPT !.at = "audit", !.status = 400]
  <2>1. x.at = "audit"
    BY DEF Ready, Work, Fields
  <2>2. h'[t] = x /\ lines' = lines /\ sent' = sent
    BY <1>2 DEF Answers, Becomes, Stay, disk, Ready
  <2>. HIDE DEF x
  <2>3. Continues(t) /\ ~Delivering(t)' /\ \A y : ~AtHand(h[t], y)
    BY <1>1, <2>1, <2>2, IdleWorks DEF Steps, Finishes, Delivering, AtHand
  <2>. QED
    BY <1>1, <2>2, <2>3, DeliveryContinues
<1>3. CASE failed # {} /\ Delivers(t, targets)
  <2>1. IsList(lines.rows) /\ failed \in SUBSET DOMAIN lines.rows
        /\ \A i \in failed : lines.rows[i].delivery = h[t].r.of /\ lines.rows[i].status = "failed"
    BY DEF Ready, Logs
  <2>. HIDE DEF failed
  <2>2. /\ IsList(targets) /\ targets # <<>>
        /\ \A k \in 1 .. Len(targets) : \E i \in failed : targets[k] = lines.rows[i].target
    BY <1>3, <2>1, TargetsFacts
  <2>. HIDE DEF targets
  <2>3. DOMAIN targets = 1 .. Len(targets) /\ DOMAIN lines.rows = 1 .. Len(lines.rows)
    BY <2>1, <2>2, ListFacts
  <2>4. \A k \in DOMAIN targets : Failed(lines.rows, h[t].r.of, targets[k], Len(lines.rows))
    BY <2>1, <2>2, <2>3 DEF Failed
  <2>. QED
    BY <1>1, <1>3, <2>2, <2>4, DeliversKeeps
<1>. QED
  BY <1>1, <1>2, <1>3

\* What became of a target is known, and its row is to come.
LEMMA ToldKeeps ==
  ASSUME NEW s \in Scenes, Base(s), Delivery1(s), NEW t \in Threads, Ready(s, t), Steps(t), AtTarget(t),
         NEW form \in {"sent", "dry_run", "failed"}, Told(t, form), lines' = lines,
         sent \subseteq sent', sent' \subseteq sent \cup {<<h[t].r.id, Target(t)>>},
         sent' # sent => h[t].r.id \in touched' /\ ~h[t].r.dryRun,
         form = "sent" => <<h[t].r.id, Target(t)>> \in sent',
         form = "dry_run" => h[t].r.dryRun
  PROVE  Delivery1(s)'
<1>. DEFINE x == [h[t] EXCEPT !.at = "row", !.rec = [form |-> form]]
<1>1. /\ x.at = "row" /\ x.rec.form = form
      /\ x.r = h[t].r /\ x.ids = h[t].ids /\ x.seen = h[t].seen /\ x.outcomes = h[t].outcomes
  BY DEF Ready, Work, Fields
<1>2. h'[t] = x /\ h[t].at = "deliver" /\ h[t].ids # <<>>
  BY DEF Told, Becomes, Ready, AtTarget
<1>. HIDE DEF x
<1>3. Continues(t) /\ touched \subseteq touched' /\ mixed \subseteq mixed'
  BY <1>1, <1>2, IdleWorks DEF Steps, Finishes, Continues, Grows
<1>4. DeliveryOk(h[t], lines.rows, touched, sent, mixed)
  BY <1>2 DEF Delivery1, Delivering
<1>5. DeliveryOk(x, lines.rows, touched', sent', mixed')
  BY <1>1, <1>2, <1>3, <1>4 DEF DeliveryOk, Target
<1>6. \A y : AtHand(h[t], y) => AtHand(x, y)
  BY <1>1 DEF AtHand
<1>7. ASSUME NEW y \in sent' \ sent
      PROVE  Received(s, y, touched') /\ AtHand(x, y)
  <2>1. y = <<h[t].r.id, Target(t)>> /\ h[t].r.id \in touched' /\ ~h[t].r.dryRun
    BY <1>7
  <2>2. h[t].r \in s.requests /\ h[t].r.kind \in {"send", "resend"}
    BY <1>2 DEF Ready, Work
  <2>3. y[1] = h[t].r.id /\ y[2] = Head(h[t].ids)
    BY <2>1 DEF Target
  <2>. QED
    BY <1>1, <1>2, <2>1, <2>2, <2>3 DEF Received, AtHand
<1>. QED
  BY <1>2, <1>3, <1>5, <1>6, <1>7, DeliveryContinues

\* What happens at a target keeps what is said of the rows.
LEMMA TargetKeeps ==
  ASSUME NEW s \in Scenes, Base(s), Delivery1(s), NEW t \in Threads, Ready(s, t), Steps(t),
         DryRun(t) \/ Rejected(t) \/ Delivered(t) \/ PostFails(t) \/ FileFails(t)
  PROVE  Delivery1(s)'
<1>. DEFINE y == <<h[t].r.id, Target(t)>>
<1>1. /\ AtTarget(t) /\ lines' = lines
      /\ sent' = sent \/ (sent' = sent \cup {y} /\ h[t].r.id \in touched' /\ ~h[t].r.dryRun)
  BY DEF DryRun, Rejected, Delivered, PostFails, FileFails, Stay, disk, Receives, Touches
<1>2. \/ \E form \in {"sent", "dry_run", "failed"} :
           Told(t, form) /\ (form = "sent" => y \in sent') /\ (form = "dry_run" => h[t].r.dryRun)
      \/ Becomes(t, [h[t] EXCEPT !.hits = @ + 1])
  BY DEF DryRun, Rejected, Delivered, PostFails, FileFails, Receives
<1>3. CASE Becomes(t, [h[t] EXCEPT !.hits = @ + 1])
  <2>. DEFINE x == [h[t] EXCEPT !.hits = @ + 1]
  <2>1. /\ x.at = h[t].at /\ x.r = h[t].r /\ x.ids = h[t].ids /\ x.seen = h[t].seen /\ x.outcomes = h[t].outcomes
        /\ x.rec = h[t].rec
    BY DEF Ready, Work, Fields
  <2>2. h'[t] = x /\ h[t].at = "deliver" /\ h[t].ids # <<>>
    BY <1>1, <1>3 DEF Becomes, Ready, AtTarget
  <2>. HIDE DEF x
  <2>3. Continues(t) /\ touched \subseteq touched' /\ mixed \subseteq mixed'
    BY <2>1, <2>2, IdleWorks DEF Steps, Finishes, Continues, Grows
  <2>4. DeliveryOk(h[t], lines.rows, touched, sent, mixed)
    BY <2>2 DEF Delivery1, Delivering
  <2>5. DeliveryOk(x, lines.rows, touched', sent', mixed')
    BY <1>1, <2>1, <2>3, <2>4, DeliveryStaysOk
  <2>6. \A z : AtHand(h[t], z) => AtHand(x, z)
    BY <2>1 DEF AtHand
  <2>7. ASSUME NEW z \in sent' \ sent
        PROVE  Received(s, z, touched') /\ AtHand(x, z)
    <3>1. z = y /\ h[t].r.id \in touched' /\ ~h[t].r.dryRun
      BY <1>1, <2>7
    <3>2. h[t].r \in s.requests /\ h[t].r.kind \in {"send", "resend"}
      BY <2>2 DEF Ready, Work
    <3>3. z[1] = h[t].r.id /\ z[2] = Head(h[t].ids)
      BY <3>1 DEF Target
    <3>. QED
      BY <2>1, <2>2, <3>1, <3>2, <3>3 DEF Received, AtHand
  <2>. QED
    BY <1>1, <2>2, <2>3, <2>5, <2>6, <2>7, DeliveryContinues
<1>. HIDE DEF y
<1>4. CASE \E form \in {"sent", "dry_run", "failed"} :
             Told(t, form) /\ (form = "sent" => y \in sent') /\ (form = "dry_run" => h[t].r.dryRun)
  BY <1>1, <1>4, ToldKeeps DEF y
<1>. QED
  BY <1>2, <1>3, <1>4

\* One row more keeps what was said of the rows.
LEMMA RowsAppended ==
  ASSUME NEW s, NEW rows, IsList(rows), NEW T, NEW S, \A i \in DOMAIN rows : RowOk(s, rows, i, T, S),
         NEW row, NEW T2, T \subseteq T2, row.delivery \in T2,
         \E q \in s.requests : q.id = row.delivery /\ q.kind \in {"send", "resend"} /\ (row.status = "dry_run" => q.dryRun),
         row.status = "sent" => <<row.delivery, row.target>> \in S,
         IsRetry(row.of) => Failed(rows, row.of, row.target, Len(rows))
  PROVE  /\ \A i \in DOMAIN Append(rows, row) : RowOk(s, Append(rows, row), i, T2, S)
         /\ \A x : HasRow(rows, x) => HasRow(Append(rows, row), x)
         /\ \A x : x[1] = row.delivery /\ x[2] = row.target => HasRow(Append(rows, row), x)
         /\ \A of, target : Failed(rows, of, target, Len(rows)) => Failed(Append(rows, row), of, target, Len(Append(rows, row)))
<1>. DEFINE n == Len(rows)
           more == Append(rows, row)
<1>1. n \in Nat /\ DOMAIN rows = 1 .. n
  BY ListFacts
<1>2. Len(more) = n + 1 /\ DOMAIN more = 1 .. n + 1 /\ more[n + 1] = row /\ \A i \in 1 .. n : more[i] = rows[i]
  BY Appended, ListFacts
<1>3. IsRetry(row.of) => Failed(rows, row.of, row.target, n)
  OBVIOUS
<1>. HIDE DEF n, more
<1>4. ASSUME NEW k \in 0 .. n, NEW of, NEW target, Failed(rows, of, target, k)
      PROVE  Failed(more, of, target, k)
  <2>1. PICK j \in 1 .. k : rows[j].delivery = of /\ rows[j].status = "failed" /\ rows[j].target = target
    BY <1>4 DEF Failed
  <2>2. more[j] = rows[j]
    BY <1>1, <1>2
  <2>. QED
    BY <2>1, <2>2 DEF Failed
<1>5. ASSUME NEW i \in 1 .. n
      PROVE  RowOk(s, more, i, T2, S)
  <2>1. RowOk(s, rows, i, T, S) /\ more[i] = rows[i] /\ i - 1 \in 0 .. n
    BY <1>1, <1>2
  <2>2. IsRetry(more[i].of) => Failed(more, more[i].of, more[i].target, i - 1)
    BY <1>4, <2>1 DEF RowOk
  <2>. QED
    BY <2>1, <2>2 DEF RowOk
<1>6. RowOk(s, more, n + 1, T2, S)
  <2>1. IsRetry(row.of) => Failed(more, row.of, row.target, n)
    BY <1>1, <1>3, <1>4
  <2>. DEFINE k == n + 1
  <2>2. k - 1 = n
    BY <1>1
  <2>3. more[k] = row
    BY <1>2
  <2>. HIDE DEF k
  <2>4. RowOk(s, more, k, T2, S)
    BY <2>1, <2>2, <2>3, Zenon DEF RowOk
  <2>. QED
    BY <2>4 DEF k
<1>7. \A i \in DOMAIN more : RowOk(s, more, i, T2, S)
  <2>1. \A i \in DOMAIN more : i \in 1 .. n \/ i = n + 1
    BY <1>1, <1>2
  <2>. QED
    BY <1>5, <1>6, <2>1
<1>8. \A x : HasRow(rows, x) => HasRow(more, x)
  <2>1. \A i \in DOMAIN rows : i \in DOMAIN more /\ more[i] = rows[i]
    BY <1>1, <1>2
  <2>. QED
    BY <2>1 DEF HasRow
<1>9. \A x : x[1] = row.delivery /\ x[2] = row.target => HasRow(more, x)
  <2>1. n + 1 \in DOMAIN more
    BY <1>1, <1>2
  <2>. QED
    BY <1>2, <2>1 DEF HasRow
<1>10. \A of, target : Failed(rows, of, target, n) => Failed(more, of, target, n + 1)
  <2>1. \A j \in 1 .. n : j \in 1 .. n + 1 /\ more[j] = rows[j]
    BY <1>1, <1>2
  <2>. QED
    BY <2>1 DEF Failed
<1>. QED
  BY <1>2, <1>7, <1>8, <1>9, <1>10 DEF n, more

\* The deliveries that go on beside the one that appends a row.
LEMMA OthersDeliver ==
  ASSUME NEW w, NEW rows, IsList(rows), NEW row, NEW T, NEW S, NEW M, DeliveryOk(w, rows, T, S, M),
         NEW T2, T \subseteq T2, w.r.id # row.delivery, "delivery" \in M,
         \A of, target : Failed(rows, of, target, Len(rows)) => Failed(Append(rows, row), of, target, Len(Append(rows, row)))
  PROVE  DeliveryOk(w, Append(rows, row), T2, S, M)
<1>1. Repeats(w.outcomes, Append(rows, row), w.r.id)
  BY RepeatsStill DEF DeliveryOk
<1>. QED
  BY <1>1 DEF DeliveryOk

\* So does the row that tells of it.
LEMMA AppendRowKeeps ==
  ASSUME NEW s \in Scenes, Base(s), Delivery1(s), NEW t \in Threads, Ready(s, t), Steps(t), AppendRow(t)
  PROVE  Delivery1(s)'
<1>. DEFINE id == h[t].r.id
            rows == lines.rows
            key == <<Mode(t), h[t].stamp>>
            row == [delivery |-> id, of |-> h[t].r.of, target |-> Target(t), status |-> h[t].rec.form,
                    key |-> key, attempt |-> AttemptNumber(h[t].seen, Target(t), key)]
            x == [h[t] EXCEPT !.at = "deliver", !.ids = Tail(@), !.seen = Append(@, row), !.hits = 0,
                              !.outcomes = Append(@, h[t].rec.form)]
<1>1. /\ h[t].at = "row" /\ Log("rows", row) /\ Becomes(t, x) /\ touched' = touched \cup {id}
      /\ sent' = sent /\ outcome' = outcome /\ mixed' = mixed
  BY DEF AppendRow, Touches
<1>2. /\ row.delivery = id /\ row.of = h[t].r.of /\ row.target = Head(h[t].ids) /\ row.status = h[t].rec.form
      /\ row.attempt = AttemptNumber(h[t].seen, row.target, row.key)
  BY DEF Target
<1>. HIDE DEF row
<1>3. /\ x.at = "deliver" /\ x.r = h[t].r /\ x.ids = Tail(h[t].ids) /\ x.seen = Append(h[t].seen, row)
      /\ x.outcomes = Append(h[t].outcomes, h[t].rec.form)
  BY DEF Ready, Work, Fields
<1>. HIDE DEF x
<1>4. /\ h'[t] = x /\ lines'.rows = Append(rows, row) /\ lines'.deliveries = lines.deliveries
      /\ \A u \in Threads \ {t} : h'[u] = h[u]
  BY <1>1 DEF Becomes, Log, Ready, Logs
<1>5. /\ h[t].ids # <<>> /\ IsList(h[t].ids) /\ IsList(rows) /\ IsList(h[t].outcomes)
      /\ h[t].r \in s.requests /\ h[t].r.kind \in {"send", "resend"} /\ Busy(t)
  BY <1>1 DEF Ready, Work, Logs, Busy
<1>6. DeliveryOk(h[t], rows, touched, sent, mixed)
  BY <1>1 DEF Delivery1, Delivering
<1>7. Continues(t)
  BY <1>3, <1>4, IdleWorks DEF Steps, Finishes
<1>8. \A k \in DOMAIN h[t].ids : IsRetry(h[t].r.of) => Failed(rows, h[t].r.of, h[t].ids[k], Len(rows))
  BY <1>6 DEF DeliveryOk
<1>9. /\ DOMAIN h[t].ids = 1 .. Len(h[t].ids) /\ Len(h[t].ids) \in Nat /\ Len(h[t].ids) # 0 /\ Head(h[t].ids) = h[t].ids[1]
      /\ IsList(Tail(h[t].ids)) /\ Len(Tail(h[t].ids)) = Len(h[t].ids) - 1
      /\ \A k \in 1 .. Len(Tail(h[t].ids)) : Tail(h[t].ids)[k] = h[t].ids[k + 1]
  BY <1>5, ListFacts
<1>10. IsRetry(row.of) => Failed(rows, row.of, row.target, Len(rows))
  BY <1>2, <1>8, <1>9
<1>11. /\ \A i \in DOMAIN Append(rows, row) : RowOk(s, Append(rows, row), i, touched', sent')
       /\ \A y : HasRow(rows, y) => HasRow(Append(rows, row), y)
       /\ \A y : y[1] = row.delivery /\ y[2] = row.target => HasRow(Append(rows, row), y)
       /\ \A of, target : Failed(rows, of, target, Len(rows)) => Failed(Append(rows, row), of, target, Len(Append(rows, row)))
  <2>1. \A i \in DOMAIN rows : RowOk(s, rows, i, touched, sent)
    BY DEF Delivery1
  <2>2. row.status = "sent" => <<row.delivery, row.target>> \in sent
    BY <1>1, <1>2, <1>6 DEF DeliveryOk
  <2>3. row.status = "dry_run" => h[t].r.dryRun
    BY <1>1, <1>2, <1>6 DEF DeliveryOk
  <2>4. row.delivery \in touched' /\ touched \subseteq touched'
    BY <1>1, <1>2
  <2>5. \E q \in s.requests : q.id = row.delivery /\ q.kind \in {"send", "resend"} /\ (row.status = "dry_run" => q.dryRun)
    BY <1>2, <1>5, <2>3
  <2>. HIDE DEF rows
  <2>6. \A i \in DOMAIN Append(rows, row) : RowOk(s, Append(rows, row), i, touched', sent)
    BY <1>5, <1>10, <2>1, <2>2, <2>4, <2>5, RowsAppended
  <2>7. /\ \A y : HasRow(rows, y) => HasRow(Append(rows, row), y)
        /\ \A y : y[1] = row.delivery /\ y[2] = row.target => HasRow(Append(rows, row), y)
        /\ \A of, target : Failed(rows, of, target, Len(rows)) => Failed(Append(rows, row), of, target, Len(Append(rows, row)))
    BY <1>5, <1>10, <2>1, <2>2, <2>4, <2>5, RowsAppended
  <2>. QED
    BY <1>1, <2>6, <2>7
<1>12. "delivery" \notin mixed => h[t].seen = rows /\ Attempts(rows)
  BY <1>6 DEF DeliveryOk, Delivery1
<1>. HIDE DEF rows, id
<1>13. "delivery" \notin mixed' => Attempts(lines'.rows)
  BY <1>1, <1>2, <1>4, <1>5, <1>12, AttemptsAppended
<1>14. ASSUME NEW y \in sent
       PROVE  Received(s, y, touched') /\ Accounted(y, lines.rows)'
  <2>1. Received(s, y, touched) /\ Accounted(y, rows)
    BY DEF Delivery1, rows
  <2>2. AtHand(h[t], y) => HasRow(lines'.rows, y)
    BY <1>2, <1>4, <1>11 DEF AtHand, id
  <2>3. \A u \in Threads : u # t /\ AtHand(h[u], y) => AtHand(h'[u], y)
    BY <1>4
  <2>4. HasRow(rows, y) => HasRow(lines'.rows, y)
    BY <1>4, <1>11
  <2>5. Accounted(y, lines.rows)'
    BY <1>1, <2>1, <2>2, <2>3, <2>4 DEF Accounted
  <2>. QED
    BY <1>1, <2>1, <2>5 DEF Received
<1>15. DeliveryOk(x, lines'.rows, touched', sent', mixed')
  <2>1. "delivery" \notin mixed' => x.seen = lines'.rows
    BY <1>1, <1>3, <1>4, <1>12
  <2>2. IsRetry(x.r.of) => \A k \in DOMAIN x.ids : Failed(lines'.rows, x.r.of, x.ids[k], Len(lines'.rows))
    <3>1. SUFFICES ASSUME IsRetry(x.r.of), NEW k \in DOMAIN x.ids
                   PROVE  Failed(rows, h[t].r.of, x.ids[k], Len(rows))
      BY <1>3, <1>4, <1>11
    <3>2. k \in 1 .. Len(Tail(h[t].ids)) /\ x.ids[k] = h[t].ids[k + 1]
      BY <1>3, <1>9, ListFacts
    <3>3. k + 1 \in DOMAIN h[t].ids
      BY <1>9, <3>2
    <3>. QED
      BY <1>3, <1>8, <3>1, <3>2, <3>3
  <2>3. Repeats(x.outcomes, lines'.rows, x.r.id)
    <3>1. Repeats(h[t].outcomes, rows, row.delivery)
      BY <1>2, <1>6 DEF DeliveryOk, id
    <3>. QED
      BY <1>2, <1>3, <1>4, <1>5, <3>1, RepeatsMore DEF id
  <2>. QED
    BY <1>1, <1>3, <2>1, <2>2, <2>3 DEF DeliveryOk, id
<1>16. ASSUME NEW u \in Threads, Delivering(u)'
       PROVE  DeliveryOk(h'[u], lines'.rows, touched', sent', mixed')
  <2>1. CASE u = t
    BY <1>4, <1>15, <2>1
  <2>2. CASE u # t
    <3>1. h'[u] = h[u] /\ Delivering(u) /\ Busy(u)
      BY <1>4, <1>16, <2>2 DEF Delivering, Busy
    <3>2. DeliveryOk(h[u], rows, touched, sent, mixed)
      BY <3>1 DEF Delivery1, rows
    <3>3. h[u].r.id # row.delivery
      BY <1>2, <1>5, <2>2, <3>1, IdsDiffer DEF id
    <3>4. "delivery" \in mixed
      <4>1. h[u].r.kind \in {"send", "resend"}
        BY <3>1 DEF Base, Work, Delivering
      <4>2. Group(h[u].r) = "delivery" /\ Group(h[t].r) = "delivery"
        BY <1>5, <4>1 DEF Group, RunControls
      <4>. QED
        BY <1>5, <2>2, <3>1, <4>2 DEF Base
    <3>5. touched \subseteq touched'
      BY <1>1
    <3>6. DeliveryOk(h[u], Append(rows, row), touched', sent, mixed)
      BY <1>5, <1>11, <3>2, <3>3, <3>4, <3>5, OthersDeliver
    <3>. QED
      BY <1>1, <1>4, <3>1, <3>6
  <2>. QED
    BY <2>1, <2>2
<1>17. ASSUME NEW i \in DOMAIN lines'.deliveries
       PROVE  Logged(lines'.deliveries[i], lines'.rows, touched') /\ Done(lines.deliveries[i].delivery)'
  <2>1. Logged(lines.deliveries[i], rows, touched) /\ Done(lines.deliveries[i].delivery) /\ lines'.deliveries[i] = lines.deliveries[i]
    BY <1>4 DEF Delivery1, rows
  <2>2. lines.deliveries[i].delivery # row.delivery
    BY <1>1, <1>2, <1>5, <2>1 DEF Done, id
  <2>3. Repeats(lines.deliveries[i].outcomes, lines'.rows, lines.deliveries[i].delivery)
    BY <1>4, <1>5, <2>1, <2>2, RepeatsStill DEF Logged
  <2>4. Logged(lines'.deliveries[i], lines'.rows, touched')
    BY <1>1, <2>1, <2>3 DEF Logged
  <2>. DEFINE d == lines.deliveries[i].delivery
  <2>5. \A u \in Threads : Busy(u)' /\ h'[u].r.id = d => h'[u].at = "audit"
    <3>1. \A u \in Threads \ {t} : Busy(u)' /\ h'[u].r.id = d => h'[u].at = "audit"
      BY <1>4, <2>1 DEF Done, Busy
    <3>2. h'[t].r.id # d
      BY <1>2, <1>3, <1>4, <2>2 DEF id
    <3>. QED
      BY <3>1, <3>2
  <2>6. Done(lines.deliveries[i].delivery)'
    BY <2>1, <2>5 DEF Done
  <2>. QED
    BY <2>4, <2>6
<1>. QED
  BY <1>1, <1>4, <1>11, <1>13, <1>14, <1>16, <1>17 DEF Delivery1

\* So does the line in the log of deliveries.
LEMMA CloseDeliveryKeeps ==
  ASSUME NEW s \in Scenes, Base(s), Delivery1(s), NEW t \in Threads, Ready(s, t), Steps(t), CloseDelivery(t)
  PROVE  Delivery1(s)'
<1>. DEFINE row == [delivery |-> h[t].r.id, outcomes |-> h[t].outcomes]
            x == [h[t] EXCEPT !.at = "audit"]
<1>1. /\ h[t].at = "deliver" /\ h[t].ids = <<>> /\ Log("deliveries", row) /\ Becomes(t, x)
      /\ sent' = sent /\ outcome' = outcome /\ mixed' = mixed /\ touched' = touched
  BY DEF CloseDelivery, history
<1>2. row.delivery = h[t].r.id /\ row.outcomes = h[t].outcomes
  OBVIOUS
<1>3. x.at = "audit" /\ x.r = h[t].r
  BY DEF Ready, Work, Fields
<1>. HIDE DEF row, x
<1>4. /\ h'[t] = x /\ lines'.rows = lines.rows /\ lines'.deliveries = Append(lines.deliveries, row)
      /\ \A u \in Threads \ {t} : h'[u] = h[u]
  BY <1>1 DEF Becomes, Log, Ready, Logs
<1>5. DeliveryOk(h[t], lines.rows, touched, sent, mixed) /\ Busy(t) /\ IsList(lines.deliveries)
  BY <1>1 DEF Delivery1, Delivering, Busy, Ready, Logs
<1>6. \A u \in Threads : Delivering(u)' => u # t /\ h'[u] = h[u] /\ Delivering(u)
  BY <1>3, <1>4 DEF Delivering
<1>7. ASSUME NEW y \in sent
      PROVE  Received(s, y, touched') /\ Accounted(y, lines.rows)'
  <2>1. Received(s, y, touched) /\ Accounted(y, lines.rows)
    BY DEF Delivery1
  <2>2. \A u \in Threads : AtHand(h[u], y) => AtHand(h'[u], y)
    BY <1>1, <1>4 DEF AtHand
  <2>3. Accounted(y, lines.rows)'
    BY <1>1, <1>4, <2>1, <2>2, StillAccounted
  <2>. QED
    BY <1>1, <2>1, <2>3 DEF Received
<1>8. \A u \in Threads : Busy(u)' => Busy(u) /\ h'[u].r = h[u].r /\ (u # t => h'[u] = h[u])
  BY <1>3, <1>4, <1>5 DEF Busy
<1>9. ASSUME NEW d, Logged(d, lines.rows, touched), NEW id, id = d.delivery,
             \A u \in Threads : Busy(u)' /\ h'[u].r.id = id => h'[u].at = "audit"
      PROVE  Logged(d, lines'.rows, touched') /\ \A u \in Threads : Busy(u)' /\ h'[u].r.id = d.delivery => h'[u].at = "audit"
  BY <1>1, <1>4, <1>9 DEF Logged
<1>10. ASSUME NEW i \in DOMAIN lines.deliveries, NEW d, d = lines.deliveries[i]
       PROVE  Logged(d, lines'.rows, touched') /\ \A u \in Threads : Busy(u)' /\ h'[u].r.id = d.delivery => h'[u].at = "audit"
  <2>1. Logged(d, lines.rows, touched) /\ \A u \in Threads : Busy(u) /\ h[u].r.id = d.delivery => h[u].at = "audit"
    BY <1>10 DEF Delivery1, Done
  <2>2. \A u \in Threads : Busy(u)' /\ h'[u].r.id = d.delivery => h'[u].at = "audit"
    BY <1>3, <1>4, <1>8, <2>1
  <2>. QED
    BY <1>1, <1>4, <2>1, <2>2 DEF Logged
<1>11. Logged(row, lines'.rows, touched') /\ \A u \in Threads : Busy(u)' /\ h'[u].r.id = row.delivery => h'[u].at = "audit"
  <2>1. Logged(row, lines'.rows, touched')
    BY <1>1, <1>2, <1>4, <1>5 DEF Logged, DeliveryOk
  <2>2. \A u \in Threads : u # t /\ Busy(u)' => h'[u].r.id # h[t].r.id
    BY <1>5, <1>8, IdsDiffer
  <2>. QED
    BY <1>2, <1>3, <1>4, <2>1, <2>2
<1>12. ASSUME NEW i \in DOMAIN lines'.deliveries
       PROVE  Logged(lines'.deliveries[i], lines'.rows, touched') /\ Done(lines.deliveries[i].delivery)'
  <2>1. (i \in DOMAIN lines.deliveries /\ lines'.deliveries[i] = lines.deliveries[i]) \/ lines'.deliveries[i] = row
    <3>1. /\ DOMAIN lines.deliveries = 1 .. Len(lines.deliveries) /\ Len(lines.deliveries) \in Nat
          /\ DOMAIN lines'.deliveries = 1 .. Len(lines.deliveries) + 1
          /\ \A j \in 1 .. Len(lines.deliveries) : lines'.deliveries[j] = lines.deliveries[j]
          /\ lines'.deliveries[Len(lines.deliveries) + 1] = row
      BY <1>4, <1>5, Appended, ListFacts
    <3>. QED
      BY <3>1
  <2>2. Logged(lines'.deliveries[i], lines'.rows, touched')
        /\ \A u \in Threads : Busy(u)' /\ h'[u].r.id = lines'.deliveries[i].delivery => h'[u].at = "audit"
    BY <1>10, <1>11, <2>1
  <2>. QED
    BY <2>2 DEF Done
<1>13. ASSUME NEW u \in Threads, Delivering(u)'
       PROVE  DeliveryOk(h'[u], lines'.rows, touched', sent', mixed')
  BY <1>1, <1>4, <1>6, <1>13 DEF Delivery1
<1>14. \A i \in DOMAIN lines'.rows : RowOk(s, lines'.rows, i, touched', sent')
  BY <1>1, <1>4 DEF Delivery1
<1>15. "delivery" \notin mixed' => Attempts(lines'.rows)
  BY <1>1, <1>4 DEF Delivery1
<1>. QED
  BY <1>1, <1>7, <1>12, <1>13, <1>14, <1>15 DEF Delivery1

\* What a thread does for a delivery.
LEMMA DeliveryActions ==
  ASSUME NEW t \in Threads, Work(h[t]), h[t].r.kind \in {"send", "resend"}, Serve(t)
  PROVE  \/ Send(t) \/ Resend(t) \/ DryRun(t) \/ Rejected(t) \/ Delivered(t) \/ PostFails(t) \/ FileFails(t)
         \/ AppendRow(t) \/ CloseDelivery(t) \/ AuditWritten(t) \/ AuditFails(t)
<1>1. ~(h[t].at \in {"write", "fill", "markdown", "next", "unlink", "look", "unmark", "log", "spawn", "stop"})
  BY DEF Work, Edits, RunControls, Deleting
<1>2. ~Truncate(t) /\ ~SnapshotStep(t)
  BY <1>1 DEF Truncate, SnapshotStep, SaveSnapshot, Import, FillSnapshot, WriteMarkdown, SnapshotWriteFails,
         BeginEach, EditOne, DeleteOne, Unlink, LookForMarkdown, DeleteMarkdown, DeleteFails, EndEach, Retention
<1>3. ~RunStep(t)
  BY <1>1 DEF RunStep, Check, Trigger, LaunchFails, TriggerStop, RunControls
<1>4. ~(Approve(t) \/ UpdateWorkflow(t) \/ ActOnWorkflow(t) \/ FillWorkflow(t) \/ WorkflowWriteFails(t) \/ LogAction(t))
  BY <1>1 DEF Approve, UpdateWorkflow, ActOnWorkflow, FillWorkflow, WorkflowWriteFails, LogAction
<1>. QED
  BY <1>2, <1>3, <1>4 DEF Serve, TrustStep

\* So does the audit line.
LEMMA AuditKeepsDeliveries ==
  ASSUME NEW s \in Scenes, Base(s), Delivery1(s), NEW t \in Threads, Ready(s, t), Steps(t), AuditWritten(t) \/ AuditFails(t)
  PROVE  Delivery1(s)'
<1>1. h[t].at = "audit" /\ h'[t] = Idle /\ sent' = sent
  BY DEF AuditWritten, AuditFails, Ends, Becomes, Ready, disk
<1>2. lines'.rows = lines.rows /\ lines'.deliveries = lines.deliveries
  <2>1. lines' = lines \/ \E row : Log("audit", row)
    BY DEF AuditWritten, AuditFails, disk
  <2>. QED
    BY <2>1 DEF Log, Ready, Logs
<1>3. Finishes(t) /\ ~Delivering(t)
  BY <1>1, IdleWorks DEF Steps, Continues, Delivering
<1>. QED
  BY <1>1, <1>2, <1>3, DeliveryFinishes

\* So does every step of a handler.
LEMMA ServeKeepsDeliveries ==
  ASSUME NEW s \in Scenes, Base(s), Answers1, Snapshots1, Delivery1(s), NEW t \in Threads, Serve(t)
  PROVE  Delivery1(s)'
<1>1. Ready(s, t) /\ Steps(t) /\ Work(h[t])
  BY ServeIsReady, ServeSteps DEF Ready
<1>2. CASE h[t].r.kind \notin {"send", "resend"}
  BY <1>1, <1>2, DeliveryElsewhere
<1>3. CASE h[t].r.kind \in {"send", "resend"}
  BY <1>1, <1>3, DeliveryActions, SendKeeps, ResendKeeps, TargetKeeps, AppendRowKeeps, CloseDeliveryKeeps, AuditKeepsDeliveries
<1>. QED
  BY <1>2, <1>3

\* A step in which threads only come or go, or nothing happens to them.
LEMMA DeliveryAside ==
  ASSUME NEW s \in Scenes, Base(s), Delivery1(s), lines' = lines, sent' = sent, touched' = touched, mixed \subseteq mixed',
         \A i \in touched : outcome[i] = Lost => outcome'[i] = Lost,
         \A u \in Threads : \/ /\ h'[u].at = h[u].at /\ h'[u].r = h[u].r /\ h'[u].ids = h[u].ids /\ h'[u].seen = h[u].seen
                               /\ h'[u].outcomes = h[u].outcomes /\ h'[u].rec = h[u].rec
                            \/ /\ ~Delivering(u)' /\ (Busy(u)' => h'[u].r.id \notin touched)
                               /\ (h[u].r.id \in touched /\ Busy(u) => outcome'[h[u].r.id] = Lost)
  PROVE  Delivery1(s)'
<1>1. ASSUME NEW u \in Threads, Delivering(u)'
      PROVE  DeliveryOk(h'[u], lines.rows, touched', sent', mixed')
  <2>1. /\ h'[u].at = h[u].at /\ h'[u].r = h[u].r /\ h'[u].ids = h[u].ids /\ h'[u].seen = h[u].seen
        /\ h'[u].outcomes = h[u].outcomes /\ h'[u].rec = h[u].rec
    BY <1>1
  <2>2. Delivering(u)
    BY <1>1, <2>1 DEF Delivering
  <2>3. DeliveryOk(h[u], lines.rows, touched, sent, mixed)
    BY <2>2 DEF Delivery1
  <2>. QED
    BY <2>1, <2>3, DeliveryStaysOk
<1>2. ASSUME NEW x \in sent
      PROVE  Received(s, x, touched') /\ Accounted(x, lines.rows)'
  <2>1. Received(s, x, touched) /\ Accounted(x, lines.rows) /\ x[1] \in touched
    BY ReceivedIds DEF Delivery1
  <2>2. ASSUME NEW u \in Threads, AtHand(h[u], x)
        PROVE  AtHand(h'[u], x) \/ outcome'[x[1]] = Lost
    <3>1. h[u].r.id = x[1] /\ Busy(u)
      BY <2>2 DEF AtHand, Busy
    <3>2. CASE h'[u].at = h[u].at /\ h'[u].r = h[u].r /\ h'[u].ids = h[u].ids
      BY <2>2, <3>2 DEF AtHand
    <3>3. CASE h[u].r.id \in touched /\ Busy(u) => outcome'[h[u].r.id] = Lost
      BY <2>1, <3>1, <3>3
    <3>. QED
      BY <3>2, <3>3
  <2>3. Accounted(x, lines.rows)'
    BY <2>1, <2>2, StillAccounted
  <2>. QED
    BY <2>1, <2>3
<1>3. ASSUME NEW u \in Threads, NEW id \in touched, Busy(u)', h'[u].r.id = id
      PROVE  Busy(u) /\ h[u].r.id = id /\ (h[u].at = "audit" => h'[u].at = "audit")
  BY <1>3 DEF Busy
<1>. QED
  BY <1>1, <1>2, <1>3, DeliveryCarried

\* So does every step.
LEMMA DeliveriesKept ==
  ASSUME NEW s \in Scenes, Base(s), Answers1, Snapshots1, Delivery1(s), [ServerNext]_serverVars
  PROVE  Delivery1(s)'
<1>1. ASSUME NEW t \in Threads, NEW r \in todo, Taken(t, r)
      PROVE  Delivery1(s)'
  <2>1. /\ lines' = lines /\ sent' = sent /\ touched' = touched /\ outcome' = outcome /\ mixed \subseteq mixed'
    BY <1>1 DEF Taken, disk
  <2>2. h'[t].at \in {"audit", "begin"} /\ h'[t].r = r /\ ~Busy(t)
        /\ \A u \in Threads \ {t} : \A f \in Fields \ {"alone"} : h'[u][f] = h[u][f]
    BY ZenonT(30), <1>1, TakenShape
  <2>3. r.id \notin touched
    BY DEF Base
  <2>4. ~Delivering(t)'
    BY <2>2 DEF Delivering
  <2>5. \A u \in Threads \ {t} : /\ h'[u].at = h[u].at /\ h'[u].r = h[u].r /\ h'[u].ids = h[u].ids /\ h'[u].seen = h[u].seen
                                 /\ h'[u].outcomes = h[u].outcomes /\ h'[u].rec = h[u].rec
    BY <2>2 DEF Fields
  <2>. QED
    BY <2>1, <2>2, <2>3, <2>4, <2>5, DeliveryAside
<1>2. ASSUME NEW t \in Threads, NEW r \in todo, NEW status, TurnedAway(t, r, status)
      PROVE  Delivery1(s)'
  <2>1. /\ lines' = lines /\ sent' = sent /\ touched' = touched /\ h' = h /\ mixed' = mixed
        /\ outcome' = [outcome EXCEPT ![r.id] = status]
    BY <1>2 DEF TurnedAway, disk, history
  <2>2. r.id \notin touched /\ touched \subseteq DOMAIN outcome
    BY DEF Base
  <2>3. \A i \in touched : outcome'[i] = outcome[i]
    BY <2>1, <2>2
  <2>. QED
    BY <2>1, <2>3, DeliveryAside
<1>3. CASE Die
  <2>1. /\ h' = [t \in Threads |-> Idle] /\ UNCHANGED <<lines, sent, touched>> /\ mixed \subseteq mixed'
        /\ outcome' = [i \in DOMAIN outcome |-> IF \E t \in Threads : Busy(t) /\ h[t].r.id = i THEN Lost ELSE outcome[i]]
    BY <1>3 DEF Die, disk
  <2>2. \A u \in Threads : h'[u].at = "idle"
    BY <2>1, IdleWorks
  <2>3. touched \subseteq DOMAIN outcome
    BY DEF Base
  <2>4. \A i \in touched : outcome'[i] = Lost \/ (outcome'[i] = outcome[i] /\ \A t \in Threads : Busy(t) => h[t].r.id # i)
    BY <2>1, <2>3
  <2>. QED
    BY <2>1, <2>2, <2>4, DeliveryAside DEF Delivering, Busy
<1>4. CASE Aside
  <2>1. UNCHANGED <<h, lines, sent, outcome, touched, mixed>>
    BY <1>4, AsideLeaves
  <2>. QED
    BY <2>1, DeliveryAside
<1>5. CASE UNCHANGED serverVars
  <2>1. UNCHANGED <<h, lines, sent, outcome, touched, mixed>>
    BY <1>5 DEF serverVars, disk, history
  <2>. QED
    BY <2>1, DeliveryAside
<1>. QED
  BY <1>1, <1>2, <1>3, <1>4, <1>5, ServeKeepsDeliveries DEF ServerNext, Arrive, Malformed, Forbidden, Aside

\* What is said of the rows follows.
LEMMA RowsAreTrue ==
  ASSUME NEW s \in Scenes, Base(s), Delivery1(s)
  PROVE  DeliveryRowsTrue
<1>. DEFINE rows == lines.rows
<1>1. IsList(rows) /\ DOMAIN rows = 1 .. Len(rows) /\ Len(rows) \in Nat
  BY ListFacts DEF Base, Logs
<1>2. \A i \in DOMAIN rows : RowOk(s, rows, i, touched, sent)
  BY DEF Delivery1
<1>3. \A x \in sent : Received(s, x, touched) /\ Accounted(x, rows)
  BY DEF Delivery1
<1>4. "delivery" \notin mixed => Attempts(rows)
  BY DEF Delivery1
<1>5. \A i \in DOMAIN lines.deliveries : Repeats(lines.deliveries[i].outcomes, rows, lines.deliveries[i].delivery)
  BY DEF Delivery1, Logged
<1>. HIDE DEF rows
<1>6. ASSUME NEW i \in DOMAIN rows
      PROVE  /\ rows[i].status = "sent" => <<rows[i].delivery, rows[i].target>> \in sent
             /\ rows[i].status = "dry_run" => <<rows[i].delivery, rows[i].target>> \notin sent
             /\ IsRetry(rows[i].of) => \E j \in 1 .. i - 1 : /\ rows[j].delivery = rows[i].of /\ rows[j].status = "failed"
                                                         /\ rows[j].target = rows[i].target
             /\ "delivery" \notin mixed
                  => rows[i].attempt = Cardinality({j \in 1 .. i : rows[j].target = rows[i].target
                                                                   /\ rows[j].key = rows[i].key})
  <2>1. rows[i].status = "sent" => <<rows[i].delivery, rows[i].target>> \in sent
    BY <1>2 DEF RowOk
  <2>2. ASSUME rows[i].status = "dry_run", <<rows[i].delivery, rows[i].target>> \in sent
        PROVE  FALSE
    <3>1. PICK q \in s.requests : q.id = rows[i].delivery /\ q.dryRun
      BY <1>2, <2>2 DEF RowOk
    <3>2. PICK p \in s.requests : p.id = rows[i].delivery /\ ~p.dryRun
      BY <1>3, <2>2 DEF Received
    <3>. QED
      BY <3>1, <3>2, SceneAssumption
  <2>3. IsRetry(rows[i].of) => \E j \in 1 .. i - 1 : /\ rows[j].delivery = rows[i].of /\ rows[j].status = "failed"
                                                 /\ rows[j].target = rows[i].target
    BY <1>2 DEF RowOk, Failed
  <2>4. UpTo(Alikes(rows, rows[i].target, rows[i].key), i)
          = {j \in 1 .. i : rows[j].target = rows[i].target /\ rows[j].key = rows[i].key}
    BY <1>1 DEF UpTo, Alikes
  <2>5. "delivery" \notin mixed => rows[i].attempt = Cardinality(UpTo(Alikes(rows, rows[i].target, rows[i].key), i))
    BY <1>4 DEF Attempts
  <2>. QED
    BY <2>1, <2>2, <2>3, <2>4, <2>5
<1>7. ASSUME NEW x \in sent, outcome[x[1]] = 200
      PROVE  \E i \in DOMAIN rows : rows[i].delivery = x[1] /\ rows[i].target = x[2]
  <2>1. outcome[x[1]] # Lost
    BY <1>7 DEF Lost
  <2>2. ASSUME NEW t \in Threads, AtHand(h[t], x)
        PROVE  FALSE
    <3>1. Busy(t) /\ h[t].r.id = x[1]
      BY <2>2 DEF AtHand, Busy
    <3>. QED
      BY <1>7, <3>1 DEF Base, Open
  <2>3. HasRow(rows, x)
    BY <1>3, <2>1, <2>2 DEF Accounted
  <2>. QED
    BY <2>3 DEF HasRow
<1>. QED
  BY <1>5, <1>6, <1>7, Zenon DEF DeliveryRowsTrue, rows, IsRetry

------------------------------------------------------------------------------
(* Retention. *)

\* A retention that has the server for itself.
LEMMA RetainsAlone ==
  ASSUME NEW s \in Scenes, Base(s), NEW t \in Threads, NEW u \in Threads, Busy(t), Retains(h[u]), u # t
  PROVE  FALSE
<1>1. Busy(u) /\ h[u].alone
  BY DEF Retains, Busy, Deleting
<1>. QED
  BY <1>1 DEF Base

\* A step that leaves a retention what it has seen and is to delete.
LEMMA RetentionStays ==
  ASSUME NEW x, NEW w, RetentionOk(w, files), x.seen = w.seen, x.r = w.r, x.stamp = w.stamp, Left(x) = Left(w),
         w.bad \subseteq x.bad, \A f \in SnapshotFiles(w.seen) : f \in DOMAIN files' <=> f \in DOMAIN files
  PROVE  RetentionOk(x, files')
<1>1. \A f : GoesIn(x, f) <=> GoesIn(w, f)
  BY DEF GoesIn
<1>. QED
  BY <1>1 DEF RetentionOk

\* One snapshot is deleted, was not there or is reported as failed.
LEMMA RetentionDeletes ==
  ASSUME NEW x, NEW w, RetentionOk(w, files), x.seen = w.seen, x.r = w.r, x.stamp = w.stamp,
         IsList(w.ids), w.ids # <<>>, Left(w) = w.ids, Left(x) = Tail(w.ids), w.bad \subseteq x.bad,
         \/ DOMAIN files' = DOMAIN files \ {Head(w.ids)}
         \/ DOMAIN files' = DOMAIN files /\ Head(w.ids) \in x.bad
  PROVE  RetentionOk(x, files')
<1>1. \A f : GoesIn(x, f) <=> GoesIn(w, f)
  BY DEF GoesIn
<1>. DEFINE n == Len(w.ids)
           ids == Tail(w.ids)
<1>2. /\ n \in Nat /\ n # 0 /\ DOMAIN w.ids = 1 .. n /\ Head(w.ids) = w.ids[1]
      /\ IsList(ids) /\ Len(ids) = n - 1 /\ \A i \in 1 .. Len(ids) : ids[i] = w.ids[i + 1]
  BY ListFacts
<1>3. DOMAIN ids = 1 .. n - 1 /\ \A i \in 1 .. n - 1 : ids[i] = w.ids[i + 1]
  BY <1>2, ListFacts
<1>. HIDE DEF n, ids
<1>4. \A k \in 1 .. n : GoesIn(w, w.ids[k])
  BY <1>2 DEF RetentionOk
<1>5. \A k \in 1 .. n - 1 : GoesIn(w, ids[k])
  <2>1. \A k \in 1 .. n - 1 : k + 1 \in 1 .. n
    BY <1>2
  <2>. QED
    BY <1>3, <1>4, <2>1
<1>6. \A k \in 1 .. n : w.ids[k] = Head(w.ids) \/ \E j \in 1 .. n - 1 : ids[j] = w.ids[k]
  <2>1. \A k \in 1 .. n : k = 1 \/ (k - 1 \in 1 .. n - 1 /\ k - 1 + 1 = k)
    BY <1>2
  <2>2. \A k \in 1 .. n : k = 1 \/ ids[k - 1] = w.ids[k]
    BY <1>3, <2>1
  <2>. QED
    BY <1>2, <2>1, <2>2
<1>7. ASSUME NEW f \in SnapshotFiles(w.seen), f \in DOMAIN files', GoesIn(w, f)
      PROVE  f \in x.bad \/ \E j \in 1 .. n - 1 : ids[j] = f
  <2>1. f \in DOMAIN files /\ (f = Head(w.ids) => f \in x.bad)
    BY <1>7
  <2>2. f \in w.bad \/ \E k \in 1 .. n : w.ids[k] = f
    BY <1>2, <1>7, <2>1 DEF RetentionOk
  <2>. QED
    BY <1>6, <2>1, <2>2
<1>8. ASSUME NEW f \in SnapshotFiles(w.seen), f \notin DOMAIN files'
      PROVE  GoesIn(w, f)
  <2>1. CASE f = Head(w.ids)
    BY <1>2, <1>4, <2>1
  <2>2. CASE f # Head(w.ids)
    BY <1>8, <2>2 DEF RetentionOk
  <2>. QED
    BY <2>1, <2>2
<1>9. Left(x) = ids
  BY DEF ids
<1>10. \A k \in DOMAIN Left(x) : GoesIn(x, Left(x)[k])
  BY <1>1, <1>3, <1>5, <1>9
<1>11. \A f \in SnapshotFiles(x.seen) :
         f \in DOMAIN files' /\ GoesIn(x, f) => f \in x.bad \/ \E k \in DOMAIN Left(x) : Left(x)[k] = f
  BY <1>1, <1>3, <1>7, <1>9
<1>12. \A f \in SnapshotFiles(x.seen) : f \notin DOMAIN files' => GoesIn(x, f)
  BY <1>1, <1>8
<1>. QED
  BY <1>10, <1>11, <1>12 DEF RetentionOk

\* What a thread does for a retention.
LEMMA RetentionActions ==
  ASSUME NEW t \in Threads, Work(h[t]), h[t].r.kind = "retention", Serve(t)
  PROVE  \/ Retention(t) \/ DeleteOne(t) \/ Unlink(t) \/ LookForMarkdown(t) \/ DeleteMarkdown(t) \/ DeleteFails(t)
         \/ EndEach(t) \/ AuditWritten(t) \/ AuditFails(t)
<1>1. ~(h[t].at \in {"write", "fill", "markdown", "log", "deliver", "row", "spawn", "stop"})
  BY DEF Work, Edits, RunControls
<1>2. ~Truncate(t) /\ ~(SaveSnapshot(t) \/ Import(t) \/ FillSnapshot(t) \/ WriteMarkdown(t) \/ SnapshotWriteFails(t)
                        \/ BeginEach(t) \/ EditOne(t))
  BY <1>1 DEF Truncate, SaveSnapshot, Import, FillSnapshot, WriteMarkdown, SnapshotWriteFails, BeginEach, EditOne, Deletes
<1>3. ~RunStep(t)
  BY <1>1 DEF RunStep, Check, Trigger, LaunchFails, TriggerStop, RunControls
<1>4. ~TrustStep(t)
  BY <1>1 DEF TrustStep, Approve, UpdateWorkflow, ActOnWorkflow, FillWorkflow, WorkflowWriteFails, LogAction, Send, Resend,
         DryRun, Rejected, Delivered, PostFails, FileFails, AppendRow, CloseDelivery, AtTarget
<1>. QED
  BY <1>2, <1>3, <1>4 DEF Serve, SnapshotStep

\* A retention chooses what is to go.
LEMMA RetentionBegins ==
  ASSUME NEW s \in Scenes, Base(s), Snapshots1, NEW t \in Threads, Ready(s, t), Retention(t), Retains(h'[t])
  PROVE  RetentionOk(h'[t], files')
<1>1. /\ h[t].at = "begin" /\ h[t].r.kind = "retention" /\ h[t].r \in s.requests /\ now \in Nat /\ DOMAIN h = Threads
      /\ DOMAIN h[t] = Fields
  BY DEF Retention, Ready, Work
<1>2. CASE Fails(t, 400)
  <2>. DEFINE x == [h[t] EXCEPT !.at = "audit", !.status = 400]
  <2>1. x.at = "audit" /\ x.status = 400
    BY <1>1 DEF Fields
  <2>2. h'[t] = x
    BY <1>1, <1>2 DEF Fails, Becomes
  <2>. HIDE DEF x
  <2>. QED
    BY <2>1, <2>2 DEF Retains
<1>3. CASE Ends(t, Dropped)
  <2>1. h'[t] = Idle
    BY <1>1, <1>3 DEF Ends, Becomes
  <2>. QED
    BY <2>1, IdleWorks DEF Retains, Deleting
<1>4. CASE ~ Fails(t, 400) /\ ~ Ends(t, Dropped)
  <2>. DEFINE ids == IF h[t].r.dryRun THEN <<>> ELSE Matched(files, h[t].r, now)
              x == [h[t] EXCEPT !.at = "next", !.seen = files, !.stamp = now, !.ids = ids]
  <2>1. h'[t] = x /\ files' = files
    <3>1. Becomes(t, x) /\ files' = files
      BY ZenonT(30), <1>4 DEF Retention, disk
    <3>. QED
      BY <1>1, <3>1 DEF Becomes
  <2>2. /\ ~h[t].r.dryRun =>
             /\ IsList(ids) /\ ids \in Seq(Candidates(files, h[t].r))
             /\ \A k \in 1 .. Len(ids) : Goes(files, h[t].r, now, ids[k])
             /\ \A f \in Candidates(files, h[t].r) : Goes(files, h[t].r, now, f) => \E k \in 1 .. Len(ids) : ids[k] = f
        /\ h[t].r.dryRun => ids = <<>>
    BY <1>1, RetentionChoice
  <2>. HIDE DEF ids
  <2>3. x.at = "next" /\ x.ids = ids /\ x.stamp = now /\ x.seen = files /\ x.r = h[t].r
    BY <1>1 DEF Fields
  <2>. HIDE DEF x
  <2>4. Left(x) = ids
    BY <2>3 DEF Left
  <2>5. \A f : GoesIn(x, f) <=> f \in Candidates(files, h[t].r) /\ ~h[t].r.dryRun /\ Goes(files, h[t].r, now, f)
    BY <2>3 DEF GoesIn
  <2>6. CASE h[t].r.dryRun
    <3>1. DOMAIN ids = {}
      BY <2>2, <2>6, EmptyList, ListFacts
    <3>. QED
      BY <2>1, <2>3, <2>4, <2>5, <2>6, <3>1 DEF RetentionOk, SnapshotFiles
  <2>7. CASE ~h[t].r.dryRun
    <3>1. DOMAIN ids = 1 .. Len(ids) /\ \A k \in 1 .. Len(ids) : ids[k] \in Candidates(files, h[t].r)
      BY <2>2, <2>7, ListFacts
    <3>2. \A k \in DOMAIN ids : GoesIn(x, ids[k])
      BY <2>2, <2>5, <2>7, <3>1
    <3>3. \A f : GoesIn(x, f) => \E k \in DOMAIN ids : ids[k] = f
      BY <2>2, <2>5, <2>7, <3>1
    <3>4. \A f \in SnapshotFiles(files) : f \in DOMAIN files
      BY DEF SnapshotFiles
    <3>. QED
      BY <2>1, <2>3, <2>4, <3>2, <3>3, <3>4 DEF RetentionOk
  <2>. QED
    BY <2>6, <2>7
<1>. QED
  BY <1>2, <1>3, <1>4

\* It is done with a snapshot of which the file is away or reported as failed.
LEMMA RetentionSkips ==
  ASSUME NEW t \in Threads, Work(h[t]), Retention1, h[t].r.kind = "retention", Retains(h'[t]),
         h[t].at \in {"next", "unlink"}, h[t].ids # <<>>, NEW status, h'[t] = Skipped(h[t], status),
         DOMAIN files' = DOMAIN files \ {Head(h[t].ids)} \/ files' = files
  PROVE  RetentionOk(h'[t], files')
<1>. DEFINE x == h'[t]
<1>1. /\ x.at = "next" /\ x.ids = Tail(h[t].ids) /\ x.bad = h[t].bad \cup {Head(h[t].ids)}
      /\ x.seen = h[t].seen /\ x.r = h[t].r /\ x.stamp = h[t].stamp /\ x.alone = h[t].alone
  BY SkippedShape DEF Fields
<1>. HIDE DEF x
<1>2. Left(x) = Tail(h[t].ids) /\ Left(h[t]) = h[t].ids /\ RetentionOk(h[t], files) /\ IsList(h[t].ids)
  BY <1>1 DEF x, Left, Retention1, Retains, Work, Deleting
<1>3. RetentionOk(x, files')
  BY <1>1, <1>2, RetentionDeletes
<1>. QED
  BY <1>3 DEF x

\* It is done with a snapshot whose file it has removed.
LEMMA RetentionPasses ==
  ASSUME NEW t \in Threads, Work(h[t]), Retention1, h[t].r.kind = "retention", Retains(h'[t]),
         h[t].at \in {"look", "unmark"}, NEW status, h'[t] \in {Skipped(h[t], status), Deleted(h[t])},
         \A f \in SnapshotFiles(h[t].seen) : f \in DOMAIN files' <=> f \in DOMAIN files
  PROVE  RetentionOk(h'[t], files')
<1>. DEFINE x == h'[t]
<1>1. /\ x.at = "next" /\ x.ids = Tail(h[t].ids) /\ h[t].bad \subseteq x.bad
      /\ x.seen = h[t].seen /\ x.r = h[t].r /\ x.stamp = h[t].stamp /\ x.alone = h[t].alone
  BY SkippedShape, DeletedShape DEF Fields
<1>. HIDE DEF x
<1>2. Left(x) = Left(h[t]) /\ RetentionOk(h[t], files)
  BY <1>1 DEF x, Left, Retention1, Retains, Deleting
<1>3. RetentionOk(x, files')
  BY <1>1, <1>2, RetentionStays
<1>. QED
  BY <1>3 DEF x

\* It goes on, alone.
LEMMA RetentionServed ==
  ASSUME NEW s \in Scenes, Base(s), Snapshots1, Retention1, NEW t \in Threads, Ready(s, t), Serve(t), Retains(h'[t]),
         h[t].r.kind = "retention"
  PROVE  RetentionOk(h'[t], files')
<1>1. /\ Work(h[t]) /\ DOMAIN h = Threads /\ DOMAIN h[t] = Fields
  BY DEF Ready, Work
<1>2. CASE Retention(t)
  BY <1>2, RetentionBegins
<1>3. CASE AuditWritten(t) \/ AuditFails(t)
  <2>1. h'[t] = Idle
    BY <1>1, <1>3 DEF AuditWritten, AuditFails, Ends, Becomes
  <2>. QED
    BY <2>1, IdleWorks DEF Retains, Deleting
<1>4. CASE EndEach(t)
  <2>. DEFINE bulk == h[t].r.kind = "bulk"
              status == IF bulk THEN IF h[t].bad # {} /\ h[t].hits = 0 THEN 422 ELSE 200
                        ELSE IF h[t].r.kind = "retention" THEN 200 ELSE h[t].status
              x == [h[t] EXCEPT !.at = "audit", !.status = status]
  <2>1. h[t].at = "next" /\ h[t].ids = <<>> /\ h'[t] = x /\ files' = files
    BY <1>1, <1>4 DEF EndEach, Becomes, disk
  <2>. HIDE DEF status
  <2>2. /\ x.at = "audit" /\ x.seen = h[t].seen /\ x.r = h[t].r /\ x.stamp = h[t].stamp /\ x.ids = h[t].ids
        /\ x.alone = h[t].alone /\ x.bad = h[t].bad
    BY <1>1 DEF Fields
  <2>. HIDE DEF x
  <2>3. Left(x) = Left(h[t]) /\ RetentionOk(h[t], files)
    BY <2>1, <2>2 DEF Left, Retention1, Retains
  <2>. QED
    BY <2>1, <2>2, <2>3, RetentionStays
<1>5. CASE DeleteOne(t)
  <2>1. h[t].at = "next" /\ h[t].ids # <<>> /\ IsList(h[t].ids) /\ Left(h[t]) = h[t].ids
    BY <1>1, <1>5 DEF DeleteOne, Work, Left
  <2>2. CASE Next1(t, 404) /\ Head(h[t].ids) \notin DOMAIN files
    <3>1. h'[t] = Skipped(h[t], 404) /\ DOMAIN files' = DOMAIN files \ {Head(h[t].ids)}
      BY <1>1, <2>2 DEF Next1, Becomes, disk
    <3>. QED
      BY <1>1, <2>1, <3>1, RetentionSkips
  <2>3. CASE files' = files /\ Becomes(t, [h[t] EXCEPT !.at = "unlink"])
    <3>. DEFINE x == [h[t] EXCEPT !.at = "unlink"]
    <3>1. h'[t] = x
      BY <1>1, <2>3 DEF Becomes
    <3>2. /\ x.at = "unlink" /\ x.seen = h[t].seen /\ x.r = h[t].r /\ x.stamp = h[t].stamp /\ x.ids = h[t].ids
          /\ x.alone = h[t].alone /\ x.bad = h[t].bad
      BY <1>1 DEF Fields
    <3>. HIDE DEF x
    <3>3. Left(x) = Left(h[t]) /\ RetentionOk(h[t], files)
      BY <2>1, <3>1, <3>2 DEF Left, Retention1, Retains
    <3>. QED
      BY <2>3, <3>1, <3>2, <3>3, RetentionStays
  <2>. QED
    BY <1>5, <2>2, <2>3 DEF DeleteOne, disk
<1>6. CASE Unlink(t)
  <2>. DEFINE x == [h[t] EXCEPT !.at = "look"]
  <2>1. /\ h[t].at = "unlink" /\ h[t].ids # <<>> /\ IsList(h[t].ids) /\ Left(h[t]) = h[t].ids
        /\ h'[t] = x /\ DOMAIN files' = DOMAIN files \ {Head(h[t].ids)}
    BY <1>1, <1>6 DEF Unlink, Becomes, Work, Left, Deleting, Drop
  <2>2. /\ x.at = "look" /\ x.seen = h[t].seen /\ x.r = h[t].r /\ x.stamp = h[t].stamp /\ x.ids = h[t].ids
        /\ x.alone = h[t].alone /\ x.bad = h[t].bad
    BY <1>1 DEF Fields
  <2>. HIDE DEF x
  <2>3. Left(x) = Tail(h[t].ids) /\ RetentionOk(h[t], files)
    BY <2>1, <2>2 DEF Left, Retention1, Retains, Deleting
  <2>. QED
    BY <2>1, <2>2, <2>3, RetentionDeletes
<1>7. CASE LookForMarkdown(t)
  <2>1. h[t].at = "look" /\ files' = files
    BY <1>7 DEF LookForMarkdown, disk
  <2>2. CASE Becomes(t, Deleted(h[t]))
    <3>1. h'[t] = Deleted(h[t])
      BY <1>1, <2>2 DEF Becomes
    <3>. QED
      BY <1>1, <2>1, <3>1, RetentionPasses
  <2>3. CASE Becomes(t, [h[t] EXCEPT !.at = "unmark"])
    <3>. DEFINE x == [h[t] EXCEPT !.at = "unmark"]
    <3>1. h'[t] = x
      BY <1>1, <2>3 DEF Becomes
    <3>2. /\ x.at = "unmark" /\ x.seen = h[t].seen /\ x.r = h[t].r /\ x.stamp = h[t].stamp /\ x.ids = h[t].ids
          /\ x.alone = h[t].alone /\ x.bad = h[t].bad
      BY <1>1 DEF Fields
    <3>. HIDE DEF x
    <3>3. Left(x) = Left(h[t]) /\ RetentionOk(h[t], files)
      BY <2>1, <3>1, <3>2 DEF Left, Retention1, Retains, Deleting
    <3>. QED
      BY <2>1, <3>1, <3>2, <3>3, RetentionStays
  <2>. QED
    BY <1>7, <2>2, <2>3 DEF LookForMarkdown
<1>8. CASE DeleteMarkdown(t)
  <2>1. /\ h[t].at = "unmark" /\ h'[t] = Deleted(h[t]) /\ files' = Drop(files, Markdown(Head(h[t].ids)))
        /\ h[t].ids # <<>>
    BY <1>1, <1>8 DEF DeleteMarkdown, Becomes, Work, Deleting
  <2>2. Head(h[t].ids) \in SnapshotName
    BY <2>1, HeadIsName DEF Deleting
  <2>3. Markdown(Head(h[t].ids)).dir # Dir
    BY <2>2 DEF Markdown, SnapshotName, Dir
  <2>4. \A f \in SnapshotFiles(h[t].seen) : f \in DOMAIN files' <=> f \in DOMAIN files
    BY <2>1, <2>3 DEF SnapshotFiles, Drop
  <2>. QED
    BY <1>1, <2>1, <2>4, RetentionPasses
<1>9. CASE DeleteFails(t)
  <2>1. h[t].at \in {"unlink", "unmark"} /\ h'[t] = Skipped(h[t], 422) /\ files' = files
    BY <1>1, <1>9 DEF DeleteFails, Becomes, disk
  <2>2. CASE h[t].at = "unlink"
    <3>1. h[t].ids # <<>> /\ IsList(h[t].ids)
      BY <1>1, <2>2 DEF Work, Deleting
    <3>. QED
      BY <1>1, <2>1, <2>2, <3>1, RetentionSkips
  <2>3. CASE h[t].at = "unmark"
    BY <1>1, <2>1, <2>3, RetentionPasses
  <2>. QED
    BY <2>1, <2>2, <2>3
<1>. QED
  BY <1>1, <1>2, <1>3, <1>4, <1>5, <1>6, <1>7, <1>8, <1>9, RetentionActions

\* Every step keeps what is said of retentions that nobody disturbed.
LEMMA RetentionsKept ==
  ASSUME NEW s \in Scenes, Base(s), Answers1, Snapshots1, Retention1, [ServerNext]_serverVars
  PROVE  Retention1'
<1>. SUFFICES ASSUME NEW u \in Threads, Retains(h'[u])
              PROVE  RetentionOk(h'[u], files')
  BY DEF Retention1
<1>0. DOMAIN h = Threads
  BY DEF Base
<1>1. ASSUME NEW t \in Threads, Serve(t)
      PROVE  RetentionOk(h'[u], files')
  <2>1. Busy(t) /\ Ready(s, t) /\ Steps(t)
    BY <1>1, ServeIsReady, ServeSteps
  <2>2. \A v \in Threads \ {t} : h'[v] = h[v]
    BY <2>1 DEF Steps, Continues, Finishes, Stays
  <2>3. u = t
    BY <2>1, <2>2, RetainsAlone
  <2>4. h[t].r.kind = "retention"
    BY <2>1, <2>3, IdleWorks DEF Steps, Continues, Finishes, Retains, Deleting
  <2>. QED
    BY <1>1, <2>1, <2>3, <2>4, RetentionServed
<1>2. ASSUME h'[u] = h[u], DOMAIN files' = DOMAIN files
      PROVE  RetentionOk(h'[u], files')
  <2>1. RetentionOk(h[u], files)
    BY <1>2 DEF Retention1
  <2>. QED
    BY <1>2, <2>1, RetentionStays
<1>3. ASSUME NEW t \in Threads, NEW r \in todo, Taken(t, r)
      PROVE  FALSE
  <2>1. /\ h'[t].at \in {"audit", "begin"} /\ h'[t].status = (IF h'[t].at = "audit" THEN 403 ELSE 200)
        /\ \A v \in Threads \ {t} : (Busy(v)' <=> Busy(v)) /\ (Busy(v) => ~h'[v].alone)
    BY <1>3, TakenShape
  <2>2. Busy(u)' /\ h'[u].alone
    BY DEF Retains, Busy, Deleting
  <2>3. u = t
    BY <2>1, <2>2
  <2>. QED
    BY <2>1, <2>3 DEF Retains, Deleting
<1>4. ASSUME NEW t \in Threads, NEW r \in todo, NEW status, TurnedAway(t, r, status)
      PROVE  RetentionOk(h'[u], files')
  BY <1>2, <1>4 DEF TurnedAway, disk
<1>5. CASE Die
  <2>1. h'[u] = Idle
    BY <1>5 DEF Die
  <2>. QED
    BY <2>1, IdleWorks DEF Retains, Deleting
<1>6. CASE Aside
  <2>1. h' = h /\ (Alter \/ files' = files)
    BY <1>6, AsideLeaves
  <2>2. Alter => DOMAIN files' = DOMAIN files
    BY DEF Alter
  <2>. QED
    BY <1>2, <2>1, <2>2
<1>7. CASE UNCHANGED serverVars
  BY <1>2, <1>7 DEF serverVars, disk
<1>. QED
  BY <1>1, <1>3, <1>4, <1>5, <1>6, <1>7 DEF ServerNext, Arrive, Malformed, Forbidden, Aside

\* What is said of retentions follows.
LEMMA RetentionsAreTrue ==
  ASSUME Retention1
  PROVE  RetentionKeepsNewest
<1>. SUFFICES ASSUME NEW t \in Threads, h[t].at = "audit", h[t].r.kind = "retention", h[t].status = 200, h[t].alone,
                     NEW f \in SnapshotFiles(h[t].seen)
              PROVE  LET r == h[t].r
                         fs == h[t].seen
                         newer == {g \in Candidates(fs, r) : fs[g].persisted > fs[f].persisted
                                      \/ (fs[g].persisted = fs[f].persisted /\ NameBefore(f, g))}
                         goes == /\ f \in Candidates(fs, r) /\ ~r.dryRun
                                 /\ \/ \E k \in Limits(r.keep) : Cardinality(newer) >= k
                                    \/ \E a \in Limits(r.maxAge) : fs[f].persisted > 0 /\ h[t].stamp > fs[f].persisted + a
                     IN IF goes THEN f \in DOMAIN files => f \in h[t].bad ELSE f \in DOMAIN files
  BY DEF RetentionKeepsNewest
<1>1. Left(h[t]) = <<>> /\ RetentionOk(h[t], files)
  BY DEF Left, Retention1, Retains
<1>2. DOMAIN Left(h[t]) = {}
  BY <1>1, EmptyList, ListFacts
<1>3. IF GoesIn(h[t], f) THEN f \in DOMAIN files => f \in h[t].bad ELSE f \in DOMAIN files
  BY <1>1, <1>2 DEF RetentionOk
<1>. DEFINE r == h[t].r
            fs == h[t].seen
<1>4. {g \in Candidates(fs, r) : fs[g].persisted > fs[f].persisted
         \/ (fs[g].persisted = fs[f].persisted /\ NameBefore(f, g))} = Newer(fs, r, f)
  BY DEF Newer, Younger, Older
<1>. QED
  BY <1>3, <1>4, Zenon DEF GoesIn, Goes

------------------------------------------------------------------------------
(* What holds of the server, however many threads, requests, targets and      *)
(* snapshots it has and whatever its first files are.                         *)

\* The invariant holds at the start.
LEMMA ServerInvStarts ==
  ASSUME ServerInit
  PROVE  ServerInv
<1>1. PICK s \in Scenes : RequestsInit(s) /\ origin = s.origin
  BY DEF ServerInit
<1>. QED
  BY <1>1, ServerStarts DEF ServerInv

\* Every step keeps it.
LEMMA ServerInvKept ==
  ASSUME ServerInv, [ServerNext]_serverVars
  PROVE  ServerInv'
<1>1. PICK s \in Scenes : Base(s) /\ Answers1 /\ Snapshots1 /\ Delivery1(s) /\ Retention1
  BY DEF ServerInv
<1>2. Base(s)' /\ Answers1'
  BY <1>1, AnswersKept
<1>3. Snapshots1'
  BY <1>1, SnapshotsKept
<1>4. Delivery1(s)'
  BY <1>1, DeliveriesKept
<1>5. Retention1'
  BY <1>1, RetentionsKept
<1>. QED
  BY <1>2, <1>3, <1>4, <1>5 DEF ServerInv

(* The records of the threads, the files, the logs of deliveries and the      *)
(* answers stay together as the invariant says, through every interleaving of *)
(* the handlers, the death of the server and edits behind its back.           *)
THEOREM ServerInvariance == ServerSpec => []ServerInv
<1>1. ServerInit => ServerInv
  BY ServerInvStarts
<1>2. ServerInv /\ [ServerNext]_serverVars => ServerInv'
  BY ServerInvKept
<1>. QED
  BY <1>1, <1>2, PTL DEF ServerSpec

(* The integrity mark of a snapshot saved with markdown is good exactly as    *)
(* long as its content is what was saved, through every edit by any thread.   *)
THEOREM IntegrityKept == ServerSpec => []IntegrityTrue
<1>1. ServerInv => IntegrityTrue
  BY MarksAreTrue DEF ServerInv
<1>. QED
  BY <1>1, ServerInvariance, PTL

(* After a retention that nobody disturbed, the snapshots that are too old or *)
(* have enough newer ones beside them, by the limits as the code reads them,  *)
(* are gone or reported as failed, and no other snapshot is gone.             *)
THEOREM RetentionExact == ServerSpec => []RetentionKeepsNewest
<1>1. ServerInv => RetentionKeepsNewest
  BY RetentionsAreTrue DEF ServerInv
<1>. QED
  BY <1>1, ServerInvariance, PTL

(* The rows of the delivery log tell what the targets received, which retry   *)
(* went where and, if deliveries did not overlap, which attempt it was.       *)
THEOREM DeliveryRowsKept == ServerSpec => []DeliveryRowsTrue
<1>1. ServerInv => DeliveryRowsTrue
  BY RowsAreTrue DEF ServerInv
<1>. QED
  BY <1>1, ServerInvariance, PTL

(* A request refused with 400, 403 or 404 has changed nothing, one answered   *)
(* with 422 has changed nothing or stopped halfway in its work on a file, and *)
(* one that changed something and was answered is audited as it ended.        *)
THEOREM AnswersKeepTrue == ServerSpec => []AnswersAreTrue
<1>1. ServerInv => AnswersAreTrue
  BY DEF ServerInv, Answers1
<1>. QED
  BY <1>1, ServerInvariance, PTL

------------------------------------------------------------------------------
(* The process table: its rows keep their place in the retry chain, an end is *)
(* true and final, and the state file follows the table.                      *)

(* The types of the table, its file and the children. *)
Typed ==
  /\ items \in [Ids -> Item \cup {None}]
  /\ file \in [Ids -> Item \cup {None}]
  /\ child \in [Ids -> Children]
  /\ busy \in Operation \cup {None}
  /\ restarts \in 0..MaxRestarts

SameOrigin(a, b) ==
  /\ a.retryOf = b.retryOf /\ a.root = b.root /\ a.attempt = b.attempt
  /\ a.corr = b.corr /\ a.run = b.run

(* Only a child that was started has a row. *)
Started == \A i \in Known : child[i] # "none"

(* The operation in progress and the row it is about. *)
InProgress ==
  busy # None =>
    \/ /\ busy.op = "spawn"
       /\ child[busy.id] # "none" /\ items[busy.id] = None
       /\ LET p == busy.request.retryOf
          IN  p # None => /\ p \in Known
                          /\ busy.request.run = items[p].run
                          /\ Duplicates(p, busy.request.corr) = {}
    \/ /\ busy.op \in {"terminate", "kill"}
       /\ items[busy.id] # None
       /\ items[busy.id].state = "stopping"

(* The row of the file and the row of the table. *)
FileRows ==
  \A i \in Ids :
    /\ items[i] = None <=> file[i] = None
    /\ items[i] # None =>
         /\ SameOrigin(file[i], items[i]) /\ ~file[i].handle
         /\ \/ file[i].state = items[i].state
            \/ items[i].state = "stopping" /\ file[i].state \notin Ended

(* No two rows are of one retry request. *)
OneEntryPerRequest ==
  \A i, j \in Known :
    /\ items[i].retryOf # None
    /\ items[i].retryOf = items[j].retryOf
    /\ items[i].corr = items[j].corr
    => i = j

TableInv ==
  /\ Typed /\ Started /\ InProgress /\ FileRows
  /\ RetryChain /\ OneEntryPerRequest /\ EndedIsTrue

(* What the rows say of the requests their children were started for; a      *)
(* child without a row is about to get one or was orphaned.                  *)
Remembered ==
  /\ asked \in [Ids -> Request \cup {None}] /\ orphaned \subseteq Ids
  /\ \A i \in Known : asked[i].retryOf = items[i].retryOf /\ asked[i].corr = items[i].corr
  /\ \A i \in Ids : Starting(i) => asked[i] = busy.request
  /\ \A i \in Ids : asked[i] # None => i \in Known \/ i \in orphaned \/ Starting(i)

IInv == TableInv /\ Remembered

----------------------------------------------------------------------------
(* What a step may do to a row. *)
RowKept(i) ==
  /\ items'[i] \in Item
  /\ SameOrigin(items'[i], items[i])
  /\ items[i].state \in Ended => items'[i].state = items[i].state
  /\ items'[i].state \in Ended => child[i] = "ended"

RowsKept == \A i \in Ids : IF items[i] = None THEN items'[i] = None ELSE RowKept(i)

(* A poll keeps an item's origin and an end it has already. *)
LEMMA Poll ==
  ASSUME Typed, EndedIsTrue, NEW i \in Known
  PROVE  /\ Refreshed(items[i], i) \in Item
         /\ SameOrigin(Refreshed(items[i], i), items[i])
         /\ Refreshed(items[i], i).handle = items[i].handle
         /\ items[i].state \in Ended => Refreshed(items[i], i) = items[i]
         /\ Refreshed(items[i], i).state \in Ended => child[i] = "ended"
         /\ Refreshed(items[i], i).state \in {items[i].state, "exited"}
<1>1. items[i] \in Item
  BY DEF Typed, Known
<1>. QED
  BY <1>1 DEF Refreshed, EndedIsTrue, SameOrigin, Item, States, Ended

(* A step that leaves the table alone keeps its rows. *)
LEMMA Unchanged ==
  ASSUME Typed, EndedIsTrue, items' = items
  PROVE  RowsKept
BY DEF RowsKept, RowKept, SameOrigin, Typed, EndedIsTrue, Known

(* The rows that matter to the retry chain survive a step that keeps rows. *)
LEMMA KeptInvariants ==
  ASSUME Typed, RetryChain, OneEntryPerRequest, RowsKept
  PROVE  /\ Known' = Known
         /\ \A i \in Known : items[i] \in Item /\ RowKept(i)
         /\ RetryChain' /\ OneEntryPerRequest'
         /\ \A p \in Ids, c \in Corrs : Duplicates(p, c)' = Duplicates(p, c)
<1>1. \A i \in Ids : items'[i] # None <=> items[i] # None
  BY NoneAssumption DEF RowsKept, RowKept
<1>2. Known' = Known
  BY <1>1 DEF Known
<1>3. \A i \in Known : items[i] \in Item /\ RowKept(i)
  BY DEF RowsKept, Typed, Known
<1>4. RetryChain'
  BY <1>2, <1>3 DEF RetryChain, RowKept, SameOrigin, Known
<1>5. OneEntryPerRequest'
  BY <1>2, <1>3 DEF OneEntryPerRequest, RowKept, SameOrigin, Known
<1>6. \A p \in Ids, c \in Corrs : Duplicates(p, c)' = Duplicates(p, c)
  BY <1>2, <1>3 DEF Duplicates, RowKept, SameOrigin, Known
<1>. QED
  BY <1>2, <1>3, <1>4, <1>5, <1>6

(* After a write the file is the table without its handles. *)
LEMMA Written ==
  ASSUME NEW table \in [Ids -> Item \cup {None}], Save(table)
  PROVE  /\ items' = table
         /\ file' \in [Ids -> Item \cup {None}]
         /\ FileRows'
<1>1. items' = table /\ file' = Persisted(table)
  BY DEF Save
<1>2. \A i \in Ids : table[i] = None => file'[i] = None
  BY <1>1 DEF Persisted
<1>3. \A i \in Ids : table[i] # None =>
        /\ table[i] \in Item
        /\ file'[i] = [table[i] EXCEPT !.handle = FALSE]
  BY <1>1 DEF Persisted
<1>4. \A i \in Ids : table[i] # None =>
        /\ file'[i] \in Item /\ ~file'[i].handle
        /\ SameOrigin(file'[i], table[i]) /\ file'[i].state = table[i].state
  BY ZenonT(60), <1>3 DEF Item, SameOrigin
<1>5. file' \in [Ids -> Item \cup {None}]
  <2>1. file' = [i \in Ids |-> file'[i]]
    BY <1>1 DEF Persisted
  <2>. QED
    BY <1>2, <1>4, <2>1
<1>6. FileRows'
  BY <1>1, <1>2, <1>4, NoneAssumption DEF FileRows
<1>. QED
  BY <1>1, <1>5, <1>6

(* One row changed, within what a row may do. *)
LEMMA OneRow ==
  ASSUME Typed, EndedIsTrue, NEW i \in Known, NEW it \in Item,
         SameOrigin(it, items[i]),
         items[i].state \in Ended => it.state = items[i].state,
         it.state \in Ended => child[i] = "ended",
         items' = [items EXCEPT ![i] = it]
  PROVE  /\ [items EXCEPT ![i] = it] \in [Ids -> Item \cup {None}]
         /\ RowsKept
BY DEF Typed, EndedIsTrue, Known, RowsKept, RowKept, SameOrigin

(* Every action but Register keeps the rows, and leaves a file that agrees *)
(* with them.                                                              *)
LEMMA GetKeeps ==
  ASSUME TableInv, NEW i \in Known, Save([items EXCEPT ![i] = Refreshed(@, i)])
  PROVE  RowsKept /\ items' \in [Ids -> Item \cup {None}]
         /\ file' \in [Ids -> Item \cup {None}] /\ FileRows'
<1>. DEFINE it == Refreshed(items[i], i)
<1>1. /\ it \in Item /\ SameOrigin(it, items[i])
      /\ items[i].state \in Ended => it.state = items[i].state
      /\ it.state \in Ended => child[i] = "ended"
  BY Poll DEF TableInv
<1>2. Save([items EXCEPT ![i] = it])
  OBVIOUS
<1>. HIDE DEF it
<1>3. items' = [items EXCEPT ![i] = it]
  BY <1>2 DEF Save
<1>4. /\ [items EXCEPT ![i] = it] \in [Ids -> Item \cup {None}]
      /\ RowsKept
  BY <1>1, <1>3, OneRow DEF TableInv
<1>. QED
  BY <1>2, <1>3, <1>4, Written

(* A retry polls its target and perhaps one of its earlier retries. *)
LEMMA RetryKeeps ==
  ASSUME TableInv, NEW target \in Known, NEW c \in Corrs \cup {None}, RetryOf(target, c)
  PROVE  /\ RowsKept /\ items' \in [Ids -> Item \cup {None}]
         /\ file' \in [Ids -> Item \cup {None}] /\ FileRows'
         /\ \/ UNCHANGED <<child, busy>>
            \/ \E corr \in Corrs :
                 /\ Duplicates(target, corr) = {}
                 /\ Popen([retryOf |-> target, corr |-> corr, run |-> items[target].run])
<1>. DEFINE corr   == IF c = None THEN items[target].corr ELSE c
            polled == [items EXCEPT ![target] = Refreshed(items[target], target)]
<1>1. items[target] \in Item /\ corr \in Corrs
  BY DEF TableInv, Typed, Known, Item
<1>2. CASE Duplicates(target, corr) = {}
  <2>1. Save(polled) /\ Popen([retryOf |-> target, corr |-> corr, run |-> items[target].run])
    BY <1>2 DEF RetryOf
  <2>. QED
    BY <1>1, <1>2, <2>1, GetKeeps
<1>3. CASE Duplicates(target, corr) # {}
  <2>1. PICK i \in Duplicates(target, corr) :
          Save([polled EXCEPT ![i] = Refreshed(polled[i], i)])
    BY <1>3 DEF RetryOf
  <2>2. UNCHANGED <<child, busy>>
    BY <1>3 DEF RetryOf
  <2>3. i \in Known /\ target \in Known
    BY DEF Duplicates
  <2>. DEFINE table == [polled EXCEPT ![i] = Refreshed(polled[i], i)]
  <2>4. \A j \in Known : items[j] \in Item
    BY DEF TableInv, Typed, Known
  <2>5. \A j \in Ids : j \notin {i, target} => table[j] = items[j]
    BY DEF TableInv, Typed
  <2>6. \A j \in {i, target} : table[j] = Refreshed(items[j], j)
    <3>1. \A j \in Known : Refreshed(Refreshed(items[j], j), j) = Refreshed(items[j], j)
      BY <2>4 DEF Refreshed, Ended, Item, States
    <3>. QED
      BY <2>3, <3>1 DEF TableInv, Typed, Known
  <2>7. table \in [Ids -> Item \cup {None}]
    <3>1. \A j \in Known : Refreshed(items[j], j) \in Item
      BY Poll DEF TableInv
    <3>2. table = [j \in Ids |-> table[j]]
      BY DEF TableInv, Typed
    <3>3. \A j \in Ids : table[j] \in Item \cup {None}
      BY <2>3, <2>5, <2>6, <3>1 DEF TableInv, Typed
    <3>. QED
      BY <3>2, <3>3
  <2>8. items' = table
    BY <2>1 DEF Save
  <2>. HIDE DEF table
  <2>9. RowsKept
    <3>1. \A j \in {i, target} : RowKept(j)
      BY <2>3, <2>6, <2>8, Poll DEF TableInv, RowKept
    <3>2. \A j \in Known : j \notin {i, target} => RowKept(j)
      BY <2>4, <2>5, <2>8 DEF RowKept, SameOrigin, TableInv, EndedIsTrue, Known
    <3>. QED
      BY <2>3, <2>5, <2>8, <3>1, <3>2 DEF RowsKept, Known
  <2>. QED
    BY <2>1, <2>2, <2>7, <2>8, <2>9, Written DEF table
<1>. QED
  BY <1>2, <1>3

----------------------------------------------------------------------------
(* One step.                                                               *)

ChildrenStay ==
  /\ \A i \in Ids : child[i] = "ended" => child'[i] = "ended"
  /\ \A i \in Ids : child[i] # "none" => child'[i] # "none"

(* Starting a child for a request that fits the table. *)
LEMMA PopenShape ==
  ASSUME TableInv, RowsKept, NEW request \in Request, Popen(request),
         request.retryOf # None => /\ request.retryOf \in Known
                                   /\ request.run = items[request.retryOf].run
                                   /\ Duplicates(request.retryOf, request.corr) = {}
  PROVE  /\ child' \in [Ids -> Children] /\ ChildrenStay
         /\ busy' \in Operation /\ InProgress' /\ Started'
<1>1. PICK i \in Ids : /\ child[i] = "none"
                       /\ child' = [child EXCEPT ![i] = "running"]
                       /\ busy' = [op |-> "spawn", id |-> i, request |-> request]
  BY DEF Popen
<1>2. items[i] = None /\ items'[i] = None
  BY <1>1 DEF TableInv, Started, Known, RowsKept
<1>3. child' \in [Ids -> Children] /\ ChildrenStay
  BY <1>1 DEF TableInv, Typed, Children, ChildrenStay
<1>4. busy' \in Operation
  BY <1>1 DEF Operation
<1>5. /\ Known' = Known
      /\ \A j \in Known : items[j] \in Item /\ RowKept(j)
      /\ \A p \in Ids, c \in Corrs : Duplicates(p, c)' = Duplicates(p, c)
  BY KeptInvariants DEF TableInv
<1>6. Started'
  BY <1>3, <1>5 DEF Started, ChildrenStay, TableInv, Known
<1>7. InProgress'
  <2>1. child'[i] # "none"
    BY <1>1 DEF TableInv, Typed
  <2>2. CASE request.retryOf = None
    BY <1>1, <1>2, <2>1, <2>2 DEF InProgress
  <2>3. CASE request.retryOf # None
    <3>1. request.retryOf \in Ids /\ request.corr \in Corrs
      BY <2>3 DEF Request
    <3>2. items'[request.retryOf].run = items[request.retryOf].run
      BY <1>5, <2>3 DEF RowKept, SameOrigin
    <3>. QED
      BY <1>1, <1>2, <1>5, <2>1, <2>3, <3>1, <3>2 DEF InProgress
  <2>. QED
    BY <2>2, <2>3
<1>. QED
  BY <1>3, <1>4, <1>6, <1>7

(* Every step but Register. *)
LEMMA StepKeeps ==
  ASSUME TableInv, [Next]_vars, ~Register
  PROVE  RowsKept /\ Typed' /\ Started' /\ InProgress' /\ FileRows' /\ ChildrenStay
<1>. DEFINE Goal == /\ RowsKept /\ Typed' /\ Started' /\ InProgress'
                    /\ FileRows' /\ ChildrenStay
<1>0. Typed /\ Started /\ InProgress /\ FileRows /\ EndedIsTrue
  BY DEF TableInv
<1>1. ASSUME RowsKept, UNCHANGED child, busy' = None
      PROVE  ChildrenStay /\ Started' /\ InProgress'
  <2>1. Known' = Known
    BY <1>1, KeptInvariants DEF TableInv
  <2>. QED
    BY <1>0, <1>1, <2>1 DEF ChildrenStay, Started, InProgress
<1>2. ASSUME UNCHANGED <<items, file>> PROVE RowsKept /\ FileRows'
  BY <1>0, <1>2, Unchanged DEF FileRows
<1>3. CASE Spawn
  <2>1. PICK c \in Corrs, r \in Runs : Popen([retryOf |-> None, corr |-> c, run |-> r])
    BY <1>3 DEF Spawn
  <2>2. [retryOf |-> None, corr |-> c, run |-> r] \in Request
    BY DEF Request
  <2>. QED
    BY <1>0, <1>2, <1>3, <2>1, <2>2, PopenShape DEF Spawn, Typed
<1>4. ASSUME NEW target \in Known, NEW c \in Corrs \cup {None}, busy = None,
             RetryOf(target, c), UNCHANGED restarts
      PROVE  Goal
  <2>1. /\ RowsKept /\ items' \in [Ids -> Item \cup {None}]
        /\ file' \in [Ids -> Item \cup {None}] /\ FileRows'
        /\ \/ UNCHANGED <<child, busy>>
           \/ \E corr \in Corrs :
                /\ Duplicates(target, corr) = {}
                /\ Popen([retryOf |-> target, corr |-> corr, run |-> items[target].run])
    BY <1>4, RetryKeeps
  <2>2. CASE UNCHANGED <<child, busy>>
    BY <1>0, <1>1, <1>4, <2>1, <2>2 DEF Typed
  <2>3. CASE \E corr \in Corrs :
               /\ Duplicates(target, corr) = {}
               /\ Popen([retryOf |-> target, corr |-> corr, run |-> items[target].run])
    <3>1. PICK corr \in Corrs :
            /\ Duplicates(target, corr) = {}
            /\ Popen([retryOf |-> target, corr |-> corr, run |-> items[target].run])
      BY <2>3
    <3>2. items[target] \in Item /\ target \in Ids
      BY <1>0 DEF Typed, Known
    <3>3. [retryOf |-> target, corr |-> corr, run |-> items[target].run] \in Request
      BY <3>2 DEF Request, Item
    <3>. QED
      BY <1>0, <1>4, <2>1, <3>1, <3>3, PopenShape DEF Typed
  <2>. QED
    BY <2>1, <2>2, <2>3
<1>5. ASSUME NEW i \in Ids, Stop(i) PROVE Goal
  <2>. DEFINE it == Refreshed(items[i], i)
  <2>1. i \in Known /\ busy = None
    BY <1>5 DEF Stop
  <2>2. /\ it \in Item /\ SameOrigin(it, items[i])
        /\ items[i].state \in Ended => it = items[i]
        /\ it.state \in Ended => child[i] = "ended"
    BY <1>0, <2>1, Poll
  <2>3. UNCHANGED <<child, restarts>>
    BY <1>5 DEF Stop
  <2>4. CASE it.state \in Ended
    <3>1. Save([items EXCEPT ![i] = it]) /\ busy' = None
      BY <1>5, <2>4 DEF Stop
    <3>2. RowsKept /\ items' \in [Ids -> Item \cup {None}]
          /\ file' \in [Ids -> Item \cup {None}] /\ FileRows'
      BY <2>1, <3>1, GetKeeps
    <3>. QED
      BY <1>0, <1>1, <2>3, <3>1, <3>2 DEF Typed
  <2>5. CASE it.state \notin Ended /\ ~it.handle
    <3>. DEFINE stopped == [it EXCEPT !.state = "stop_unavailable"]
    <3>1. Save([items EXCEPT ![i] = stopped]) /\ busy' = None
      BY <1>5, <2>5 DEF Stop
    <3>2. /\ stopped \in Item /\ SameOrigin(stopped, items[i])
          /\ stopped.state \notin Ended /\ items[i].state \notin Ended
      BY <2>2, <2>5 DEF Item, SameOrigin, States, Ended
    <3>. HIDE DEF stopped
    <3>3. items' = [items EXCEPT ![i] = stopped]
      BY <3>1 DEF Save
    <3>4. RowsKept /\ [items EXCEPT ![i] = stopped] \in [Ids -> Item \cup {None}]
      BY <1>0, <2>1, <3>2, <3>3, OneRow
    <3>5. file' \in [Ids -> Item \cup {None}] /\ FileRows'
      BY <3>1, <3>4, Written
    <3>. QED
      BY <1>0, <1>1, <2>3, <3>1, <3>3, <3>4, <3>5 DEF Typed
  <2>6. CASE it.state \notin Ended /\ it.handle
    <3>. DEFINE stopping == [it EXCEPT !.state = "stopping"]
    <3>1. /\ items' = [items EXCEPT ![i] = stopping]
          /\ busy' = [op |-> "terminate", id |-> i, request |-> None]
          /\ UNCHANGED file
      BY <1>5, <2>6 DEF Stop
    <3>2. /\ stopping \in Item /\ SameOrigin(stopping, items[i])
          /\ stopping.state = "stopping" /\ stopping.state \notin Ended
          /\ items[i].state \notin Ended
      BY <2>2, <2>6 DEF Item, SameOrigin, States, Ended
    <3>. HIDE DEF stopping
    <3>3. RowsKept /\ items' \in [Ids -> Item \cup {None}]
      BY <1>0, <2>1, <3>1, <3>2, OneRow
    <3>4. items'[i] = stopping
      BY <1>0, <3>1 DEF Typed
    <3>5. FileRows'
      <4>1. \A j \in Ids : j # i => items'[j] = items[j]
        BY <1>0, <3>1 DEF Typed
      <4>2. file'[i].state \notin Ended
        BY <1>0, <2>1, <3>1, <3>2 DEF FileRows, Known, Ended
      <4>3. SameOrigin(file'[i], items'[i]) /\ ~file'[i].handle /\ file'[i] # None
        BY <1>0, <2>1, <3>1, <3>2, <3>4 DEF FileRows, Known, SameOrigin
      <4>. QED
        BY <1>0, <3>1, <3>2, <3>4, <4>1, <4>2, <4>3, NoneAssumption DEF FileRows
    <3>6. busy' \in Operation
      BY <3>1 DEF Operation
    <3>7. InProgress'
      BY <3>1, <3>2, <3>4, NoneAssumption DEF InProgress
    <3>8. ChildrenStay /\ Started'
      BY <1>0, <2>3, <3>3, KeptInvariants DEF ChildrenStay, Started, TableInv
    <3>. QED
      BY <1>0, <2>3, <3>1, <3>3, <3>5, <3>6, <3>7, <3>8 DEF Typed
  <2>. QED
    BY <2>4, <2>5, <2>6
<1>6. ASSUME NEW i \in Ids, NEW s \in {"terminated", "killed"}, child[i] = "ended",
             NEW op \in {"terminate", "kill"}, Waiting(op, i),
             Save([items EXCEPT ![i].state = s]), busy' = None,
             UNCHANGED <<child, restarts>>
      PROVE  Goal
  <2>1. i \in Known /\ items[i].state = "stopping"
    BY <1>0, <1>6, NoneAssumption DEF InProgress, Waiting, Known, Typed, Operation
  <2>. DEFINE it == [items[i] EXCEPT !.state = s]
  <2>2. it \in Item /\ SameOrigin(it, items[i]) /\ items[i].state \notin Ended
    BY <1>0, <2>1 DEF Typed, Known, Item, SameOrigin, States, Ended
  <2>3. Save([items EXCEPT ![i] = it])
    BY <1>6
  <2>. HIDE DEF it
  <2>4. items' = [items EXCEPT ![i] = it]
    BY <2>3 DEF Save
  <2>5. RowsKept /\ [items EXCEPT ![i] = it] \in [Ids -> Item \cup {None}]
    BY <1>0, <1>6, <2>1, <2>2, <2>4, OneRow
  <2>6. file' \in [Ids -> Item \cup {None}] /\ FileRows'
    BY <2>3, <2>5, Written
  <2>. QED
    BY <1>0, <1>1, <1>6, <2>4, <2>5, <2>6 DEF Typed
<1>7. ASSUME NEW i \in Ids, StopWait(i) PROVE Goal
  <2>1. CASE StopGraceful(i)
    BY <1>6, <2>1 DEF StopGraceful
  <2>2. CASE StopForced(i)
    BY <1>6, <2>2 DEF StopForced
  <2>3. CASE StopKills(i)
    <3>1. busy' \in Operation /\ busy'.id = busy.id /\ busy'.op = "kill" /\ busy.op = "terminate"
      BY <2>3 DEF StopKills, Operation, Waiting
    <3>2. InProgress'
      <4>1. busy # None
        BY <2>3, NoneAssumption DEF StopKills, Waiting, Operation
      <4>2. busy' # None
        BY <3>1, NoneAssumption
      <4>. QED
        BY <1>0, <2>3, <3>1, <4>1, <4>2 DEF StopKills, InProgress
    <3>3. RowsKept /\ FileRows'
      BY <1>2, <2>3 DEF StopKills
    <3>. QED
      BY <1>0, <2>3, <3>1, <3>2, <3>3 DEF StopKills, Typed, Started, Known, ChildrenStay
  <2>4. CASE StopUnreaped(i)
    BY <1>0, <1>1, <1>2, <2>4 DEF StopUnreaped, Unreaped, Typed
  <2>. QED
    BY <1>7, <2>1, <2>2, <2>3, <2>4 DEF StopWait
<1>8. ASSUME NEW i \in Ids, Get(i) PROVE Goal
  <2>1. i \in Known /\ Save([items EXCEPT ![i] = Refreshed(@, i)])
        /\ busy' = None /\ UNCHANGED <<child, restarts>>
    BY <1>8 DEF Get
  <2>2. RowsKept /\ items' \in [Ids -> Item \cup {None}]
        /\ file' \in [Ids -> Item \cup {None}] /\ FileRows'
    BY <2>1, GetKeeps
  <2>. QED
    BY <1>0, <1>1, <2>1, <2>2 DEF Typed
<1>9. CASE List
  <2>. DEFINE polled == [i \in Ids |-> IF i \in Known THEN Refreshed(items[i], i) ELSE None]
  <2>1. Save(polled) /\ busy' = None /\ UNCHANGED <<child, restarts>>
    BY <1>9 DEF List
  <2>2. polled \in [Ids -> Item \cup {None}]
    BY <1>0, Poll
  <2>3. items' = polled
    BY <2>1 DEF Save
  <2>4. RowsKept
    BY <1>0, <2>3, Poll DEF RowsKept, RowKept, Known
  <2>5. file' \in [Ids -> Item \cup {None}] /\ FileRows'
    BY <2>1, <2>2, Written
  <2>. HIDE DEF polled
  <2>. QED
    BY <1>0, <1>1, <2>1, <2>2, <2>3, <2>4, <2>5 DEF Typed
<1>11. ASSUME NEW i \in Ids, ChildEnds(i) PROVE Goal
  <2>1. child' = [child EXCEPT ![i] = "ended"] /\ UNCHANGED <<items, file, busy, restarts>>
    BY <1>11 DEF ChildEnds
  <2>2. child' \in [Ids -> Children] /\ ChildrenStay
    BY <1>0, <2>1 DEF Typed, Children, ChildrenStay
  <2>3. Started'
    BY <1>0, <2>1, <2>2 DEF Started, Known, ChildrenStay
  <2>4. InProgress'
    BY <1>0, <2>1, <2>2, NoneAssumption
       DEF InProgress, Known, Duplicates, ChildrenStay, Typed, Operation
  <2>. QED
    BY <1>0, <1>2, <2>1, <2>2, <2>3, <2>4 DEF Typed
<1>12. CASE Restart
  <2>1. /\ items' = [i \in Ids |-> IF file[i] # None THEN Loaded(file[i]) ELSE None]
        /\ busy' = None /\ restarts' = restarts + 1 /\ restarts < MaxRestarts
        /\ UNCHANGED <<file, child>>
    BY <1>12 DEF Restart
  <2>2. \A i \in Ids : file[i] # None =>
          /\ items[i] \in Item /\ file[i] \in Item /\ items'[i] \in Item
          /\ SameOrigin(items'[i], file[i]) /\ items'[i].state = file[i].state
    <3>1. SUFFICES ASSUME NEW i \in Ids, file[i] # None
                   PROVE  /\ items[i] \in Item /\ file[i] \in Item /\ items'[i] \in Item
                          /\ SameOrigin(items'[i], file[i]) /\ items'[i].state = file[i].state
      OBVIOUS
    <3>2. items[i] \in Item /\ file[i] \in Item
      BY <1>0, <3>1 DEF Typed, FileRows
    <3>3. items'[i] = [file[i] EXCEPT !.handle = FALSE]
      BY <2>1, <3>1 DEF Loaded
    <3>. QED
      BY <3>2, <3>3 DEF SameOrigin, Item
  <2>3. \A i \in Ids : items[i] = None => items'[i] = None
    BY <1>0, <2>1 DEF FileRows
  <2>4. \A i \in Known : RowKept(i)
    BY <1>0, <2>2 DEF FileRows, Known, RowKept, SameOrigin, EndedIsTrue, Ended
  <2>5. RowsKept
    BY <2>3, <2>4 DEF RowsKept, Known
  <2>6. items' \in [Ids -> Item \cup {None}]
    BY <2>1, <2>2
  <2>7. FileRows'
    BY <1>0, <2>1, <2>2, <2>3, NoneAssumption DEF FileRows, SameOrigin
  <2>8. restarts' \in 0..MaxRestarts
    BY <1>0, <2>1, LimitAssumption DEF Typed
  <2>. QED
    BY <1>0, <1>1, <2>1, <2>5, <2>6, <2>7, <2>8 DEF Typed
<1>13. CASE UNCHANGED vars
  BY <1>0, <1>2, <1>13 DEF vars, Typed, Started, InProgress, Known, Duplicates, ChildrenStay
<1>. QED
  BY <1>3, <1>4, <1>5, <1>7, <1>8, <1>9, <1>11, <1>12, <1>13
     DEF Next, RetryProcess, RetryRun

(* Register adds the row of the process that was started. *)
LEMMA RegisterShape ==
  ASSUME TableInv, Register
  PROVE  /\ TableInv'
         /\ \A i \in Known : items'[i] = items[i]
         /\ Known' = Known \cup {busy.id}
         /\ items'[busy.id].retryOf = busy.request.retryOf /\ items'[busy.id].corr = busy.request.corr
<1>. DEFINE i  == busy.id
            rq == busy.request
            it == [state |-> "running", handle |-> TRUE, retryOf |-> rq.retryOf,
                   root |-> Root(i, rq.retryOf), attempt |-> AttemptOf(rq.retryOf),
                   corr |-> rq.corr, run |-> rq.run]
            row == Refreshed(it, i)
<1>1. /\ busy # None /\ busy.op = "spawn" /\ Save([items EXCEPT ![i] = row])
      /\ busy' = None /\ UNCHANGED <<child, restarts>>
  BY DEF Register
<1>2. i \in Ids /\ rq \in Request
  BY <1>1 DEF TableInv, Typed, Operation
<1>3. /\ child[i] # "none" /\ items[i] = None
      /\ rq.retryOf # None => /\ rq.retryOf \in Known
                              /\ rq.run = items[rq.retryOf].run
                              /\ Duplicates(rq.retryOf, rq.corr) = {}
  BY <1>1 DEF TableInv, InProgress
<1>4. /\ Root(i, rq.retryOf) \in Ids /\ AttemptOf(rq.retryOf) \in Nat \ {0}
      /\ rq.retryOf = None => Root(i, rq.retryOf) = i /\ AttemptOf(rq.retryOf) = 1
      /\ rq.retryOf # None => /\ Root(i, rq.retryOf) = items[rq.retryOf].root
                              /\ AttemptOf(rq.retryOf) = items[rq.retryOf].attempt + 1
  BY <1>2, <1>3 DEF Root, AttemptOf, TableInv, Typed, Known, Item
<1>5. it \in Item
  BY <1>2, <1>4 DEF Item, States, Request
<1>6. /\ row \in Item
      /\ row.state \in Ended => child[i] = "ended"
      /\ row.retryOf = rq.retryOf /\ row.corr = rq.corr /\ row.run = rq.run
      /\ row.root = Root(i, rq.retryOf) /\ row.attempt = AttemptOf(rq.retryOf)
  BY <1>5 DEF Refreshed, Item, States, Ended
<1>. HIDE DEF row, i, rq
<1>7. items' = [items EXCEPT ![i] = row]
  BY <1>1 DEF Save
<1>8. [items EXCEPT ![i] = row] \in [Ids -> Item \cup {None}]
  BY <1>6 DEF TableInv, Typed
<1>9. file' \in [Ids -> Item \cup {None}] /\ FileRows'
  BY <1>1, <1>8, Written
<1>10. \A j \in Known : items'[j] = items[j] /\ j # i /\ items[j] \in Item
  BY <1>3, <1>7 DEF TableInv, Typed, Known
<1>11. items'[i] = row /\ Known' = Known \cup {i} /\ i \notin Known
  BY <1>2, <1>3, <1>6, <1>7, NoneAssumption DEF TableInv, Typed, Known
<1>12. Typed'
  BY <1>1, <1>7, <1>8, <1>9 DEF TableInv, Typed
<1>13. Started' /\ InProgress'
  BY <1>1, <1>3, <1>11 DEF TableInv, Started, InProgress
<1>14. RetryChain'
  <2>1. ASSUME NEW j \in Known
        PROVE  LET p == items'[j].retryOf
               IN  IF p = None
                   THEN items'[j].root = j /\ items'[j].attempt = 1
                   ELSE /\ p \in Known'
                        /\ items'[j].root = items'[p].root
                        /\ items'[j].run = items'[p].run
                        /\ items'[j].attempt = items'[p].attempt + 1
    BY <1>10, <1>11 DEF TableInv, RetryChain
  <2>2. LET p == items'[i].retryOf
        IN  IF p = None
            THEN items'[i].root = i /\ items'[i].attempt = 1
            ELSE /\ p \in Known'
                 /\ items'[i].root = items'[p].root
                 /\ items'[i].run = items'[p].run
                 /\ items'[i].attempt = items'[p].attempt + 1
    BY <1>3, <1>4, <1>6, <1>10, <1>11
  <2>. QED
    BY <1>11, <2>1, <2>2 DEF RetryChain
<1>15. OneEntryPerRequest'
  <2>1. SUFFICES ASSUME NEW j \in Known', NEW k \in Known', items'[j].retryOf # None,
                        items'[j].retryOf = items'[k].retryOf, items'[j].corr = items'[k].corr,
                        j # k
                 PROVE  FALSE
    BY DEF OneEntryPerRequest
  <2>2. CASE j = i \/ k = i
    BY <1>3, <1>6, <1>10, <1>11, <2>1, <2>2 DEF Duplicates
  <2>3. CASE j # i /\ k # i
    BY <1>10, <1>11, <2>1, <2>3 DEF TableInv, OneEntryPerRequest
  <2>. QED
    BY <2>2, <2>3
<1>16. EndedIsTrue'
  BY <1>1, <1>6, <1>10, <1>11 DEF TableInv, EndedIsTrue
<1>17. /\ Known' = Known \cup {busy.id}
       /\ items'[busy.id].retryOf = busy.request.retryOf /\ items'[busy.id].corr = busy.request.corr
  BY <1>6, <1>11 DEF i, rq
<1>. QED
  BY <1>9, <1>10, <1>12, <1>13, <1>14, <1>15, <1>16, <1>17 DEF TableInv

(* The history follows the table in every step.                            *)
LEMMA HistoryKept ==
  ASSUME IInv, [Next]_vars, Register \/ RowsKept
  PROVE  Remembered'
<1>. DEFINE Quiet1 == UNCHANGED past /\ \A i \in Ids : (Starting(i) <=> Starting(i)') /\ (Starting(i) => busy' = busy)
            Rows1  == Known' = Known /\ \A i \in Known : SameOrigin(items'[i], items[i])
<1>1. Typed /\ Started /\ Remembered /\ busy \in Operation \cup {None}
  BY DEF IInv, TableInv, Typed
<1>2. CASE Register
  <2>1. /\ \A i \in Known : items'[i] = items[i]
        /\ Known' = Known \cup {busy.id}
        /\ items'[busy.id].retryOf = busy.request.retryOf /\ items'[busy.id].corr = busy.request.corr
    BY <1>2, RegisterShape DEF IInv
  <2>2. busy # None /\ busy.op = "spawn" /\ busy' = None /\ UNCHANGED past
    BY <1>2 DEF Register
  <2>3. busy.id \in Ids /\ asked[busy.id] = busy.request
    BY <1>1, <2>2 DEF Remembered, Starting, Operation
  <2>4. \A i \in Known' : asked[i].retryOf = items'[i].retryOf /\ asked[i].corr = items'[i].corr
    BY <1>1, <2>1, <2>3 DEF Remembered
  <2>. QED
    BY <1>1, <2>1, <2>2, <2>4 DEF Remembered, Starting, past
<1>3. ASSUME ~Register
      PROVE  Rows1
  BY <1>1, <1>3, NoneAssumption DEF RowsKept, RowKept, Known
<1>4. ASSUME Rows1, Quiet1
      PROVE  Remembered'
  BY <1>1, <1>4 DEF Remembered, SameOrigin, past
<1>5. ASSUME Rows1, busy = None, NEW request \in Request, Popen(request), orphaned' = orphaned
      PROVE  Remembered'
  <2>1. PICK i \in Ids : /\ child[i] = "none"
                         /\ busy' = [op |-> "spawn", id |-> i, request |-> request]
                         /\ asked' = [asked EXCEPT ![i] = request]
    BY <1>5 DEF Popen
  <2>2. i \notin Known
    BY <1>1, <2>1 DEF Started
  <2>3. asked' \in [Ids -> Request \cup {None}] /\ asked'[i] = request /\ \A j \in Ids \ {i} : asked'[j] = asked[j]
    BY <1>1, <2>1 DEF Remembered
  <2>4. busy' # None /\ \A j \in Ids : Starting(j)' <=> j = i
    <3>1. busy' \in Operation
      BY <2>1 DEF Operation
    <3>. QED
      BY <2>1, <3>1, NoneAssumption DEF Starting
  <2>5. \A j \in Known : j # i /\ j \in Ids
    BY <2>2 DEF Known
  <2>6. \A j \in Known' : asked'[j].retryOf = items'[j].retryOf /\ asked'[j].corr = items'[j].corr
    BY <1>1, <1>5, <2>3, <2>5 DEF Remembered, SameOrigin
  <2>7. \A j \in Ids : asked'[j] # None => j \in Known' \/ j \in orphaned' \/ Starting(j)'
    BY <1>1, <1>5, <2>3, <2>4 DEF Remembered, Starting
  <2>8. \A j \in Ids : Starting(j)' => asked'[j] = busy'.request
    BY <2>1, <2>3, <2>4
  <2>. QED
    BY <1>1, <1>5, <2>3, <2>6, <2>7, <2>8 DEF Remembered
<1>6. ASSUME UNCHANGED past, busy = None \/ busy.op # "spawn", busy' = None \/ busy'.op # "spawn"
      PROVE  Quiet1
  BY <1>6 DEF Starting
<1>7. ASSUME UNCHANGED <<busy, past>>
      PROVE  Quiet1
  BY <1>7 DEF Starting, past
<1>8. CASE Spawn
  <2>1. ~Register /\ busy = None /\ orphaned' = orphaned
    BY <1>8 DEF Spawn, Register
  <2>2. PICK c \in Corrs, r \in Runs : Popen([retryOf |-> None, corr |-> c, run |-> r])
    BY <1>8 DEF Spawn
  <2>3. [retryOf |-> None, corr |-> c, run |-> r] \in Request
    BY DEF Request
  <2>. QED
    BY <1>3, <1>5, <2>1, <2>2, <2>3
<1>9. ASSUME NEW target \in Known, NEW c \in Corrs \cup {None}, busy = None, RetryOf(target, c), orphaned' = orphaned
      PROVE  Remembered'
  <2>1. ~Register
    BY <1>9 DEF Register
  <2>. DEFINE corr == IF c = None THEN items[target].corr ELSE c
              request == [retryOf |-> target, corr |-> corr, run |-> items[target].run]
  <2>2. request \in Request
    BY <1>1 DEF Typed, Known, Item, Request
  <2>3. CASE Popen(request)
    BY <1>3, <1>5, <1>9, <2>1, <2>2, <2>3
  <2>4. CASE ~Popen(request)
    <3>1. UNCHANGED <<busy, asked>>
      BY <1>9, <2>4 DEF RetryOf
    <3>2. UNCHANGED <<busy, past>>
      BY <1>9, <3>1 DEF past
    <3>. QED
      BY <1>3, <1>4, <1>7, <2>1, <3>2
  <2>. QED
    BY <2>3, <2>4
<1>10. ASSUME NEW i \in Ids, Stop(i) \/ StopWait(i) \/ Get(i) \/ ChildEnds(i)
       PROVE  Remembered'
  <2>1. CASE Stop(i)
    <3>1. busy = None /\ UNCHANGED past /\ (busy' = None \/ busy'.op # "spawn") /\ ~Register
      BY <2>1 DEF Stop, Register
    <3>. QED
      BY <1>3, <1>4, <1>6, <3>1
  <2>2. CASE StopWait(i)
    <3>1. UNCHANGED past /\ busy.op # "spawn" /\ (busy' = None \/ busy'.op # "spawn")
      BY <2>2 DEF StopWait, StopGraceful, StopKills, StopForced, StopUnreaped, Waiting
    <3>2. ~Register
      BY <3>1 DEF Register
    <3>. QED
      BY <1>3, <1>4, <1>6, <3>1, <3>2
  <2>3. CASE Get(i)
    <3>1. busy = None /\ UNCHANGED <<busy, past>> /\ ~Register
      BY <2>3 DEF Get, Register
    <3>. QED
      BY <1>3, <1>4, <1>7, <3>1
  <2>4. CASE ChildEnds(i) /\ ~Register
    <3>1. UNCHANGED <<busy, past>>
      BY <2>4 DEF ChildEnds
    <3>. QED
      BY <1>3, <1>4, <1>7, <2>4, <3>1
  <2>. QED
    BY <1>2, <1>10, <2>1, <2>2, <2>3, <2>4
<1>11. CASE List
  <2>1. busy = None /\ UNCHANGED <<busy, past>> /\ ~Register
    BY <1>11 DEF List, Register
  <2>. QED
    BY <1>3, <1>4, <1>7, <2>1
<1>12. CASE Restart /\ ~Register
  <2>1. busy' = None /\ asked' = asked /\ orphaned' = orphaned \cup {i \in Ids : Starting(i)}
    BY <1>12 DEF Restart
  <2>2. Rows1
    BY <1>3, <1>12
  <2>3. \A i \in Ids : ~Starting(i)'
    BY <2>1 DEF Starting
  <2>4. \A i \in Known' : asked'[i].retryOf = items'[i].retryOf /\ asked'[i].corr = items'[i].corr
    BY <1>1, <2>1, <2>2 DEF Remembered, SameOrigin
  <2>5. \A i \in Ids : asked'[i] # None => i \in Known' \/ i \in orphaned'
    BY <1>1, <2>1, <2>2 DEF Remembered
  <2>6. asked' \in [Ids -> Request \cup {None}] /\ orphaned' \subseteq Ids
    BY <1>1, <2>1 DEF Remembered
  <2>. QED
    BY <2>3, <2>4, <2>5, <2>6 DEF Remembered
<1>13. CASE UNCHANGED vars
  <2>1. UNCHANGED <<busy, past>> /\ Rows1
    BY <1>13 DEF vars, SameOrigin, Known
  <2>. QED
    BY <1>4, <1>7, <2>1
<1>. QED
  BY <1>2, <1>8, <1>9, <1>10, <1>11, <1>12, <1>13 DEF Next, RetryProcess, RetryRun

(* The inductive invariant holds in every reachable state. *)
LEMMA Invariance == Spec => []IInv
<1>1. Init => IInv
  BY LimitAssumption, NoneAssumption
     DEF Init, IInv, TableInv, Typed, Children, Started, InProgress, FileRows, RetryChain,
         OneEntryPerRequest, EndedIsTrue, Known, Remembered, Starting
<1>2. IInv /\ [Next]_vars => IInv'
  <2>. SUFFICES ASSUME IInv, [Next]_vars PROVE TableInv' /\ (Register \/ RowsKept)
    BY HistoryKept DEF IInv
  <2>. SUFFICES ASSUME ~Register PROVE TableInv' /\ RowsKept
    BY RegisterShape DEF IInv
  <2>1. TableInv
    BY DEF IInv
  <2>2. RowsKept /\ Typed' /\ Started' /\ InProgress' /\ FileRows' /\ ChildrenStay
    BY <2>1, StepKeeps
  <2>3. /\ Known' = Known /\ \A i \in Known : RowKept(i)
        /\ RetryChain' /\ OneEntryPerRequest'
    BY <2>1, <2>2, KeptInvariants DEF TableInv
  <2>4. EndedIsTrue'
    BY <2>1, <2>2, <2>3 DEF TableInv, EndedIsTrue, RowKept, ChildrenStay, Known
  <2>. QED
    BY <2>2, <2>3, <2>4 DEF TableInv
<1>. QED
  BY <1>1, <1>2, PTL DEF Spec

----------------------------------------------------------------------------
(* Every variable keeps its type, however many processes are spawned.      *)
THEOREM TypeCorrect == Spec => []TypeOK
<1>1. IInv => TypeOK
  BY DEF IInv, TableInv, Typed, Remembered, TypeOK
<1>. QED
  BY <1>1, Invariance, PTL

(* Through every interleaving of spawns, retries, stops and restarts a     *)
(* retry carries its parent's root and run and the next attempt number.    *)
THEOREM ChainsKept == Spec => []RetryChain
<1>1. IInv => RetryChain
  BY DEF IInv, TableInv
<1>. QED
  BY <1>1, Invariance, PTL

(* However often a retry of a process is requested with one correlation    *)
(* id, before and after restarts, it starts one child, not counting one    *)
(* whose server died before it wrote the child's entry.                    *)
THEOREM RetriesOnce == Spec => []OneRetryPerRequest
<1>1. IInv => OneRetryPerRequest
  <2>. SUFFICES ASSUME IInv, NEW i \in Ids \ orphaned, NEW j \in Ids \ orphaned,
                       asked[i] # None, asked[j] # None, asked[i].retryOf # None,
                       asked[i].retryOf = asked[j].retryOf, asked[i].corr = asked[j].corr
                PROVE  i = j
    BY DEF OneRetryPerRequest
  <2>1. InProgress /\ OneEntryPerRequest /\ Remembered
    BY DEF IInv, TableInv
  <2>2. (i \in Known \/ Starting(i)) /\ (j \in Known \/ Starting(j))
    BY <2>1 DEF Remembered
  <2>3. ASSUME NEW k \in Known, NEW l \in Ids, Starting(l), asked[k].retryOf # None,
               asked[k].retryOf = asked[l].retryOf, asked[k].corr = asked[l].corr
        PROVE  FALSE
    <3>1. asked[l] = busy.request /\ asked[k].retryOf = items[k].retryOf /\ asked[k].corr = items[k].corr
      BY <2>1, <2>3 DEF Remembered
    <3>2. Duplicates(busy.request.retryOf, busy.request.corr) = {}
      BY <2>1, <2>3, <3>1 DEF InProgress, Starting
    <3>. QED
      BY <2>3, <3>1, <3>2 DEF Duplicates
  <2>4. CASE i \in Known /\ j \in Known
    BY <2>1, <2>4 DEF OneEntryPerRequest, Remembered
  <2>5. CASE Starting(i) /\ Starting(j)
    BY <2>5 DEF Starting
  <2>. QED
    BY <2>2, <2>3, <2>4, <2>5
<1>. QED
  BY <1>1, Invariance, PTL

(* The table never calls a running process ended. *)
THEOREM EndsAreTrue == Spec => []EndedIsTrue
<1>1. IInv => EndedIsTrue
  BY DEF IInv, TableInv
<1>. QED
  BY <1>1, Invariance, PTL

(* A crash loses at most the mark of a stop in progress: every other row   *)
(* of the table is in the file.                                            *)
THEOREM FileKeepsUp == Spec => []FileFollows
<1>1. IInv => FileFollows
  <2>1. SUFFICES ASSUME IInv, NEW i \in Ids, items[i] # None, items[i].state # "stopping"
                 PROVE  file[i] = [items[i] EXCEPT !.handle = FALSE]
    BY NoneAssumption DEF FileFollows, IInv, TableInv, FileRows
  <2>2. items[i] \in Item /\ file[i] \in Item
    BY <2>1 DEF IInv, TableInv, Typed, FileRows
  <2>3. /\ SameOrigin(file[i], items[i]) /\ ~file[i].handle
        /\ file[i].state = items[i].state
    BY <2>1 DEF IInv, TableInv, FileRows
  <2>. QED
    BY <2>2, <2>3 DEF SameOrigin, Item
<1>. QED
  BY <1>1, Invariance, PTL

(* No step, a restart included, rewrites how a process ended. *)
THEOREM EndsAreFinal == Spec => EndedIsFinal
<1>1. IInv /\ [Next]_vars =>
        [\A i \in Ids : items[i] # None /\ items[i].state \in Ended => items'[i] # None
                        /\ items'[i].state = items[i].state]_vars
  <2>1. SUFFICES ASSUME IInv, [Next]_vars, NEW i \in Known, items[i].state \in Ended
                 PROVE  items'[i] # None /\ items'[i].state = items[i].state
    BY DEF Known
  <2>2. CASE Register
    BY <2>1, <2>2, RegisterShape DEF Known, IInv
  <2>3. CASE ~Register
    <3>1. RowsKept
      BY <2>1, <2>3, StepKeeps DEF IInv
    <3>. QED
      BY <2>1, <3>1, NoneAssumption DEF RowsKept, RowKept, Known
  <2>. QED
    BY <2>2, <2>3
<1>. QED
  BY <1>1, Invariance, PTL DEF Spec, EndedIsFinal
==============================================================================
