---------------------- MODULE AutonomousSessionProofs ----------------------
(***************************************************************************)
(* Proofs about AutonomousSession, for any policy, any gate outcomes and   *)
(* any number of processes: type correctness, SuccessIsEarned,             *)
(* EvidenceKept, GuardHolds and, when no write is torn,                    *)
(* NoIterationRunTwice; and about Records, the same session with its       *)
(* files: that it implements AutonomousSession, NoThirdTry, TrustIsEarned, *)
(* SummaryTrue and PolicyIsSound.                                          *)
(*                                                                         *)
(* The argument: every state the session holds, in memory or on disk, is   *)
(* Sound (its attempts are in the order of their iterations and none is    *)
(* beyond the current one), and to normalize a sound state changes nothing *)
(* (SoundIsNormal).  So a resume goes on exactly where the state file says *)
(* the last process was, and that file is ahead of every workflow run.     *)
(* That lemma is about a sort: it shows that there is only one sorted      *)
(* order of the attempts, the one they are in.                             *)
(*                                                                         *)
(* Of Records, RecInv says that wherever the attempts of the session are   *)
(* (in memory, in the state file, in the report), their details are there  *)
(* with them, in the same order: so a resume takes the strategies over as  *)
(* they were tried, from whichever file it reads them.                     *)
(*                                                                         *)
(* TrustInv says when the gate file tells every attempt: it is still to be *)
(* written, or it does.  The packet is computed right behind the report,   *)
(* when nothing is left to be written before it.  FilesInv says the same   *)
(* of the strategy and the guard file, in a process that ran an attempt;   *)
(* what they count is what the state file counts, because the places of    *)
(* the selected attempts are a bijection (PickedPlaces, CountMoved).       *)
(***************************************************************************)
EXTENDS Records, FiniteSetTheorems, FunctionTheorems, SequenceTheorems, TLAPS

(* Recorded attempts are those of increasing iterations, none beyond the     *)
(* current one.                                                              *)
Ordered(rs) == \A i, j \in DOMAIN rs : i < j => rs[i].iter < rs[j].iter

Under(rs, n) == \A k \in DOMAIN rs : rs[k].iter < n

Sound(s) ==
  /\ Ordered(s.attempts)
  /\ \A k \in DOMAIN s.attempts : s.attempts[k].iter <= s.cur

(* The process's state is sound and its iteration is new while its workflow  *)
(* is planned or runs.                                                       *)
StateInv ==
  /\ Sound(st)
  /\ here <= st.cur
  /\ pc = "plan" => here < st.cur
  /\ pc = "execute" => st.cur # 0
  /\ pc \in {"plan", "execute"} => Under(st.attempts, st.cur)

(* What is on disk is sound, and is the process's state once it persisted it. *)
DiskInv ==
  /\ file.kind = "state" => Sound(file)
  /\ report.kind = "report" => Ordered(report.attempts)
  /\ pc \notin {"down", "preflight"} => file = st

(* A success in memory is that of the attempt recorded last. *)
Earned(s) ==
  LET last == s.attempts[Len(s.attempts)]
  IN  last.iter = s.cur /\ last.flow /\ (last.gate.evaluated => Passed(last.gate))

SuccessInv ==
  /\ pc \in {"down", "preflight", "loop", "plan", "execute"} => ~ ok
  /\ ok => Earned(st)
  /\ ok /\ pc # "decide" => st.status = "completed"
  /\ exit = "zero" => pc = "down" /\ SuccessIsEarned

IInv == TypeOK /\ StateInv /\ DiskInv /\ SuccessInv

(* When no write is torn, what ran is on disk before it runs. *)
OnceInv ==
  /\ ~ reran
  /\ file # Torn
  /\ file = Absent => ran = {}
  /\ file.kind = "state" => ran \subseteq 1..file.cur
  /\ pc # "down" => ran \subseteq 1..st.cur
  /\ pc = "plan" => st.cur \notin ran

(* A set of numbers has a least one. *)
LEMMA LeastNumber ==
  ASSUME NEW T \in SUBSET Nat, T # {}
  PROVE  \E m \in T : \A k \in T : m <= k
<1> DEFINE Less == {ss \in Nat \X Nat : ss[1] < ss[2]}
<1>1. IsWellFoundedOn(Less, Nat)
  BY NatLessThanWellFounded DEF OpToRel
<1>2. PICK m \in T : \A y \in T : ~ (<<y, m>> \in Less)
  BY <1>1, WFMin
<1>3. \A y \in T : ~ (y < m)
  BY <1>2
<1> QED
  BY <1>3

(* A sequence of n members of S by increasing iteration, and one with all of *)
(* them.  There is one such order only.                                      *)
Lists(s, n, S) ==
  /\ n \in Nat /\ s \in [1..n -> S] /\ \A a \in S : a.iter \in Nat
  /\ \A i, j \in 1..n : i < j => s[i].iter < s[j].iter

ListsAll(s, n, S) == \A a \in S : \E i \in 1..n : s[i] = a

LEMMA ListedOnce ==
  ASSUME NEW n, NEW S, NEW s, Lists(s, n, S), NEW i \in 1..n, NEW j \in 1..n
  PROVE  s[i] = s[j] => i = j
<1>1. n \in Nat /\ s[i] \in S /\ s[j] \in S
  BY DEF Lists
<1>2. s[i].iter \in Nat /\ s[j].iter \in Nat
  BY <1>1 DEF Lists
<1>3. i < j => s[i].iter < s[j].iter
  BY DEF Lists
<1>4. j < i => s[j].iter < s[i].iter
  BY DEF Lists
<1> QED
  BY <1>1, <1>2, <1>3, <1>4

LEMMA FirstDifference ==
  ASSUME NEW n, NEW S, NEW p, NEW q, Lists(p, n, S), Lists(q, n, S),
         ListsAll(p, n, S), ListsAll(q, n, S),
         NEW m \in 1..n, \A k \in 1..n : k < m => p[k] = q[k]
  PROVE  p[m] = q[m]
<1>1. n \in Nat /\ p[m] \in S /\ q[m] \in S
  BY DEF Lists
<1>2. PICK u \in 1..n : q[u] = p[m]
  BY <1>1 DEF ListsAll
<1>3. PICK v \in 1..n : p[v] = q[m]
  BY <1>1 DEF ListsAll
<1>4. ~ (u < m)
  <2>1. u < m => p[u] = p[m]
    BY <1>2
  <2>2. u < m => u = m
    BY <2>1, ListedOnce
  <2> QED
    BY <1>1, <2>2
<1>5. ~ (v < m)
  <2>1. v < m => q[v] = q[m]
    BY <1>3
  <2>2. v < m => v = m
    BY <2>1, ListedOnce
  <2> QED
    BY <1>1, <2>2
<1>6. m < u => q[m].iter < p[m].iter
  BY <1>2 DEF Lists
<1>7. m < v => p[m].iter < q[m].iter
  BY <1>3 DEF Lists
<1>8. p[m].iter \in Nat /\ q[m].iter \in Nat
  BY <1>1 DEF Lists
<1>9. u = m \/ v = m
  BY <1>1, <1>4, <1>5, <1>6, <1>7, <1>8
<1> QED
  BY <1>2, <1>3, <1>9

LEMMA OneOrder ==
  ASSUME NEW n, NEW S, NEW p, NEW q, Lists(p, n, S), Lists(q, n, S),
         ListsAll(p, n, S), ListsAll(q, n, S)
  PROVE  p = q
<1> DEFINE D == {i \in 1..n : p[i] # q[i]}
<1>1. n \in Nat /\ p \in [1..n -> S] /\ q \in [1..n -> S]
  BY DEF Lists
<1>2. CASE D = {}
  <2>1. p = [i \in 1..n |-> p[i]] /\ q = [i \in 1..n |-> q[i]]
    BY <1>1
  <2> QED
    BY <1>2, <2>1
<1>3. CASE D # {}
  <2>1. D \in SUBSET Nat
    BY <1>1
  <2>2. PICK m \in D : \A k \in D : m <= k
    <3> HIDE DEF D
    <3> QED
      BY <1>3, <2>1, LeastNumber
  <2>3. m \in 1..n /\ p[m] # q[m] /\ \A k \in 1..n : k < m => p[k] = q[k]
    BY <1>1, <2>2
  <2> HIDE DEF D
  <2> QED
    BY <2>3, FirstDifference
<1> QED
  BY <1>2, <1>3

(* Ordered attempts are what ByIteration makes of them. *)
LEMMA OrderedStays ==
  ASSUME NEW R, \A a \in R : a.iter \in Nat, NEW rs \in Seq(R), Ordered(rs)
  PROVE  ByIteration({rs[k] : k \in DOMAIN rs}) = rs
<1> DEFINE S == {rs[k] : k \in DOMAIN rs}
           n == Len(rs)
<1>1. n \in Nat /\ DOMAIN rs = 1..n /\ rs \in [1..n -> R]
  BY LenProperties
<1>2. rs \in [1..n -> S] /\ ListsAll(rs, n, S)
  BY <1>1 DEF ListsAll
<1>3. \A a \in S : a.iter \in Nat
  <2>1. S \subseteq R
    BY <1>1
  <2> QED
    BY <2>1
<1>4. Lists(rs, n, S)
  BY <1>1, <1>2, <1>3 DEF Ordered, Lists
<1> HIDE DEF S, n
<1>5. \A i, j \in 1..n : rs[i] = rs[j] => i = j
  BY <1>4, ListedOnce
<1>6. rs \in Bijection(1..n, S)
  BY <1>2, <1>5, Fun_IsBij DEF ListsAll
<1>7. Cardinality(S) = n /\ IsFiniteSet(S)
  BY <1>1, <1>6, FS_CountingElements, FS_NatBijection DEF ExistsBijection
<1> DEFINE q == ByIteration(S)
<1>8. Lists(q, n, S)
  <2> DEFINE Orders(s) == /\ s \in [1..Cardinality(S) -> S]
                          /\ \A i, j \in DOMAIN s : i < j => s[i].iter < s[j].iter
  <2>1. Orders(rs)
    BY <1>1, <1>2, <1>4, <1>7 DEF Lists
  <2>2. Orders(q)
    BY <2>1 DEF ByIteration
  <2> QED
    BY <1>1, <1>3, <1>7, <2>2 DEF Lists
<1> HIDE DEF q
<1>9. \A i, j \in 1..n : q[i] = q[j] => i = j
  BY <1>8, ListedOnce
<1>10. q \in Injection(1..n, S)
  BY <1>8, <1>9, Fun_IsInj DEF Lists
<1>11. IsFiniteSet(1..n) /\ Cardinality(1..n) = n
  BY <1>1, FS_Interval
<1>12. q \in Surjection(1..n, S)
  BY <1>1, <1>7, <1>10, <1>11, FS_Injection
<1>13. ListsAll(q, n, S)
  BY <1>12 DEF Surjection, ListsAll
<1>14. q = rs
  BY <1>2, <1>4, <1>8, <1>13, OneOrder
<1> QED
  BY <1>14 DEF q, S

(* The largest member of a set that has one. *)
LEMMA LargestIs ==
  ASSUME NEW T, NEW m \in T, \A x \in T : m >= x, T \subseteq Nat
  PROVE  Max(T) = m
<1> DEFINE P(x) == x \in T /\ \A y \in T : x >= y
<1>1. P(m)
  OBVIOUS
<1>2. Max(T) \in T /\ \A y \in T : Max(T) >= y
  BY <1>1 DEF Max
<1>3. Max(T) >= m /\ m >= Max(T)
  BY <1>2
<1>4. Max(T) \in Nat /\ m \in Nat
  BY <1>2
<1> QED
  BY <1>3, <1>4

LEMMA AttemptIters ==
  \A rs \in Seq(Attempts) : \A k \in DOMAIN rs :
    rs[k] \in Attempts /\ rs[k].iter \in 1..MaxIterations /\ rs[k].iter \in Nat
<1>1. \A a \in Attempts : a.iter \in 1..MaxIterations /\ a.iter \in Nat
  BY PolicyAssumption DEF Attempts
<1> TAKE rs \in Seq(Attempts)
<1>2. DOMAIN rs = 1..Len(rs) /\ rs \in [1..Len(rs) -> Attempts]
  BY LenProperties
<1> TAKE k \in DOMAIN rs
<1>3. rs[k] \in Attempts
  BY <1>2
<1> QED
  BY <1>1, <1>3

(* In a record in order every attempt is the latest of its iteration. *)
LEMMA AllLatest ==
  ASSUME NEW R, \A a \in R : a.iter \in Nat, NEW rs \in Seq(R), Ordered(rs)
  PROVE  {rs[k] : k \in {j \in DOMAIN rs :
                     \A m \in j + 1..Len(rs) : rs[m].iter # rs[j].iter}}
         = {rs[k] : k \in DOMAIN rs}
<1>1. Len(rs) \in Nat /\ DOMAIN rs = 1..Len(rs) /\ \A k \in DOMAIN rs : rs[k] \in R
  BY LenProperties
<1>2. ASSUME NEW j \in DOMAIN rs, NEW m \in j + 1..Len(rs)
      PROVE  rs[m].iter # rs[j].iter
  <2>1. m \in DOMAIN rs /\ j < m
    BY <1>1
  <2>2. rs[j].iter < rs[m].iter
    BY <2>1 DEF Ordered
  <2>3. rs[j].iter \in Nat /\ rs[m].iter \in Nat
    BY <1>1, <2>1
  <2> QED
    BY <2>2, <2>3
<1> QED
  BY <1>2

(* Normalizing a sound state changes nothing. *)
LEMMA SoundIsNormal ==
  ASSUME NEW s \in States, Sound(s)
  PROVE  Normalize(s) = s
<1> DEFINE rs == s.attempts
           latest == {rs[k] : k \in {j \in DOMAIN rs :
                     \A m \in j + 1..Len(rs) : rs[m].iter # rs[j].iter}}
<1>1. rs \in Seq(Attempts) /\ Ordered(rs) /\ s.cur \in Nat
  BY PolicyAssumption DEF States, Sound
<1>2. Len(rs) \in Nat /\ DOMAIN rs = 1..Len(rs)
  BY <1>1
<1>3. \A a \in Attempts : a.iter \in Nat
  BY PolicyAssumption DEF Attempts
<1>4. latest = {rs[k] : k \in DOMAIN rs}
  BY <1>1, <1>3, AllLatest
<1>5. ByIteration(latest) = rs
  BY <1>1, <1>3, <1>4, OrderedStays
<1>6. Max({s.cur} \cup {a.iter : a \in latest}) = s.cur
  <2> DEFINE T == {s.cur} \cup {a.iter : a \in latest}
  <2>1. \A a \in latest : a.iter \in Nat /\ a.iter <= s.cur
    BY <1>1, <1>4, AttemptIters DEF Sound
  <2>2. s.cur \in T /\ T \subseteq Nat /\ \A x \in T : s.cur >= x
    BY SMTT(30), <1>1, <2>1
  <2> HIDE DEF T
  <2>3. Max(T) = s.cur
    BY <2>2, LargestIs
  <2> QED
    BY <2>3 DEF T
<1>7. Normalize(s) = [s EXCEPT !.attempts = rs, !.cur = s.cur]
  BY <1>5, <1>6 DEF Normalize
<1> QED
  BY <1>7 DEF States

(* What a lost state file is replaced by is sound. *)
LEMMA RecoveredIsSound ==
  ASSUME TypeOK, DiskInv
  PROVE  Recovered \in States /\ Sound(Recovered)
<1> DEFINE rs == IF report.kind = "report" THEN report.attempts ELSE <<>>
<1>1. rs \in Seq(Attempts) /\ Ordered(rs)
  BY DEF TypeOK, DiskInv, Ordered, Absent, Torn
<1>2. CASE rs = <<>>
  BY <1>2, PolicyAssumption DEF Recovered, NewState, States, Sound, Ordered
<1>3. CASE rs # <<>>
  <2> DEFINE T == {rs[k].iter : k \in DOMAIN rs}
  <2>1. Len(rs) \in Nat \ {0} /\ DOMAIN rs = 1..Len(rs)
    BY <1>1, <1>3
  <2>2. \A k \in DOMAIN rs : rs[Len(rs)].iter >= rs[k].iter
    <3> SUFFICES ASSUME NEW k \in DOMAIN rs
                 PROVE  rs[Len(rs)].iter >= rs[k].iter
      OBVIOUS
    <3>1. k < Len(rs) => rs[k].iter < rs[Len(rs)].iter
      BY <1>1, <2>1 DEF Ordered
    <3>2. rs[k].iter \in Nat /\ rs[Len(rs)].iter \in Nat
      BY <1>1, <2>1, AttemptIters
    <3> QED
      BY <2>1, <3>1, <3>2
  <2>3. \A k \in DOMAIN rs : rs[k].iter \in 1..MaxIterations /\ rs[k].iter \in Nat
    BY <1>1, AttemptIters
  <2>4. Max(T) = rs[Len(rs)].iter
    <3>1. rs[Len(rs)].iter \in T /\ T \subseteq Nat /\ \A x \in T : rs[Len(rs)].iter >= x
      BY <2>1, <2>2, <2>3
    <3> HIDE DEF T
    <3> QED
      BY <3>1, LargestIs
  <2>5. Recovered = [NewState EXCEPT !.attempts = rs, !.phase = "auto_fix_retry",
                                     !.cur = rs[Len(rs)].iter]
    BY <1>3, <2>4 DEF Recovered
  <2>6. rs[Len(rs)].iter \in 0..MaxIterations
    BY <2>1, <2>3, PolicyAssumption
  <2> HIDE DEF rs
  <2> QED
    BY <1>1, <2>2, <2>3, <2>5, <2>6, PolicyAssumption DEF NewState, States, Sound
<1> QED
  BY <1>2, <1>3

(* A resume takes over a state file as it is. *)
LEMMA LoadedIs ==
  ASSUME TypeOK, DiskInv, file # Absent
  PROVE  Loaded \in States /\ Sound(Loaded)
         /\ (file.kind = "state" => Loaded = file)
<1>1. CASE file = Torn
  BY <1>1, RecoveredIsSound, SoundIsNormal DEF Loaded, Torn
<1>2. CASE file # Torn
  <2>1. file \in States /\ Sound(file)
    BY <1>2 DEF TypeOK, DiskInv, States
  <2> QED
    BY <1>2, <2>1, SoundIsNormal DEF Loaded
<1> QED
  BY <1>1, <1>2

(* What appending an attempt to a record of attempts does. *)
Longer(bs, rs, b) ==
  /\ Len(rs) \in Nat /\ DOMAIN rs = 1..Len(rs)
  /\ bs \in Seq(Attempts) /\ Len(bs) = Len(rs) + 1 /\ DOMAIN bs = 1..Len(bs)
  /\ bs[Len(bs)] = b
  /\ \A k \in 1..Len(rs) : bs[k] = rs[k]

LEMMA Appended ==
  ASSUME NEW rs \in Seq(Attempts), NEW b \in Attempts
  PROVE  Longer(Append(rs, b), rs, b) /\ IsPrefix(rs, Append(rs, b))
<1> DEFINE bs == Append(rs, b)
<1>1. Len(rs) \in Nat /\ DOMAIN rs = 1..Len(rs) /\ SubSeq(rs, 1, Len(rs)) = rs
  BY LenProperties, SubSeqFull
<1>2. /\ bs \in Seq(Attempts) /\ Len(bs) = Len(rs) + 1
      /\ bs[Len(rs) + 1] = b /\ \A k \in 1..Len(rs) : bs[k] = rs[k]
  BY AppendProperties
<1>3. DOMAIN bs = 1..Len(bs)
  BY <1>2, LenProperties
<1>4. SubSeq(bs, 1, Len(rs)) = rs
  <2> DEFINE cs == SubSeq(bs, 1, Len(rs))
  <2>1. \A k \in 1..Len(rs) : bs[k] \in Attempts
    BY <1>1, <1>2, LenProperties
  <2>2. /\ cs \in Seq(Attempts) /\ Len(cs) = Len(rs)
        /\ \A i \in 1..Len(rs) : cs[i] = rs[i]
    <3> HIDE DEF bs
    <3> QED
      BY <1>1, <1>2, <2>1, SubSeqProperties
  <2> HIDE DEF cs
  <2> QED
    BY <2>2, SeqEqual
<1>5. IsPrefix(rs, bs)
  <2> HIDE DEF bs
  <2> QED
    BY <1>1, <1>2, <1>4 DEF IsPrefix
<1> HIDE DEF bs
<1>6. Longer(bs, rs, b)
  BY <1>1, <1>2, <1>3 DEF Longer
<1> QED
  BY <1>5, <1>6 DEF bs

(* An attempt of a later iteration keeps the record in order. *)
LEMMA AppendSound ==
  ASSUME NEW rs \in Seq(Attempts), Ordered(rs), NEW b \in Attempts,
         Under(rs, b.iter), NEW bs, Longer(bs, rs, b)
  PROVE  /\ bs \in Seq(Attempts) /\ Ordered(bs)
         /\ \A k \in DOMAIN bs : bs[k].iter <= b.iter
         /\ bs[Len(bs)] = b
<1>1. /\ Len(rs) \in Nat /\ DOMAIN rs = 1..Len(rs)
      /\ bs \in Seq(Attempts) /\ Len(bs) = Len(rs) + 1 /\ DOMAIN bs = 1..Len(bs)
      /\ bs[Len(bs)] = b /\ \A k \in 1..Len(rs) : bs[k] = rs[k]
  BY DEF Longer
<1>2. \A k \in DOMAIN bs : k # Len(bs) => k \in DOMAIN rs /\ bs[k].iter < b.iter
  BY <1>1 DEF Under
<1>3. \A k \in DOMAIN bs : bs[k].iter \in Nat
  BY <1>1, AttemptIters
<1>4. Ordered(bs)
  <2> SUFFICES ASSUME NEW i \in DOMAIN bs, NEW j \in DOMAIN bs, i < j
               PROVE  bs[i].iter < bs[j].iter
    BY DEF Ordered
  <2>1. i # Len(bs)
    BY <1>1
  <2>2. CASE j = Len(bs)
    BY <1>1, <1>2, <2>1, <2>2
  <2>3. CASE j # Len(bs)
    <3>1. i \in DOMAIN rs /\ j \in DOMAIN rs
      BY <1>1, <1>2, <2>1, <2>3
    <3>2. rs[i].iter < rs[j].iter
      BY <3>1 DEF Ordered
    <3> QED
      BY <1>1, <3>1, <3>2
  <2> QED
    BY <2>2, <2>3
<1>5. \A k \in DOMAIN bs : bs[k].iter <= b.iter
  <2> TAKE k \in DOMAIN bs
  <2>1. bs[k].iter \in Nat /\ bs[Len(bs)].iter \in Nat
    BY <1>1, <1>3
  <2> QED
    BY <1>1, <1>2, <2>1
<1> QED
  BY <1>1, <1>4, <1>5

-----------------------------------------------------------------------------
(* The invariant is inductive *)

LEMMA FreshIsSound == NewState \in States /\ Sound(NewState)
BY PolicyAssumption DEF NewState, States, Sound, Ordered

LEMMA InitInv == Init => IInv
<1> SUFFICES ASSUME Init PROVE IInv
  OBVIOUS
<1>1. TypeOK
  <2>1. ok \in BOOLEAN /\ gated \in BOOLEAN /\ incident \in BOOLEAN /\ reran \in BOOLEAN
    BY DEF Init
  <2>2. /\ clock \in 0..TimeBudget /\ spent \in 0..TimeBudget
        /\ here \in 0..MaxIterations /\ starts \in 0..MaxStarts
    BY PolicyAssumption DEF Init
  <2>3. file = Absent /\ report = Absent
    BY DEF Init
  <2> QED
    BY <2>1, <2>2, <2>3, FreshIsSound DEF Init, TypeOK
<1>2. StateInv
  BY FreshIsSound DEF Init, StateInv, NewState
<1>3. DiskInv
  BY DEF Init, DiskInv, Absent
<1>4. SuccessInv
  BY DEF Init, SuccessInv
<1> QED
  BY <1>1, <1>2, <1>3, <1>4 DEF IInv

LEMMA UpToTyped == \A n \in Nat : UpTo(n) \in 0..TimeBudget
BY PolicyAssumption DEF UpTo

(* One lemma per group of actions. *)
LEMMA BeginKeeps ==
  ASSUME IInv, NEW p \in GatePolicies, StartFresh(p) \/ StartResume(p)
  PROVE  IInv'
<1>1. st' \in States /\ Sound(st')
  BY FreshIsSound, LoadedIs DEF IInv, StartFresh, StartResume
<1>2. TypeOK'
  <2> USE DEF StartFresh, StartResume, Begin, disk
  <2>1. pc' = "preflight" /\ exit' = "none"
    OBVIOUS
  <2>2. ok' \in BOOLEAN /\ gated' \in BOOLEAN
    BY PolicyAssumption
  <2>3. reran' \in BOOLEAN /\ incident' \in BOOLEAN
    BY DEF IInv, TypeOK
  <2>4. clock' \in 0..TimeBudget /\ spent' \in 0..TimeBudget
    BY PolicyAssumption DEF IInv, TypeOK
  <2>5. here' \in 0..MaxIterations /\ starts' \in 0..MaxStarts
    BY PolicyAssumption DEF IInv, TypeOK
  <2>6. ran' \subseteq 1..MaxIterations
    BY DEF IInv, TypeOK
  <2>7. UNCHANGED <<file, report>>
    OBVIOUS
  <2> QED
    BY ONLY <1>1, <2>1, <2>2, <2>3, <2>4, <2>5, <2>6, <2>7, IInv DEF IInv, TypeOK
<1>3. StateInv'
  BY <1>1, PolicyAssumption DEF StateInv, StartFresh, StartResume, Begin, States
<1>4. DiskInv'
  BY DEF IInv, DiskInv, StartFresh, StartResume, Begin, disk
<1>5. SuccessInv'
  BY DEF IInv, SuccessInv, StartFresh, StartResume, Begin
<1> QED
  BY <1>2, <1>3, <1>4, <1>5 DEF IInv

LEMMA PreflightKeeps ==
  ASSUME IInv, PreflightFails \/ PreflightPasses
  PROVE  IInv'
<1> USE DEF PreflightFails, PreflightPasses, history
<1>1. st' \in States /\ st'.attempts = st.attempts /\ st'.cur = st.cur
  BY DEF IInv, TypeOK, States
<1>2. TypeOK'
  BY <1>1 DEF IInv, TypeOK
<1>3. StateInv'
  BY <1>1 DEF IInv, StateInv, Sound
<1>4. DiskInv'
  BY <1>1 DEF IInv, StateInv, DiskInv, Sound
<1>5. SuccessInv'
  BY DEF IInv, SuccessInv
<1> QED
  BY <1>2, <1>3, <1>4, <1>5 DEF IInv

(* A state that keeps attempts and iteration, written to disk. *)
LEMMA PersistKeeps ==
  ASSUME IInv, LoopEnds \/ BudgetSpent \/ Complete \/ GuardStop
               \/ IterationsSpent \/ Retry \/ Finish
  PROVE  IInv'
<1> USE DEF LoopEnds, BudgetSpent, Complete, GuardStop, IterationsSpent, Retry,
            Finish, Persist, Fail, history, disk
<1>1. st' \in States /\ st'.attempts = st.attempts /\ st'.cur = st.cur
  BY ZenonT(60) DEF IInv, TypeOK, States
<1>2. TypeOK'
  BY <1>1 DEF IInv, TypeOK
<1>3. StateInv'
  BY <1>1 DEF IInv, StateInv, Sound
<1>4. DiskInv'
  BY <1>1 DEF IInv, StateInv, DiskInv, Sound
<1>5. SuccessInv'
  <2>1. Earned(st) => Earned(st')
    BY <1>1 DEF Earned
  <2>2. Complete \/ (UNCHANGED ok /\ (ok => pc = "finish" /\ st' = st))
    BY DEF IInv, SuccessInv
  <2>3. Complete => st'.status = "completed"
    BY DEF IInv, TypeOK, States
  <2>4. UNCHANGED <<ok, exit>> /\ pc' \in {"finish", "incident", "loop"}
    OBVIOUS
  <2>5. Retry => ~ ok
    OBVIOUS
  <2> QED
    BY <2>1, <2>2, <2>3, <2>4, <2>5 DEF IInv, SuccessInv
<1> QED
  BY <1>2, <1>3, <1>4, <1>5 DEF IInv

LEMMA PlanKeeps ==
  ASSUME IInv, Plan
  PROVE  IInv'
<1> USE DEF Plan, Persist, history
<1>1. st \in States
  BY DEF IInv, TypeOK
<1>2. st.cur \in Nat /\ st.cur <= MaxIterations /\ st.attempts \in Seq(Attempts)
  BY <1>1, PolicyAssumption DEF States
<1>3. st' \in States /\ st'.attempts = st.attempts /\ st'.cur = st.cur + 1
  <2>1. st.cur + 1 \in 0..MaxIterations
    BY <1>2, PolicyAssumption
  <2> QED
    BY <1>1, <2>1 DEF States
<1>4. TypeOK'
  BY <1>3 DEF IInv, TypeOK
<1>5. Under(st'.attempts, st'.cur)
  <2> SUFFICES ASSUME NEW k \in DOMAIN st.attempts
               PROVE  st.attempts[k].iter < st.cur + 1
    BY <1>3 DEF Under
  <2>1. st.attempts[k].iter \in Nat
    BY <1>2, AttemptIters
  <2>2. st.attempts[k].iter <= st.cur
    BY DEF IInv, StateInv, Sound
  <2> QED
    BY <1>2, <2>1, <2>2
<1>6. Sound(st')
  <2> SUFFICES ASSUME NEW k \in DOMAIN st.attempts
               PROVE  st.attempts[k].iter <= st.cur + 1
    BY <1>3 DEF Sound, IInv, StateInv
  <2>1. st.attempts[k].iter \in Nat
    BY <1>2, AttemptIters
  <2>2. st.attempts[k].iter <= st.cur
    BY DEF IInv, StateInv, Sound
  <2> QED
    BY <1>2, <2>1, <2>2
<1>7. StateInv'
  <2>1. here \in Nat /\ here <= st.cur /\ UNCHANGED here
    BY PolicyAssumption DEF IInv, TypeOK, StateInv
  <2> QED
    BY <1>3, <1>2, <1>5, <1>6, <2>1 DEF StateInv
<1>8. DiskInv'
  BY <1>6 DEF IInv, DiskInv
<1>9. SuccessInv'
  BY DEF IInv, SuccessInv
<1> QED
  BY <1>4, <1>7, <1>8, <1>9 DEF IInv

LEMMA ExecuteKeeps ==
  ASSUME IInv, Execute
  PROVE  IInv'
<1> USE DEF Execute, Persist
<1>1. st' \in States /\ st'.attempts = st.attempts /\ st'.cur = st.cur
  BY DEF IInv, TypeOK, States
<1>2. here \in Nat /\ st.cur \in Nat /\ st.cur <= MaxIterations /\ here < st.cur
  <2>1. st \in States /\ here \in Nat /\ here < st.cur
    BY PolicyAssumption DEF IInv, TypeOK, StateInv
  <2>2. st.cur \in 0..MaxIterations
    BY <2>1 DEF States
  <2> QED
    BY <2>1, <2>2, PolicyAssumption
<1>3. st.cur \in 1..MaxIterations /\ here' \in 0..MaxIterations /\ here' <= st.cur
  BY <1>2, PolicyAssumption
<1>4. TypeOK'
  <2>1. ran' \subseteq 1..MaxIterations
    BY <1>3 DEF IInv, TypeOK
  <2>2. reran' \in BOOLEAN
    OBVIOUS
  <2> QED
    BY <1>1, <1>3, <2>1, <2>2 DEF IInv, TypeOK
<1>5. StateInv'
  BY <1>1, <1>3 DEF IInv, StateInv, Sound
<1>6. DiskInv'
  BY <1>1 DEF IInv, StateInv, DiskInv, Sound
<1>7. SuccessInv'
  BY DEF IInv, SuccessInv
<1> QED
  BY <1>4, <1>5, <1>6, <1>7 DEF IInv

(* What the stop guard is asked about. *)
Asked(flow, gate) ==
  [iter |-> st.cur, flow |-> flow, gate |-> gate,
   ok |-> flow /\ (gate.evaluated => Passed(gate)), guard |-> FALSE]

(* The attempt that ends is recorded behind all others, with the stop guard's *)
(* word, and a success of the process is that attempt's.                      *)
LEMMA RecordedIs ==
  ASSUME IInv, pc = "execute", NEW flow \in BOOLEAN,
         NEW gate \in GateResults \cup {NoGates}, NEW d \in Durations,
         RecordAttempt(flow, gate, d)
  PROVE  \E b \in Attempts :
           /\ b.iter = st.cur /\ b.flow = flow /\ b.gate = gate
           /\ b.guard = GuardStops(Append(st.attempts, Asked(flow, gate)))
           /\ ok' = b.ok
           /\ b.ok => b.flow /\ (b.gate.evaluated => Passed(b.gate))
           /\ st' \in States /\ st'.cur = st.cur
           /\ st'.attempts = Append(st.attempts, b)
           /\ file' = st' /\ pc' = "decide"
           /\ UNCHANGED <<report, incident, exit, gated>>
<1> DEFINE passed == flow /\ (gate.evaluated => Passed(gate))
           a == [iter |-> st.cur, flow |-> flow, gate |-> gate,
                 ok |-> passed, guard |-> FALSE]
           stop == GuardStops(Append(st.attempts, a))
           b == IF stop THEN [a EXCEPT !.ok = FALSE, !.guard = TRUE] ELSE a
           why == IF stop THEN "autonomous_guard_stop" ELSE st.reason
<1>1. st \in States /\ st.cur \in 1..MaxIterations /\ st.attempts \in Seq(Attempts)
  <2>1. st \in States /\ st.cur # 0
    BY DEF IInv, TypeOK, StateInv
  <2>2. st.cur \in 0..MaxIterations /\ st.attempts \in Seq(Attempts)
    BY <2>1 DEF States
  <2> QED
    BY <2>1, <2>2, PolicyAssumption
<1>2. passed \in BOOLEAN /\ stop \in BOOLEAN /\ stop = GuardStops(Append(st.attempts, Asked(flow, gate)))
  BY DEF Asked, GuardStops
<1>3. /\ b \in Attempts /\ b.iter = st.cur /\ b.flow = flow /\ b.gate = gate /\ b.guard = stop
      /\ b.ok => b.flow /\ (b.gate.evaluated => Passed(b.gate))
  <2> HIDE DEF passed, stop
  <2>1. /\ a \in Attempts /\ a.iter = st.cur /\ a.ok = passed /\ a.flow = flow /\ a.gate = gate
        /\ ~ a.guard
    BY <1>1, <1>2 DEF Attempts
  <2>2. [a EXCEPT !.ok = FALSE, !.guard = TRUE] \in Attempts
    BY <1>1, <1>2 DEF Attempts
  <2>3. LET c == [a EXCEPT !.ok = FALSE, !.guard = TRUE]
        IN  c.iter = st.cur /\ ~ c.ok /\ c.flow = flow /\ c.gate = gate /\ c.guard
    OBVIOUS
  <2> HIDE DEF a
  <2>4. CASE stop
    <3>1. b = [a EXCEPT !.ok = FALSE, !.guard = TRUE] /\ stop = TRUE
      BY <1>2, <2>4
    <3> QED
      BY <2>2, <2>3, <2>4, <3>1
  <2>5. CASE ~ stop
    <3>1. b = a /\ stop = FALSE /\ a.guard = FALSE
      BY <1>2, <2>1, <2>5 DEF Attempts
    <3> QED
      BY <2>1, <2>5, <3>1 DEF passed
  <2> QED
    BY <2>4, <2>5
<1>4. /\ st' = [st EXCEPT !.attempts = Append(@, b), !.reason = why]
      /\ file' = st' /\ pc' = "decide" /\ ok' = b.ok
      /\ UNCHANGED <<report, incident, exit, gated>>
  BY DEF RecordAttempt, Persist
<1> HIDE DEF b, stop
<1>5. Append(st.attempts, b) \in Seq(Attempts)
  BY <1>1, <1>3, AppendProperties
<1>6. /\ st' \in States /\ st'.cur = st.cur
      /\ st'.attempts = Append(st.attempts, b)
  BY <1>1, <1>4, <1>5 DEF States
<1> QED
  BY <1>2, <1>3, <1>4, <1>6

LEMMA AttemptKeeps ==
  ASSUME IInv, AttemptEnds
  PROVE  IInv' /\ IsPrefix(st.attempts, st'.attempts) /\ file' = st'
<1>1. PICK flow \in BOOLEAN, gate \in GateResults \cup {NoGates}, d \in Durations :
        pc = "execute" /\ RecordAttempt(flow, gate, d) /\ Elapse(d)
  BY DEF AttemptEnds
<1>2. UNCHANGED <<ran, reran, here, starts>>
  BY DEF AttemptEnds
<1>3. PICK b \in Attempts :
        /\ b.iter = st.cur
        /\ ok' = b.ok
        /\ b.ok => b.flow /\ (b.gate.evaluated => Passed(b.gate))
        /\ st' \in States /\ st'.cur = st.cur
        /\ st'.attempts = Append(st.attempts, b)
        /\ file' = st' /\ pc' = "decide"
        /\ UNCHANGED <<report, incident, exit, gated>>
  BY <1>1, RecordedIs
<1>4. st.attempts \in Seq(Attempts) /\ Ordered(st.attempts) /\ Under(st.attempts, b.iter)
  BY <1>1, <1>3 DEF IInv, TypeOK, States, StateInv, Sound
<1>5. Longer(st'.attempts, st.attempts, b) /\ IsPrefix(st.attempts, st'.attempts)
  BY <1>3, <1>4, Appended
<1>6. /\ Ordered(st'.attempts)
      /\ \A k \in DOMAIN st'.attempts : st'.attempts[k].iter <= b.iter
      /\ st'.attempts[Len(st'.attempts)] = b
  BY <1>4, <1>5, AppendSound
<1>7. Sound(st')
  BY <1>3, <1>6 DEF Sound
<1>8. TypeOK'
  <2>1. ok' \in BOOLEAN
    BY <1>3 DEF Attempts
  <2>2. clock' \in 0..TimeBudget /\ spent' \in 0..TimeBudget
    <3>1. clock + d \in Nat /\ spent + d \in Nat
      BY PolicyAssumption DEF IInv, TypeOK
    <3> QED
      BY <1>1, <3>1, UpToTyped DEF Elapse
  <2> QED
    BY <1>2, <1>3, <2>1, <2>2 DEF IInv, TypeOK
<1>9. StateInv'
  BY <1>2, <1>3, <1>7 DEF IInv, StateInv
<1>10. DiskInv'
  BY <1>3, <1>7 DEF IInv, DiskInv
<1>11. SuccessInv'
  <2>1. ok' => Earned(st')
    BY <1>3, <1>6 DEF Earned
  <2>2. exit' # "zero"
    BY <1>1, <1>3 DEF IInv, SuccessInv
  <2> QED
    BY <1>3, <2>1, <2>2 DEF SuccessInv
<1> QED
  BY <1>3, <1>5, <1>8, <1>9, <1>10, <1>11 DEF IInv

LEMMA EndKeeps ==
  ASSUME IInv, EmitIncident \/ EmitReport
  PROVE  IInv'
<1>1. CASE EmitIncident
  <2>1. TypeOK'
    BY <1>1 DEF IInv, TypeOK, EmitIncident, history
  <2>2. StateInv' /\ DiskInv' /\ SuccessInv'
    BY <1>1 DEF IInv, StateInv, DiskInv, SuccessInv, EmitIncident, history
  <2> QED
    BY <2>1, <2>2 DEF IInv
<1>2. CASE EmitReport
  <2> USE <1>2 DEF EmitReport, Down
  <2>1. TypeOK'
    <3>1. /\ st' \in States /\ pc' = "down" /\ ok' = FALSE /\ gated' = TRUE
          /\ exit' \in {"zero", "one", "none"} /\ clock' = 0 /\ here' = 0
      BY FreshIsSound
    <3>2. report' \in [kind : {"report"}, attempts : Seq(Attempts), ok : BOOLEAN]
      BY DEF IInv, TypeOK, States
    <3>3. 0 \in 0..TimeBudget /\ 0 \in 0..MaxIterations
      BY PolicyAssumption
    <3> QED
      BY <3>1, <3>2, <3>3 DEF IInv, TypeOK
  <2>2. StateInv'
    BY FreshIsSound DEF StateInv, NewState
  <2>3. DiskInv'
    BY DEF IInv, StateInv, Sound, DiskInv
  <2>4. SuccessInv'
    <3>1. ok => file = st /\ st \in States /\ Earned(st) /\ st.status = "completed"
      BY DEF IInv, TypeOK, DiskInv, SuccessInv
    <3>2. ok => SuccessIsEarned'
      <4>1. ok => /\ file'.kind = "state" /\ file'.status = "completed"
                  /\ Earned(file')
        BY <3>1 DEF States
      <4>2. ok => report'.kind = "report" /\ report'.ok /\ report'.attempts = file'.attempts
        BY <3>1
      <4> QED
        BY <4>1, <4>2 DEF SuccessIsEarned, Earned
    <3> QED
      BY <3>2 DEF SuccessInv
  <2> QED
    BY <2>1, <2>2, <2>3, <2>4 DEF IInv
<1> QED
  BY <1>1, <1>2

LEMMA CrashKeeps ==
  ASSUME IInv, Crash
  PROVE  IInv'
<1> USE DEF Crash, Down
<1>1. TypeOK'
  <2>1. st' \in States /\ pc' = "down" /\ ok' = FALSE /\ gated' = TRUE
    BY FreshIsSound
  <2>2. clock' \in 0..TimeBudget /\ here' \in 0..MaxIterations
    BY PolicyAssumption
  <2>3. spent' \in 0..TimeBudget
    <3>1. \A d \in Durations : spent + d \in Nat
      BY PolicyAssumption DEF IInv, TypeOK
    <3> QED
      BY <3>1, UpToTyped DEF IInv, TypeOK
  <2>4. file' \in {file, Torn} /\ report' \in {report, Torn}
    OBVIOUS
  <2>5. UNCHANGED <<incident, exit, ran, reran, starts>>
    OBVIOUS
  <2> QED
    BY ONLY <2>1, <2>2, <2>3, <2>4, <2>5, IInv DEF IInv, TypeOK
<1>2. StateInv'
  BY FreshIsSound DEF StateInv, NewState
<1>3. DiskInv'
  BY DEF IInv, DiskInv, Torn
<1>4. SuccessInv'
  BY DEF IInv, SuccessInv
<1> QED
  BY <1>1, <1>2, <1>3, <1>4 DEF IInv

LEMMA StutterKeeps == ASSUME IInv, UNCHANGED vars PROVE IInv'
BY DEF vars, IInv, TypeOK, StateInv, DiskInv, SuccessInv, SuccessIsEarned, Earned

LEMMA InvInductive == IInv /\ [Next]_vars => IInv'
BY BeginKeeps, PreflightKeeps, PersistKeeps, PlanKeeps, ExecuteKeeps, AttemptKeeps,
   EndKeeps, CrashKeeps, StutterKeeps DEF Next, Step

(* Type correctness. *)
THEOREM TypeCorrect == Spec => []TypeOK
<1>1. IInv => TypeOK
  BY DEF IInv
<1> QED
  BY InitInv, InvInductive, <1>1, PTL DEF Spec

(* A process that ends with exit code 0 leaves a completed session whose     *)
(* last attempt passed its workflow and its gates, whatever crashed before.  *)
THEOREM SuccessEarned == Spec => []SuccessIsEarned
<1>1. IInv => SuccessIsEarned
  BY DEF IInv, SuccessInv, SuccessIsEarned
<1> QED
  BY InitInv, InvInductive, <1>1, PTL DEF Spec

-----------------------------------------------------------------------------
(* Attempts stay on disk *)

LEMMA StepKeepsEvidence ==
  ASSUME IInv, Next, pc # "preflight", file.kind = "state", file'.kind = "state"
  PROVE  IsPrefix(file.attempts, file'.attempts)
<1>1. file \in States /\ file.attempts \in Seq(Attempts)
  BY DEF IInv, TypeOK, States, Absent, Torn
<1>2. IsPrefix(file.attempts, file.attempts)
  BY <1>1, LenProperties DEF IsPrefix
<1>3. file'.attempts = file.attempts \/ AttemptEnds
  <2>1. pc \notin {"down", "preflight"} => file = st
    BY DEF IInv, DiskInv
  <2>2. CASE \E p \in GatePolicies : StartFresh(p) \/ StartResume(p)
    BY <2>2 DEF StartFresh, StartResume, Begin, disk
  <2>3. CASE Crash
    BY <2>3 DEF Crash, Torn
  <2>4. CASE PreflightFails \/ PreflightPasses
    BY <2>4 DEF PreflightFails, PreflightPasses
  <2>5. CASE LoopEnds \/ EmitIncident \/ EmitReport
    BY <2>5 DEF LoopEnds, EmitIncident, EmitReport, disk
  <2>6. CASE BudgetSpent \/ Plan \/ Execute
    BY ZenonT(60), <1>1, <2>1, <2>6 DEF BudgetSpent, Plan, Execute, Persist, Fail, States
  <2>7. CASE Complete \/ GuardStop \/ IterationsSpent \/ Retry \/ Finish
    BY <1>1, <2>1, <2>7 DEF Complete, GuardStop, IterationsSpent, Retry, Finish,
                            Persist, Fail, States
  <2> QED
    BY <2>2, <2>3, <2>4, <2>5, <2>6, <2>7 DEF Next, Step
<1>4. AttemptEnds => IsPrefix(file.attempts, file'.attempts)
  <2>1. AttemptEnds => pc = "execute"
    BY DEF AttemptEnds
  <2>2. AttemptEnds => file = st
    BY <2>1 DEF IInv, DiskInv
  <2> QED
    BY <2>2, AttemptKeeps
<1> QED
  BY <1>2, <1>3, <1>4

(* A resume takes over every attempt the state file records, and no write of *)
(* the session drops, reorders or rewrites one.                              *)
THEOREM EvidenceIsKept == Spec => EvidenceKept
<1> DEFINE Keeps ==
      /\ Resumed /\ file.kind = "state" => st'.attempts = file.attempts
      /\ (pc # "preflight" /\ file.kind = "state" /\ file'.kind = "state")
           => IsPrefix(file.attempts, file'.attempts)
<1>1. IInv /\ [Next]_vars => [Keeps]_vars
  <2> SUFFICES ASSUME IInv, Next PROVE Keeps
    OBVIOUS
  <2>1. Resumed /\ file.kind = "state" => st'.attempts = file.attempts
    BY LoadedIs DEF IInv, Resumed, StartResume
  <2> QED
    BY <2>1, StepKeepsEvidence
<1> QED
  BY InitInv, InvInductive, <1>1, PTL DEF Spec, EvidenceKept

-----------------------------------------------------------------------------
(* No workflow runs twice *)

LEMMA OnceInit == Init => OnceInv
BY DEF Init, OnceInv, Absent, Torn

LEMMA OnceInductive ==
  ASSUME ~ TornWrites, IInv, OnceInv, [Next]_vars
  PROVE  OnceInv'
<1>1. st \in States /\ st.cur \in Nat /\ st.kind = "state"
  BY PolicyAssumption DEF IInv, TypeOK, States
<1>2. CASE \E p \in GatePolicies : StartFresh(p)
  BY <1>2 DEF OnceInv, StartFresh, Begin, disk
<1>3. CASE \E p \in GatePolicies : StartResume(p)
  <2>1. file # Absent /\ st' = Loaded /\ UNCHANGED <<ran, reran, file>> /\ pc' = "preflight"
    BY <1>3 DEF StartResume, Begin, disk
  <2>2. file.kind = "state" /\ st' = file
    BY <2>1, LoadedIs DEF IInv, TypeOK, OnceInv, States
  <2> QED
    BY <2>1, <2>2 DEF OnceInv
<1>4. CASE Crash
  BY <1>4 DEF OnceInv, Crash, Down
<1>5. CASE Plan
  <2>1. /\ st'.cur = st.cur + 1 /\ st'.kind = "state" /\ file' = st'
        /\ UNCHANGED <<ran, reran>> /\ pc = "loop"
    BY <1>1, <1>5 DEF Plan, Persist, history, States
  <2>2. ran \subseteq 1..st.cur
    BY <2>1 DEF OnceInv
  <2>3. ran \subseteq 1..st.cur + 1 /\ st.cur + 1 \notin ran
    BY <1>1, <2>2
  <2> QED
    BY <2>1, <2>3 DEF OnceInv, Absent, Torn
<1>6. CASE Execute
  <2>1. /\ st'.cur = st.cur /\ st'.kind = "state" /\ file' = st' /\ pc = "plan"
        /\ ran' = ran \cup {st.cur} /\ reran' = (reran \/ st.cur \in ran)
        /\ pc' = "execute"
    BY <1>1, <1>6 DEF Execute, Persist, States
  <2>2. ~ reran' /\ ran' \subseteq 1..st.cur
    <3>1. st.cur \in 1..st.cur
      BY <1>1, <2>1, PolicyAssumption DEF IInv, TypeOK, StateInv
    <3> QED
      BY <2>1, <3>1 DEF OnceInv
  <2> QED
    BY <2>1, <2>2 DEF OnceInv, Absent, Torn
<1>7. CASE PreflightFails \/ PreflightPasses \/ BudgetSpent \/ Complete \/ GuardStop
           \/ IterationsSpent \/ Retry \/ Finish
  <2>1. /\ st'.cur = st.cur /\ st'.kind = "state" /\ file' = st'
        /\ UNCHANGED <<ran, reran>> /\ pc # "down" /\ pc' # "plan"
    BY <1>1, <1>7 DEF PreflightFails, PreflightPasses, BudgetSpent, Complete,
         GuardStop, IterationsSpent, Retry, Finish, Persist, Fail, history, States
  <2> QED
    BY <2>1 DEF OnceInv, Absent, Torn
<1>8. CASE LoopEnds \/ EmitIncident \/ EmitReport
  BY <1>8 DEF OnceInv, LoopEnds, EmitIncident, EmitReport, Down, history, disk
<1>9. CASE AttemptEnds
  <2>1. pc = "execute" /\ UNCHANGED <<ran, reran>>
    BY <1>9 DEF AttemptEnds
  <2>2. st' \in States /\ st'.cur = st.cur /\ file' = st' /\ pc' = "decide"
    BY <1>9, RecordedIs DEF AttemptEnds
  <2> QED
    BY <2>1, <2>2 DEF OnceInv, States, Absent, Torn
<1>10. CASE UNCHANGED vars
  BY <1>10 DEF OnceInv, vars
<1> QED
  BY <1>2, <1>3, <1>4, <1>5, <1>6, <1>7, <1>8, <1>9, <1>10 DEF Next, Step

(* When a crash does not cut a write of the state file short, a session runs *)
(* the workflow of an iteration at most once, across any number of processes *)
(* that die at any moment.                                                   *)
THEOREM RunsOnce ==
  ASSUME ~ TornWrites
  PROVE  Spec => []NoIterationRunTwice
<1>1. OnceInv => NoIterationRunTwice
  BY DEF OnceInv, NoIterationRunTwice
<1>2. IInv /\ OnceInv /\ [Next]_vars => OnceInv'
  BY OnceInductive
<1> QED
  BY InitInv, InvInductive, OnceInit, <1>1, <1>2, PTL DEF Spec

-----------------------------------------------------------------------------
(* A guard stop holds *)

(* A process that has run an attempt goes on only where the guard, asked     *)
(* about all attempts recorded so far, did not stop it.                      *)
GuardInv ==
  /\ pc = "preflight" => here = 0
  /\ pc = "decide" /\ ~ Stopped => ~ GuardStops(st.attempts)
  /\ pc \in {"loop", "plan"} => here = 0 \/ ~ GuardStops(st.attempts)

LEMMA GuardAsked ==
  ASSUME IInv, AttemptEnds
  PROVE  ~ Stopped' => ~ GuardStops(st'.attempts)
<1>1. PICK flow \in BOOLEAN, gate \in GateResults \cup {NoGates}, d \in Durations :
        RecordAttempt(flow, gate, d)
  BY DEF AttemptEnds
<1> DEFINE passed == flow /\ (gate.evaluated => Passed(gate))
           a == [iter |-> st.cur, flow |-> flow, gate |-> gate, ok |-> passed, guard |-> FALSE]
           stop == GuardStops(Append(st.attempts, a))
           b == IF stop THEN [a EXCEPT !.ok = FALSE, !.guard = TRUE] ELSE a
<1>2. st' = [st EXCEPT !.attempts = Append(@, b),
                       !.reason = IF stop THEN "autonomous_guard_stop" ELSE @]
  BY <1>1 DEF RecordAttempt, Persist
<1>3. st \in States /\ st.attempts \in Seq(Attempts)
  BY DEF IInv, TypeOK, States
<1>4. st'.attempts = Append(st.attempts, b)
  <2> HIDE DEF b, stop
  <2> QED
    BY <1>2, <1>3 DEF States
<1>5. (stop => b.guard = TRUE) /\ (~ stop => b.guard = FALSE)
  <2> HIDE DEF passed, stop
  <2>1. a.guard = FALSE /\ [a EXCEPT !.ok = FALSE, !.guard = TRUE].guard = TRUE
    OBVIOUS
  <2> QED
    BY <2>1
<1>6. st'.attempts[Len(st'.attempts)] = b
  <2> HIDE DEF b
  <2> QED
    BY <1>3, <1>4, AppendProperties
<1>7. ~ Stopped' => ~ stop
  BY <1>5, <1>6 DEF Stopped
<1>8. ~ stop => st'.attempts = Append(st.attempts, a)
  BY <1>4
<1> QED
  BY <1>7, <1>8

LEMMA GuardInductive == IInv /\ GuardInv /\ [Next]_vars => GuardInv'
<1> SUFFICES ASSUME IInv, GuardInv, [Next]_vars PROVE GuardInv'
  OBVIOUS
<1>1. st \in States
  BY DEF IInv, TypeOK
<1>2. CASE \E p \in GatePolicies : StartFresh(p) \/ StartResume(p)
  BY <1>2 DEF GuardInv, StartFresh, StartResume, Begin
<1>3. CASE PreflightFails \/ PreflightPasses
  BY <1>3 DEF GuardInv, PreflightFails, PreflightPasses, history
<1>4. CASE LoopEnds \/ EmitIncident
  BY <1>4 DEF GuardInv, LoopEnds, EmitIncident
<1>5. CASE EmitReport \/ Crash
  BY <1>5 DEF GuardInv, EmitReport, Crash, Down
<1>6. CASE BudgetSpent \/ Execute \/ Complete \/ GuardStop \/ IterationsSpent \/ Finish
  BY <1>6 DEF GuardInv, BudgetSpent, Execute, Complete, GuardStop, IterationsSpent, Finish, Persist
<1>7. CASE Plan \/ Retry
  <2>1. st'.attempts = st.attempts /\ UNCHANGED here
    BY <1>1, <1>7 DEF Plan, Retry, Persist, history, States
  <2>2. pc \in {"loop", "decide"} /\ (pc = "decide" => ~ Stopped)
    BY <1>7 DEF Plan, Retry
  <2>3. pc' \in {"loop", "plan"}
    BY <1>7 DEF Plan, Retry, Persist
  <2> QED
    BY <2>1, <2>2, <2>3 DEF GuardInv
<1>8. CASE AttemptEnds
  <2>1. pc' = "decide"
    BY <1>8 DEF AttemptEnds, RecordAttempt, Persist
  <2> QED
    BY <1>8, <2>1, GuardAsked DEF GuardInv
<1>9. CASE UNCHANGED vars
  BY <1>9 DEF GuardInv, Stopped, vars
<1> QED
  BY <1>2, <1>3, <1>4, <1>5, <1>6, <1>7, <1>8, <1>9 DEF Next, Step

(* Once the last MaxGateFailures gate outcomes of a session failed, a        *)
(* process starts no attempt except the first one an operator's resume buys. *)
THEOREM GuardHolding == Spec => GuardHolds
<1> DEFINE Holds == Execute => \/ here = 0
                               \/ ~ (Len(FailingTail(st.attempts)) >= MaxGateFailures)
<1>1. Init => GuardInv
  BY DEF Init, GuardInv
<1>2. IInv /\ GuardInv /\ [Next]_vars => [Holds]_vars
  <2> SUFFICES ASSUME GuardInv, Execute
               PROVE  here = 0 \/ ~ (Len(FailingTail(st.attempts)) >= MaxGateFailures)
    OBVIOUS
  <2>1. here = 0 \/ ~ GuardStops(st.attempts)
    BY DEF Execute, GuardInv
  <2>2. FailingTail(st.attempts) = <<>>
          => ~ (Len(FailingTail(st.attempts)) >= MaxGateFailures)
    <3>1. Len(<<>>) = 0 /\ ~ (0 >= MaxGateFailures)
      BY PolicyAssumption
    <3> QED
      BY <3>1
  <2> QED
    BY <2>1, <2>2 DEF GuardStops
<1> QED
  BY InitInv, InvInductive, GuardInductive, <1>1, <1>2, PTL DEF Spec, GuardHolds

-----------------------------------------------------------------------------
(* The session among its records *)

(* Every step of Records is a step of the session or leaves it alone. *)
LEMMA StepImplements ==
  ASSUME BOOLEAN \subseteq GatePolicies, RecordsNext
  PROVE  [Next]_vars
<1>1. CASE (\E c \in Launched : Launch(c)) \/ Exits \/ (\E o \in Outcomes : Work(o)) \/ Judge
           \/ WriteNext \/ DiesLate
  BY <1>1 DEF Launch, Exits, Work, Judge, WriteNext, DiesLate, vars
<1>2. CASE Reviewers
  BY <1>2 DEF Reviewers, Review, Steer, Act, Tick, vars
<1>3. CASE Starts
  <2>1. PICK p \in BOOLEAN : StartFresh(p) \/ StartResume(p)
    <3> DEFINE q == (QualityGatePolicy(Load(cfg).run).k = "gates")
    <3>1. StartFresh(q) \/ StartResume(q)
      BY <1>3 DEF Starts, Policies
    <3>2. q \in BOOLEAN
      OBVIOUS
    <3> HIDE DEF q
    <3> QED
      BY <3>1, <3>2
  <2> QED
    BY <2>1 DEF Next
<1>4. CASE Preflight
  BY <1>4 DEF Preflight, Next, Step
<1>5. CASE Planned \/ OutOfTime \/ AttemptRecorded \/ Decides \/ Leaves
  BY <1>5 DEF Planned, OutOfTime, AttemptRecorded, Decides, Leaves, Next, Step
<1>6. CASE Finishes \/ WritesPacket \/ WritesReport \/ Dies
  BY <1>6 DEF Finishes, WritesPacket, WritesReport, Dies, Next, Step
<1> QED
  BY <1>1, <1>2, <1>3, <1>4, <1>5, <1>6 DEF RecordsNext

(* With its configuration, the files around it and its reviewers, a session  *)
(* is still the session AutonomousSession describes: each theorem above is   *)
(* true of it.  A start may or may not have gates.                           *)
THEOREM SessionImplemented ==
  ASSUME BOOLEAN \subseteq GatePolicies
  PROVE  RecordsSpec => Spec
<1>1. RecordsInit => Init
  BY DEF RecordsInit
<1>2. [RecordsNext]_allVars => [Next]_vars
  BY StepImplements DEF allVars
<1> QED
  BY <1>1, <1>2, PTL DEF RecordsSpec, Spec

-----------------------------------------------------------------------------
(* No strategy is tried a third time in vain *)

(* The rotation of a name leaves what the last two attempts tried, when they *)
(* tried the same. *)
LEMMA RotatesAway ==
  ASSUME NEW ds, NEW n \in Nat, n >= 2, Len(ds) = n, DOMAIN ds = 1..n,
         ds[n - 1].strategy = ds[n].strategy,
         NEW name, \E i \in DOMAIN Order : Order[i] = name
  PROVE  Rotated(name, ds) # ds[n].strategy
<1> DEFINE recent == {ds[i].strategy : i \in {Len(ds) - 1, Len(ds)} \cap DOMAIN ds}
           at == CHOOSE i \in DOMAIN Order : Order[i] = name
           Turn(k) == Order[((at - 1 + k) % Len(Order)) + 1]
           free == {k \in DOMAIN Order : Turn(k) \notin recent}
<1>1. recent = {ds[n].strategy}
  <2>1. {Len(ds) - 1, Len(ds)} \cap DOMAIN ds = {n - 1, n}
    OBVIOUS
  <2> QED
    BY <2>1
<1>2. at \in 1..4 /\ DOMAIN Order = 1..4 /\ Len(Order) = 4
  BY DEF Order
<1>3. free # {}
  <2>1. Turn(1) # Turn(2)
    <3> HIDE DEF at
    <3>1. CASE at = 1
      BY <3>1 DEF Order
    <3>2. CASE at = 2
      BY <3>2 DEF Order
    <3>3. CASE at = 3
      BY <3>3 DEF Order
    <3>4. CASE at = 4
      BY <3>4 DEF Order
    <3> QED
      BY <1>2, <3>1, <3>2, <3>3, <3>4
  <2> HIDE DEF Turn, recent
  <2> QED
    BY <1>1, <1>2, <2>1
<1>4. Min(free) \in free
  <2>1. free \in SUBSET Nat
    <3> HIDE DEF Turn, recent
    <3> QED
      BY <1>2
  <2> HIDE DEF free
  <2>2. PICK m \in free : \A k \in free : m <= k
    BY <1>3, <2>1, LeastNumber
  <2>3. Min(free) = CHOOSE x \in free : \A y \in free : x <= y
    BY DEF Min
  <2> QED
    BY <2>2, <2>3
<1>5. Rotated(name, ds) = Turn(Min(free))
  <2>1. Rotated(name, ds) = Turn(IF free = {} THEN 1 ELSE Min(free))
    BY DEF Rotated
  <2> HIDE DEF free, Turn
  <2> QED
    BY <1>3, <2>1
<1> HIDE DEF Turn, recent
<1>6. Turn(Min(free)) \notin recent
  BY <1>4
<1> QED
  BY <1>1, <1>5, <1>6

(* Every strategy an attempt may be given is one of the four. *)
LEMMA RoutedKnown ==
  \A codes : \E i \in DOMAIN Order : Order[i] = Routed(codes)
<1> TAKE codes
<1> DEFINE names == {FocusOf(codes[i]) : i \in DOMAIN codes}
<1>1. \A x \in names : x \in {"tests-focused", "security-focused", "perf-focused"}
  BY DEF FocusOf
<1>2. Cardinality(names) = 1 => \E x : x \in names
  <2> HIDE DEF names
  <2>1. names = {} => Cardinality(names) = 0
    BY FS_EmptySet
  <2> QED
    BY <2>1
<1>3. Routed(codes) \in {"tests-focused", "security-focused", "perf-focused", "mixed"}
  <2>1. Routed(codes) = IF Cardinality(names) = 1 THEN CHOOSE x \in names : TRUE ELSE "mixed"
    BY DEF Routed
  <2> HIDE DEF names
  <2>2. Cardinality(names) = 1 => (CHOOSE x \in names : TRUE) \in names
    BY <1>2
  <2> QED
    BY <1>1, <2>1, <2>2
<1>4. /\ 1 \in DOMAIN Order /\ 2 \in DOMAIN Order /\ 3 \in DOMAIN Order /\ 4 \in DOMAIN Order
      /\ Order[1] = "tests-focused" /\ Order[2] = "security-focused"
      /\ Order[3] = "perf-focused" /\ Order[4] = "mixed"
  BY DEF Order
<1> HIDE DEF names
<1> QED
  BY <1>3, <1>4

LEMMA WeakestKnown ==
  \A parts : \E i \in DOMAIN Order : Order[i] = WeakestPart(parts)
<1> TAKE parts
<1>1. WeakestPart(parts) \in {"tests-focused", "security-focused", "mixed"}
  BY DEF WeakestPart
<1>2. /\ 1 \in DOMAIN Order /\ 2 \in DOMAIN Order /\ 4 \in DOMAIN Order
      /\ Order[1] = "tests-focused" /\ Order[2] = "security-focused" /\ Order[4] = "mixed"
  BY DEF Order
<1> QED
  BY <1>1, <1>2

(* After two attempts of one strategy, the second no better than the first,  *)
(* the next has another. *)
Vain(ds, j) ==
  /\ ds[j - 1].gated /\ ds[j].gated /\ ds[j - 1].strategy = ds[j].strategy
  /\ ~ Better(ds[j - 1], ds[j])

LEMMA StrategyChanges ==
  ASSUME NEW ds, NEW n \in Nat, n >= 2, Len(ds) = n, DOMAIN ds = 1..n, ds # <<>>, Vain(ds, n)
  PROVE  Strategy(ds) # ds[n].strategy
<1> DEFINE last == ds[Len(ds)]
           routed == Routed(last.codes)
           wanted == IF routed = "mixed" /\ last.gated THEN WeakestPart(last.composite.parts)
                     ELSE routed
           same == {i \in DOMAIN ds : ds[i].strategy = wanted /\ ds[i].gated}
           newest == Max(same)
           older == Max(same \ {newest})
<1>1. Strategy(ds) = IF Cardinality(same) >= 2 /\ ~ Better(ds[older], ds[newest])
                     THEN Rotated(wanted, ds) ELSE wanted
  BY DEF Strategy
<1>2. \E i \in DOMAIN Order : Order[i] = wanted
  BY RoutedKnown, WeakestKnown
<1> HIDE DEF wanted
<1>3. Rotated(wanted, ds) # ds[n].strategy
  BY <1>2, RotatesAway DEF Vain
<1>4. CASE wanted # ds[n].strategy
  BY <1>1, <1>3, <1>4
<1>5. CASE wanted = ds[n].strategy
  <2>1. n \in same /\ n - 1 \in same /\ same \subseteq 1..n
    BY <1>5 DEF Vain
  <2> HIDE DEF same
  <2>2. newest = n
    <3>1. same \subseteq Nat /\ \A x \in same : n >= x
      BY <2>1
    <3> QED
      BY <2>1, <3>1, LargestIs
  <2>3. older = n - 1
    <3> DEFINE rest == same \ {n}
    <3>1. n - 1 \in rest /\ rest \subseteq Nat /\ \A x \in rest : n - 1 >= x
      BY <2>1
    <3> HIDE DEF rest
    <3>2. Max(rest) = n - 1
      BY <3>1, LargestIs
    <3> QED
      BY <2>2, <3>2 DEF rest
  <2>4. Cardinality(same) >= 2
    <3>1. IsFiniteSet(1..n)
      BY FS_Interval
    <3>2. IsFiniteSet(same)
      BY <2>1, <3>1, FS_Subset
    <3>3. Cardinality({n - 1, n}) = 2
      <4>1. IsFiniteSet({n}) /\ Cardinality({n}) = 1
        BY FS_Singleton
      <4>2. Cardinality({n} \cup {n - 1}) = Cardinality({n}) + 1
        <5>1. n - 1 \notin {n}
          OBVIOUS
        <5> QED
          BY <4>1, <5>1, FS_AddElement
      <4>3. {n - 1, n} = {n} \cup {n - 1}
        OBVIOUS
      <4> QED
        BY <4>1, <4>2, <4>3
    <3>4. Cardinality({n - 1, n}) <= Cardinality(same)
      BY <2>1, <3>2, FS_Subset
    <3>5. Cardinality(same) \in Nat
      BY <3>2, FS_CardinalityType
    <3> QED
      BY <3>3, <3>4, <3>5
  <2>5. ~ Better(ds[older], ds[newest])
    BY <2>2, <2>3 DEF Vain
  <2> HIDE DEF older, newest
  <2> QED
    BY <1>1, <1>3, <2>4, <2>5
<1> QED
  BY <1>4, <1>5

GateCodes == {"tests", "security", "perf_max", "perf_baseline"}

(* A detail is of an attempt: of its iteration, with its gates' outcome and  *)
(* the stop guard's word. *)
Agrees(d, a) ==
  /\ d.iter = a.iter /\ d.gated = a.gate.evaluated
  /\ d.codes \in Seq(GateCodes) /\ (d.gated => a.gate.reasons = Len(d.codes))
  /\ a.guard = (d.guard # "none")

(* The details ds tell of the attempts as, one each, and none of them is a   *)
(* third try in vain. *)
Third(ds) == \A k \in DOMAIN ds : k > 2 /\ Vain(ds, k - 1) => ds[k].strategy # ds[k - 1].strategy

Tells(ds, as) ==
  /\ DOMAIN ds = DOMAIN as /\ ds = [k \in DOMAIN ds |-> ds[k]]
  /\ \A k \in DOMAIN as : Agrees(ds[k], as[k])
  /\ Third(ds)

(* Between its verdict and its place in the state an attempt is in the       *)
(* details only. *)
Recording == mem.cur # NoAttempt /\ mem.cur.judged

(* What the details hold of it then is what the state will say of it. *)
ToRecord(a) ==
  /\ a.iter = st.cur /\ a.gated \in BOOLEAN
  /\ a.codes \in Seq(GateCodes) /\ (~ a.gated => a.codes = <<>>)
  /\ a.guard = GuardReason(Append(st.attempts, AttemptOf(a, mem.cur.outcome.flow = "passed")))

(* The files a process writes one after the other. *)
ToWrite == {"strategy", "gates", "guard", "meta", "trust", "draft"}

LEMMA Writable ==
  /\ <<>> \in Seq(ToWrite)
  /\ \A x \in ToWrite : <<x>> \in Seq(ToWrite)
  /\ \A x, y \in ToWrite : <<x, y>> \in Seq(ToWrite)
  /\ \A q \in Seq(ToWrite) : q # <<>> => q[1] # "report" /\ Tail(q) \in Seq(ToWrite)
<1>1. \A x \in ToWrite : x # "report"
  BY DEF ToWrite
<1>2. \A q \in Seq(ToWrite) : q # <<>> => q[1] \in ToWrite /\ Tail(q) \in Seq(ToWrite)
  OBVIOUS
<1> QED
  BY <1>1, <1>2

RecInv ==
  /\ {"det", "cur"} \subseteq DOMAIN mem /\ "report" \in DOMAIN art
  /\ mem.cur # NoAttempt => pc = "execute"
  /\ ~ Recording => Tells(mem.det, st.attempts)
  /\ Recording => \E d, a : /\ Tells(d, st.attempts) /\ ToRecord(a)
                            /\ mem.det = Append(d, a) /\ Third(mem.det)
  /\ file.kind = "state" => Tells(kept.det, file.attempts)
  /\ Found(art.report) <=> report.kind = "report"
  /\ Found(art.report) => Tells(art.report.of.attempts, report.attempts)
  /\ todo \in Seq(ToWrite)

(* A sequence, whatever it holds, and what appending to it does. *)
LEMMA AnyAppended ==
  ASSUME NEW d, NEW n \in Nat, DOMAIN d = 1..n, d = [k \in 1..n |-> d[k]], NEW a
  PROVE  LET e == Append(d, a)
         IN  /\ Len(d) = n /\ (d = <<>> <=> n = 0)
             /\ DOMAIN e = 1..(n + 1) /\ e = [k \in 1..(n + 1) |-> e[k]]
             /\ Len(e) = n + 1 /\ e[n + 1] = a /\ \A k \in 1..n : e[k] = d[k]
<1> DEFINE S == {d[k] : k \in 1..n} \cup {a}
<1>1. d \in [1..n -> S]
  OBVIOUS
<1>2. d \in Seq(S) /\ a \in S
  BY <1>1
<1> HIDE DEF S
<1>3. Len(d) = n
  BY <1>2, LenProperties
<1>4. d = <<>> <=> n = 0
  BY <1>2, <1>3, EmptySeq
<1> DEFINE e == Append(d, a)
<1>5. /\ e \in Seq(S) /\ Len(e) = n + 1
      /\ e[n + 1] = a /\ \A k \in 1..n : e[k] = d[k]
  BY <1>2, <1>3, AppendProperties
<1> HIDE DEF e
<1>6. e \in [1..(n + 1) -> S]
  BY <1>5, LenProperties
<1>7. DOMAIN e = 1..(n + 1) /\ e = [k \in 1..(n + 1) |-> e[k]]
  BY <1>6
<1> QED
  BY <1>3, <1>4, <1>5, <1>7 DEF e

(* The strategy of the next attempt is no third try. *)
LEMMA ThirdAppended ==
  ASSUME NEW d, NEW n \in Nat, DOMAIN d = 1..n, d = [k \in 1..n |-> d[k]],
         Third(d), NEW a, a.strategy = Strategy(d)
  PROVE  Third(Append(d, a))
<1> DEFINE e == Append(d, a)
<1>1. /\ Len(d) = n /\ (d = <<>> <=> n = 0) /\ DOMAIN e = 1..(n + 1)
      /\ e[n + 1] = a /\ \A k \in 1..n : e[k] = d[k]
  BY AnyAppended
<1> HIDE DEF e
<1>2. SUFFICES ASSUME NEW k \in 1..(n + 1), k > 2, Vain(e, k - 1)
               PROVE  e[k].strategy # e[k - 1].strategy
  BY <1>1 DEF Third, e
<1>3. k - 1 \in 1..n /\ (k - 1) - 1 \in 1..n
  BY <1>2
<1>4. Vain(d, k - 1) /\ e[k - 1] = d[k - 1]
  BY <1>1, <1>2, <1>3 DEF Vain
<1>5. CASE k = n + 1
  <2>1. k - 1 = n /\ n >= 2 /\ n # 0
    BY <1>2, <1>5
  <2>2. Strategy(d) # d[n].strategy
    BY <1>1, <1>4, <2>1, StrategyChanges
  <2> QED
    BY <1>1, <1>4, <1>5, <2>1, <2>2
<1>6. CASE k # n + 1
  <2>1. k \in 1..n /\ e[k] = d[k]
    BY <1>1, <1>2, <1>6
  <2> QED
    BY <1>2, <1>4, <2>1 DEF Third
<1> QED
  BY <1>5, <1>6

LEMMA TellsAppended ==
  ASSUME NEW rs \in Seq(Attempts), NEW b, NEW bs, Longer(bs, rs, b),
         NEW d, Tells(d, rs), NEW a, Agrees(a, b), Third(Append(d, a))
  PROVE  Tells(Append(d, a), bs)
<1> DEFINE n == Len(rs)
           e == Append(d, a)
<1>1. n \in Nat /\ DOMAIN rs = 1..n /\ DOMAIN bs = 1..(n + 1)
      /\ bs[n + 1] = b /\ \A k \in 1..n : bs[k] = rs[k]
  BY DEF Longer
<1>2. DOMAIN d = 1..n /\ d = [k \in 1..n |-> d[k]] /\ \A k \in 1..n : Agrees(d[k], rs[k])
  BY <1>1 DEF Tells
<1> HIDE DEF n
<1>3. /\ DOMAIN e = 1..(n + 1) /\ e = [k \in 1..(n + 1) |-> e[k]]
      /\ e[n + 1] = a /\ \A k \in 1..n : e[k] = d[k]
  BY <1>1, <1>2, AnyAppended
<1> HIDE DEF e
<1>4. \A k \in DOMAIN bs : Agrees(e[k], bs[k])
  <2> TAKE k \in DOMAIN bs
  <2>1. CASE k = n + 1
    BY <1>1, <1>3, <2>1
  <2>2. CASE k # n + 1
    <3>1. k \in 1..n
      BY <1>1, <2>2
    <3> QED
      BY <1>1, <1>2, <1>3, <3>1
  <2> QED
    BY <2>1, <2>2
<1>5. Third(e)
  BY DEF e
<1> QED
  BY <1>1, <1>3, <1>4, <1>5 DEF Tells, e

(* Details of attempts in order are in order, and stay when they are sorted. *)
LEMMA SortedTold ==
  ASSUME NEW rs \in Seq(Attempts), Ordered(rs), NEW ds, Tells(ds, rs)
  PROVE  Sorted(ds) = ds
<1> DEFINE n == Len(rs)
           R == {ds[k] : k \in 1..n}
<1>1. n \in Nat /\ DOMAIN rs = 1..n
  BY LenProperties
<1>2. DOMAIN ds = 1..n /\ ds = [k \in 1..n |-> ds[k]] /\ \A k \in 1..n : ds[k].iter = rs[k].iter
  BY <1>1 DEF Tells, Agrees
<1>3. \A r \in R : r.iter \in Nat
  BY <1>1, <1>2, AttemptIters
<1> HIDE DEF n
<1>4. ds \in [1..n -> R]
  BY <1>2
<1>5. ds \in Seq(R)
  BY <1>1, <1>4
<1>6. Ordered(ds)
  BY <1>1, <1>2 DEF Ordered
<1> HIDE DEF R
<1>7. ByIteration({ds[k] : k \in {j \in DOMAIN ds :
                     \A m \in j + 1..Len(ds) : ds[m].iter # ds[j].iter}}) = ds
  <2>1. {ds[k] : k \in {j \in DOMAIN ds : \A m \in j + 1..Len(ds) : ds[m].iter # ds[j].iter}}
        = {ds[k] : k \in DOMAIN ds}
    BY <1>3, <1>5, <1>6, AllLatest, Zenon
  <2>2. ByIteration({ds[k] : k \in DOMAIN ds}) = ds
    BY <1>3, <1>5, <1>6, OrderedStays, Zenon
  <2> QED
    BY <2>1, <2>2, Zenon
<1> QED
  BY <1>7 DEF Sorted, Normalize

LEMMA NothingTold == Tells(<<>>, <<>>)
BY DEF Tells, Third

LEMMA RecInit == RecordsInit => RecInv
<1> SUFFICES ASSUME RecordsInit PROVE RecInv
  OBVIOUS
<1>1. mem.det = <<>> /\ mem.cur = NoAttempt /\ {"det", "cur"} \subseteq DOMAIN mem
  BY DEF RecordsInit, NewMem
<1>2. art.report = Absent /\ "report" \in DOMAIN art
  BY DEF RecordsInit
<1>3. st.attempts = <<>> /\ file = Absent /\ report = Absent /\ todo = <<>>
  BY DEF RecordsInit, Init, NewState
<1> QED
  BY <1>1, <1>2, <1>3, NothingTold, Writable DEF RecInv, Recording, Found, Absent

(* What neither the session's own state nor its details depend on. *)
LEMMA AsideKeeps ==
  ASSUME RecInv, UNCHANGED <<vars, mem, kept, todo>>, art'.report = art.report,
         "report" \in DOMAIN art'
  PROVE  RecInv'
BY DEF RecInv, Recording, ToRecord, vars

LEMMA WriterKeeps ==
  ASSUME RecInv, WriteNext \/ DiesLate
  PROVE  RecInv'
<1>1. todo \in Seq(ToWrite) /\ (todo # <<>> => todo[1] # "report" /\ Tail(todo) \in Seq(ToWrite))
  BY Writable DEF RecInv
<1>2. todo' \in Seq(ToWrite)
  BY <1>1, Writable DEF WriteNext, DiesLate
<1>3. art'.report = art.report /\ "report" \in DOMAIN art'
  <2>1. CASE WriteNext
    <3> DEFINE c == F(Content(todo[1]))
    <3>1. art' = [art EXCEPT ![todo[1]] = c] /\ todo # <<>>
      BY <2>1 DEF WriteNext
    <3> HIDE DEF c
    <3> QED
      BY <1>1, <3>1 DEF RecInv
  <2>2. CASE DiesLate
    BY <1>1, <2>2 DEF DiesLate, Left, RecInv
  <2> QED
    BY <2>1, <2>2
<1>4. UNCHANGED <<vars, mem, kept>>
  BY DEF WriteNext, DiesLate
<1> QED
  BY <1>2, <1>3, <1>4 DEF RecInv, Recording, ToRecord, vars

LEMMA ReviewersKeep ==
  ASSUME RecInv, Reviewers
  PROVE  RecInv'
<1>1. UNCHANGED <<vars, mem, kept, todo>>
  BY DEF Reviewers, Review, Steer, Act, Tick
<1>2. art'.report = art.report /\ "report" \in DOMAIN art'
  <2>1. art' = art \/ (\E x : art' = [art EXCEPT !.approvals = x])
        \/ (\E x : art' = [art EXCEPT !.workflow = x])
    BY DEF Reviewers, Review, Steer, Tick
  <2> QED
    BY <2>1 DEF RecInv
<1> QED
  BY <1>1, <1>2, AsideKeeps

LEMMA LaunchKeeps ==
  ASSUME RecInv, (\E c \in Launched : Launch(c)) \/ Exits
  PROVE  RecInv'
<1>1. UNCHANGED <<vars, mem, kept, todo, art>>
  BY DEF Launch, Exits
<1> QED
  BY <1>1, AsideKeeps DEF RecInv

LEMMA StartsKeeps ==
  ASSUME IInv, RecInv, Starts
  PROVE  RecInv'
<1>1. UNCHANGED <<kept, todo, art, file, report>> /\ pc' = "preflight"
  BY DEF Starts, StartFresh, StartResume, Begin, disk
<1>2. mem'.cur = NoAttempt /\ {"det", "cur"} \subseteq DOMAIN mem'
  BY DEF Starts, NewMem
<1>3. \/ st' = NewState /\ mem'.det = <<>>
      \/ file # Absent /\ st' = Loaded /\ mem'.det = Sorted(Restored.det)
  BY DEF Starts, StartFresh, StartResume, NewMem
<1>4. Tells(mem'.det, st'.attempts)
  <2>1. CASE st' = NewState /\ mem'.det = <<>>
    BY <2>1, NothingTold DEF NewState
  <2>2. CASE file # Absent /\ st' = Loaded /\ mem'.det = Sorted(Restored.det)
    <3>1. Loaded \in States /\ Sound(Loaded) /\ (file.kind = "state" => Loaded = file)
      BY <2>2, LoadedIs DEF IInv
    <3>2. Loaded.attempts \in Seq(Attempts) /\ Ordered(Loaded.attempts)
      BY <3>1 DEF States, Sound
    <3>3. Tells(Restored.det, Loaded.attempts)
      <4>1. CASE file.kind = "state"
        BY <3>1, <4>1 DEF Restored, RecInv
      <4>2. CASE file.kind # "state"
        <5>1. file = Torn
          BY <2>2, <4>2 DEF IInv, TypeOK, States
        <5>2. Loaded = Recovered
          BY <5>1, RecoveredIsSound, SoundIsNormal DEF Loaded, IInv
        <5>3. Recovered.attempts = IF report.kind = "report" THEN report.attempts ELSE <<>>
          BY DEF Recovered, NewState
        <5>4. Restored.det = IF Found(art.report) THEN art.report.of.attempts ELSE <<>>
          BY <4>2 DEF Restored
        <5> QED
          BY <5>2, <5>3, <5>4, NothingTold DEF RecInv
      <4> QED
        BY <4>1, <4>2
    <3> QED
      BY <2>2, <3>2, <3>3, SortedTold
  <2> QED
    BY <1>3, <2>1, <2>2
<1> QED
  BY <1>1, <1>2, <1>4 DEF RecInv, Recording

(* A write of the state that records no attempt. *)
LEMMA WriteKeeps ==
  ASSUME RecInv, file' = st', st'.attempts = st.attempts, UNCHANGED <<report, art>>,
         mem'.det = mem.det, kept'.det = mem.det, mem'.cur = NoAttempt, mem.cur = NoAttempt,
         {"det", "cur"} \subseteq DOMAIN mem', todo' \in {todo, <<>>, <<"meta">>, <<"meta", "guard">>}
  PROVE  RecInv'
<1>1. Tells(mem'.det, st'.attempts) /\ Tells(kept'.det, file'.attempts)
  BY DEF RecInv, Recording
<1>2. todo' \in Seq(ToWrite)
  BY Writable DEF RecInv, ToWrite
<1> QED
  BY <1>1, <1>2 DEF RecInv, Recording

LEMMA PreflightKeepsRecords ==
  ASSUME IInv, RecInv, Preflight
  PROVE  RecInv'
<1>1. st \in States
  BY DEF IInv, TypeOK
<1>2. PreflightPasses \/ PreflightFails
  BY DEF Preflight
<1>3. st'.attempts = st.attempts /\ file' = st' /\ report' = report /\ pc = "preflight"
  BY <1>1, <1>2 DEF PreflightPasses, PreflightFails, States
<1>4. mem.cur = NoAttempt
  BY <1>3 DEF RecInv
<1>5. /\ mem'.det = mem.det /\ mem'.cur = mem.cur /\ {"det", "cur"} \subseteq DOMAIN mem'
      /\ todo' \in {<<>>, <<"meta">>}
  BY DEF Preflight, RecInv
<1>6. kept'.det = mem.det /\ art' = art
  BY <1>5 DEF Preflight, Noted
<1> QED
  BY <1>3, <1>4, <1>5, <1>6, WriteKeeps

LEMMA LoopKeepsRecords ==
  ASSUME IInv, RecInv, Planned \/ OutOfTime \/ Decides \/ Finishes
  PROVE  RecInv'
<1>1. st \in States
  BY DEF IInv, TypeOK
<1>2. Plan \/ Execute \/ BudgetSpent \/ Complete \/ GuardStop \/ Retry \/ IterationsSpent \/ Finish
  BY DEF Planned, OutOfTime, Decides, Finishes
<1>3. st'.attempts = st.attempts /\ file' = st' /\ report' = report /\ pc # "execute"
  BY <1>1, <1>2 DEF Plan, Execute, BudgetSpent, Complete, GuardStop, Retry, IterationsSpent,
                    Finish, Persist, Fail, States
<1>4. mem.cur = NoAttempt
  BY <1>3 DEF RecInv
<1>5. mem' = mem \/ \E why : mem' = [mem EXCEPT !.budget = why]
  BY DEF Planned, OutOfTime, Decides, Finishes, BudgetWas
<1>6. mem'.det = mem.det /\ mem'.cur = mem.cur /\ {"det", "cur"} \subseteq DOMAIN mem'
  BY <1>5 DEF RecInv
<1>7. kept'.det = mem.det /\ art' = art /\ todo' \in {todo, <<"meta", "guard">>}
  BY <1>6 DEF Planned, OutOfTime, Decides, Finishes, Noted
<1> QED
  BY <1>3, <1>4, <1>6, <1>7, WriteKeeps

LEMMA LeavesKeeps ==
  ASSUME RecInv, Leaves
  PROVE  RecInv'
<1>1. /\ UNCHANGED <<st, file, report, mem, kept, todo, art>> /\ pc = "loop"
  BY DEF Leaves, LoopEnds, records, disk
<1> QED
  BY <1>1 DEF RecInv, Recording

LEMMA PacketKeeps ==
  ASSUME RecInv, WritesPacket
  PROVE  RecInv'
<1>1. UNCHANGED <<st, file, report, mem, kept>> /\ pc = "incident"
  BY DEF WritesPacket, EmitIncident
<1>2. art' = art \/ \E x : art' = [art EXCEPT !.packet = x]
  BY DEF WritesPacket
<1>3. art'.report = art.report /\ "report" \in DOMAIN art'
  BY <1>2 DEF RecInv
<1>4. todo' = todo \/ todo' = <<"draft">>
  BY DEF WritesPacket
<1>5. todo' \in Seq(ToWrite)
  BY <1>4, Writable DEF RecInv, ToWrite
<1> QED
  BY <1>1, <1>3, <1>5 DEF RecInv, Recording

LEMMA ReportKeeps ==
  ASSUME RecInv, WritesReport
  PROVE  RecInv'
<1>1. /\ pc = "report" /\ pc' = "down" /\ st' = NewState /\ UNCHANGED <<file, kept>>
      /\ report' = [kind |-> "report", attempts |-> st.attempts, ok |-> ok]
  BY DEF WritesReport, EmitReport, Down
<1>2. Tells(mem.det, st.attempts)
  BY <1>1 DEF RecInv, Recording
<1>3. art' = [art EXCEPT !.report = F(Report(Told, ok))] /\ mem' = NewMem
  BY DEF WritesReport
<1>4. Report(Told, ok).attempts = mem.det
  BY DEF Report, Told
<1>5. Found(art'.report) /\ art'.report.of.attempts = mem.det /\ "report" \in DOMAIN art'
  <2> DEFINE r == Report(Told, ok)
  <2> HIDE DEF r
  <2>1. art'.report = F(r)
    BY <1>3 DEF r, RecInv
  <2> QED
    BY <1>3, <1>4, <2>1 DEF r, F, Found, RecInv
<1>6. mem'.det = <<>> /\ mem'.cur = NoAttempt /\ {"det", "cur"} \subseteq DOMAIN mem'
  BY <1>3 DEF NewMem
<1>7. todo' \in Seq(ToWrite)
  <2>1. todo' = <<"meta", "trust">> \/ todo' = <<"meta">>
    BY DEF WritesReport
  <2> QED
    BY <2>1, Writable DEF ToWrite
<1>8. Tells(mem'.det, st'.attempts)
  BY <1>1, <1>6, NothingTold DEF NewState
<1> QED
  BY <1>1, <1>2, <1>5, <1>6, <1>7, <1>8 DEF RecInv, Recording

LEMMA DiesKeeps ==
  ASSUME RecInv, Dies
  PROVE  RecInv'
<1>1. /\ st' = NewState /\ kept' = kept /\ todo' = <<>> /\ mem' = NewMem
      /\ file' = file \/ file' = Torn
      /\ report' = report \/ report' = Torn
  BY DEF Dies, Crash, Down
<1>2. PICK a \in Left : art' = IF report' = Torn THEN [a EXCEPT !.report = Torn] ELSE a
  BY DEF Dies
<1>3. a.report = art.report /\ "report" \in DOMAIN a
  <2>1. todo # <<>> => todo[1] # "report"
    BY Writable DEF RecInv
  <2> QED
    BY <1>2, <2>1 DEF Left, RecInv
<1>4. mem'.det = <<>> /\ mem'.cur = NoAttempt /\ {"det", "cur"} \subseteq DOMAIN mem'
  BY <1>1 DEF NewMem
<1>5. Tells(mem'.det, st'.attempts)
  BY <1>1, <1>4, NothingTold DEF NewState
<1>6. /\ art'.report = IF report' = Torn THEN Torn ELSE art.report
      /\ "report" \in DOMAIN art'
  BY <1>2, <1>3
<1>7. /\ Found(art'.report) <=> report'.kind = "report"
      /\ Found(art'.report) => Tells(art'.report.of.attempts, report'.attempts)
  BY <1>1, <1>6 DEF RecInv, Found, Torn
<1>8. file'.kind = "state" => Tells(kept'.det, file'.attempts)
  BY <1>1 DEF RecInv, Torn
<1> QED
  BY <1>1, <1>4, <1>5, <1>6, <1>7, <1>8, Writable DEF RecInv, Recording

LEMMA WorkKeeps ==
  ASSUME RecInv, NEW o \in Outcomes, Work(o)
  PROVE  RecInv'
<1>1. /\ pc = "execute" /\ mem.cur = NoAttempt /\ UNCHANGED <<vars, kept, todo>>
      /\ mem' = [mem EXCEPT !.cur = [iter |-> st.cur, outcome |-> o, judged |-> FALSE]]
  BY DEF Work
<1>2. PICK x, y, z : art' = [art EXCEPT !.exper = x, !.perf = y, !.trace = z]
  BY DEF Work
<1>3. art'.report = art.report /\ "report" \in DOMAIN art'
  BY <1>2 DEF RecInv
<1>4. mem'.det = mem.det /\ ~ mem'.cur.judged /\ {"det", "cur"} \subseteq DOMAIN mem'
  BY <1>1 DEF RecInv
<1> QED
  BY <1>1, <1>3, <1>4 DEF RecInv, Recording, vars

LEMMA CodesOf ==
  ASSUME NEW policy, NEW rows, NEW quality, NEW perf, NEW base
  PROVE  Evaluate(policy, rows, quality, perf, base).codes \in Seq(GateCodes)
<1> DEFINE none == <<>>
           t == TestsGate(policy.tests, rows).codes
           s == SecurityGate(policy.security, rows).codes
           p(seen) == PerformanceGate(policy.performance, Regression(perf, rows), seen).codes
<1>1. none \in Seq(GateCodes) /\ \A x \in GateCodes : <<x>> \in Seq(GateCodes)
  OBVIOUS
<1>2. t \in Seq(GateCodes)
  <2>1. t \in {none, <<"tests">>}
    BY DEF TestsGate, Off, Skipped, Judged
  <2> QED
    BY <1>1, <2>1 DEF GateCodes
<1>3. s \in Seq(GateCodes)
  <2>1. s \in {none, <<"security">>}
    BY DEF SecurityGate, Off, Skipped, Judged
  <2> QED
    BY <1>1, <2>1 DEF GateCodes
<1>4. ASSUME NEW seen PROVE p(seen) \in Seq(GateCodes)
  <2>1. \/ p(seen) = none
        \/ \E x \in {none, <<"perf_max">>}, y \in {none, <<"perf_baseline">>} : p(seen) = x \o y
    BY DEF PerformanceGate, Off, Skipped, Judged
  <2>2. {none, <<"perf_max">>} \subseteq Seq(GateCodes) /\ {none, <<"perf_baseline">>} \subseteq Seq(GateCodes)
    BY <1>1 DEF GateCodes
  <2> HIDE DEF p, none
  <2> QED
    BY ZenonT(60), <1>1, <2>1, <2>2, ConcatProperties
<1>5. \E seen : Evaluate(policy, rows, quality, perf, base).codes = (t \o s) \o p(seen)
  BY DEF Evaluate
<1> HIDE DEF t, s, p
<1> QED
  BY <1>2, <1>3, <1>4, <1>5, ConcatProperties

(* The verdict joins the details, with a strategy that is no third try. *)
LEMMA JudgeKeeps ==
  ASSUME IInv, RecInv, Judge
  PROVE  RecInv'
<1> DEFINE o == mem.cur.outcome
           a == Judgement(o)
           why == GuardReason(Append(st.attempts, AttemptOf(a, o.flow = "passed")))
           b == Detail(a, o.flow = "passed", why)
           c == [iter |-> st.cur, outcome |-> o, judged |-> TRUE]
<1>1. /\ pc = "execute" /\ ~ mem.cur.judged /\ UNCHANGED <<vars, kept>>
      /\ mem' = [mem EXCEPT !.cur = c, !.det = Append(@, b)]
  BY DEF Judge
<1>2. /\ b.iter = st.cur /\ b.strategy = Strategy(mem.det) /\ b.gated \in BOOLEAN
      /\ b.codes \in Seq(GateCodes) /\ (~ b.gated => b.codes = <<>>)
      /\ b.guard = GuardReason(Append(st.attempts, AttemptOf(b, o.flow = "passed")))
  <2>1. /\ a.iter = st.cur /\ a.gated \in BOOLEAN
        /\ a.codes \in Seq(GateCodes) /\ (~ a.gated => a.codes = <<>>)
    <3> DEFINE e == Evaluate(mem.policies.gates.of, o.rows, o.quality, art.perf, art.base)
    <3>1. e.codes \in Seq(GateCodes)
      BY CodesOf
    <3> HIDE DEF e
    <3> QED
      BY <3>1 DEF Judgement, JudgedBy, e
  <2> HIDE DEF a, why
  <2>2. /\ b.iter = a.iter /\ b.strategy = Strategy(mem.det) /\ b.gated = a.gated
        /\ b.codes = a.codes /\ b.failed = a.failed /\ b.guard = why
    BY DEF Detail
  <2> HIDE DEF b
  <2>3. AttemptOf(b, o.flow = "passed") = AttemptOf(a, o.flow = "passed")
    BY <2>2 DEF AttemptOf
  <2> QED
    BY <2>1, <2>2, <2>3 DEF why
<1>3. art' = art \/ \E x : art' = [art EXCEPT !.base = x]
  BY DEF Judge
<1>4. art'.report = art.report /\ "report" \in DOMAIN art'
  BY <1>3 DEF RecInv
<1>5. todo' \in Seq(ToWrite)
  <2>1. PICK p \in {<<>>, <<"gates">>}, q \in {<<>>, <<"guard">>} : todo' = <<"strategy">> \o p \o q
    BY DEF Judge
  <2>2. <<"strategy">> \in Seq(ToWrite) /\ p \in Seq(ToWrite) /\ q \in Seq(ToWrite)
    BY Writable DEF ToWrite
  <2> QED
    BY <2>1, <2>2, ConcatProperties
<1> HIDE DEF b
<1>6. /\ mem'.det = Append(mem.det, b) /\ mem'.cur.judged /\ mem'.cur.iter = st.cur
      /\ mem'.cur.outcome = o
      /\ {"det", "cur"} \subseteq DOMAIN mem'
  BY <1>1 DEF RecInv
<1>7. st.cur # 0
  BY <1>1 DEF IInv, StateInv
<1>8. Recording'
  BY <1>6, <1>7 DEF Recording, NoAttempt
<1>9. Tells(mem.det, st.attempts)
  BY <1>1 DEF RecInv, Recording
<1>10. Third(mem'.det)
  <2>1. Len(st.attempts) \in Nat /\ DOMAIN st.attempts = 1..Len(st.attempts)
    BY LenProperties DEF IInv, TypeOK, States
  <2>2. DOMAIN mem.det = 1..Len(st.attempts)
        /\ mem.det = [k \in 1..Len(st.attempts) |-> mem.det[k]] /\ Third(mem.det)
    BY <1>9, <2>1 DEF Tells
  <2> QED
    BY <1>2, <1>6, <2>1, <2>2, ThirdAppended
<1>11. \E d, e : /\ Tells(d, st'.attempts) /\ ToRecord(e)'
                 /\ mem'.det = Append(d, e) /\ Third(mem'.det)
  <2>1. st' = st
    BY <1>1 DEF vars
  <2>2. PICK e : e = b
    OBVIOUS
  <2>3. ToRecord(e)'
    BY <1>2, <1>6, <2>1, <2>2 DEF ToRecord
  <2> QED
    BY <1>6, <1>9, <1>10, <2>1, <2>2, <2>3
<1> QED
  BY <1>1, <1>4, <1>5, <1>6, <1>8, <1>11 DEF RecInv, vars

(* The state catches up with the details. *)
LEMMA RecordedKeeps ==
  ASSUME IInv, RecInv, AttemptRecorded
  PROVE  RecInv'
<1>1. AttemptEnds /\ Recording /\ UNCHANGED <<todo, art>>
      /\ kept' = Noted /\ mem' = [mem EXCEPT !.cur = NoAttempt]
  BY DEF AttemptRecorded, Recording
<1>2. PICK flow \in BOOLEAN, gate \in GateResults \cup {NoGates}, t \in Durations :
        pc = "execute" /\ RecordAttempt(flow, gate, t)
  BY <1>1 DEF AttemptEnds
<1>3. PICK b \in Attempts : /\ b.iter = st.cur /\ Longer(st'.attempts, st.attempts, b)
                           /\ b.flow = flow /\ b.gate = gate
                           /\ b.guard = GuardStops(Append(st.attempts, Asked(flow, gate)))
  <2>1. PICK b \in Attempts : /\ b.iter = st.cur /\ st'.attempts = Append(st.attempts, b)
                             /\ b.flow = flow /\ b.gate = gate
                             /\ b.guard = GuardStops(Append(st.attempts, Asked(flow, gate)))
    BY <1>2, RecordedIs
  <2>2. st.attempts \in Seq(Attempts)
    BY DEF IInv, TypeOK, States
  <2> QED
    BY <2>1, <2>2, Appended
<1>4. file' = st' /\ report' = report
  BY <1>2 DEF RecordAttempt, Persist
<1>5. PICK d, a : /\ Tells(d, st.attempts) /\ ToRecord(a)
                  /\ mem.det = Append(d, a) /\ Third(mem.det)
  BY <1>1 DEF RecInv
<1>8. Agrees(a, b)
  <2>1. a = mem.det[Len(mem.det)]
    <3>1. Len(st.attempts) \in Nat /\ DOMAIN st.attempts = 1..Len(st.attempts)
      BY LenProperties DEF IInv, TypeOK, States
    <3>2. DOMAIN d = 1..Len(st.attempts) /\ d = [k \in 1..Len(st.attempts) |-> d[k]]
      BY <1>5, <3>1 DEF Tells
    <3> QED
      BY <1>5, <3>1, <3>2, AnyAppended
  <2> DEFINE p == (mem.cur.outcome.flow = "passed")
  <2>2. b.gate = AttemptOf(a, p).gate /\ b.flow = AttemptOf(a, p).flow
    BY <1>3, <2>1 DEF AttemptRecorded, Longer
  <2>3. /\ b.gate = IF a.gated THEN [gates |-> a.failed, reasons |-> Len(a.codes), evaluated |-> TRUE]
                    ELSE NoGates
        /\ b.flow = p
    BY <2>2 DEF AttemptOf
  <2>4. a.codes \in Seq(GateCodes) /\ (a.codes = <<>> <=> Len(a.codes) = 0)
    BY <1>5, EmptySeq, LenProperties DEF ToRecord
  <2>5. /\ b.gate.evaluated = a.gated /\ (a.gated => b.gate.reasons = Len(a.codes))
        /\ b.gate = AttemptOf(a, p).gate
    <3>1. CASE a.gated
      <4>1. b.gate.evaluated = TRUE /\ b.gate.reasons = Len(a.codes)
        BY <2>3, <3>1
      <4> QED
        BY <2>2, <3>1, <4>1 DEF ToRecord
    <3>2. CASE ~ a.gated
      <4>1. b.gate.evaluated = FALSE
        BY <2>3, <3>2 DEF NoGates
      <4>2. a.gated = FALSE
        BY <1>5, <3>2 DEF ToRecord
      <4> QED
        BY <2>2, <3>2, <4>1, <4>2
    <3> QED
      BY <3>1, <3>2
  <2>6. AttemptOf(a, p) = Asked(b.flow, b.gate)
    <3>1. (p /\ a.codes = <<>>) = (p /\ (b.gate.evaluated => Passed(b.gate)))
      BY <1>5, <2>4, <2>5 DEF Passed, ToRecord
    <3>2. a.iter = st.cur
      BY <1>5 DEF ToRecord
    <3>3. AttemptOf(a, p) = [iter |-> a.iter, flow |-> p, ok |-> p /\ a.codes = <<>>,
                             guard |-> FALSE, gate |-> b.gate]
      BY <2>5 DEF AttemptOf
    <3> HIDE DEF p
    <3> QED
      BY <2>3, <3>1, <3>2, <3>3 DEF Asked
  <2>7. b.guard = (a.guard # "none")
    <3>1. a.guard = GuardReason(Append(st.attempts, Asked(b.flow, b.gate)))
      BY <1>5, <2>6 DEF ToRecord
    <3>2. GuardStops(Append(st.attempts, Asked(b.flow, b.gate))) \in BOOLEAN
      BY DEF GuardStops
    <3>3. b.guard = GuardStops(Append(st.attempts, Asked(b.flow, b.gate)))
      BY <1>3
    <3> QED
      BY <3>1, <3>2, <3>3 DEF GuardReason
  <2> QED
    BY <1>3, <1>5, <2>4, <2>5, <2>7 DEF Agrees, ToRecord
<1>6. Tells(mem.det, st'.attempts)
  <2>1. st.attempts \in Seq(Attempts)
    BY DEF IInv, TypeOK, States
  <2> QED
    BY <1>3, <1>5, <1>8, <2>1, TellsAppended
<1>7. /\ mem'.det = mem.det /\ mem'.cur = NoAttempt /\ kept'.det = mem.det
      /\ {"det", "cur"} \subseteq DOMAIN mem'
  BY <1>1 DEF RecInv, Noted
<1> QED
  BY <1>1, <1>4, <1>6, <1>7 DEF RecInv, Recording

LEMMA RecInductive == IInv /\ RecInv /\ [RecordsNext]_allVars => RecInv'
<1>1. ASSUME RecInv, UNCHANGED allVars PROVE RecInv'
  BY <1>1, AsideKeeps DEF allVars, records, RecInv
<1> QED
  BY <1>1, LaunchKeeps, StartsKeeps, PreflightKeepsRecords, LoopKeepsRecords, WorkKeeps,
     JudgeKeeps, RecordedKeeps, LeavesKeeps, PacketKeeps, ReportKeeps, WriterKeeps,
     DiesKeeps, ReviewersKeep DEF RecordsNext

(* Whatever processes ran its attempts, and from whichever file the last of  *)
(* them recovered, a session does not try a strategy a third time after two  *)
(* attempts with it of which the second was no better than the first.        *)
THEOREM ThirdTryRefused ==
  ASSUME BOOLEAN \subseteq GatePolicies
  PROVE  RecordsSpec => []NoThirdTry
<1>1. RecordsInit => IInv /\ RecInv
  BY InitInv, RecInit DEF RecordsInit
<1>2. IInv /\ RecInv /\ [RecordsNext]_allVars => (IInv /\ RecInv)'
  <2>1. [RecordsNext]_allVars => [Next]_vars
    BY StepImplements DEF allVars
  <2> QED
    BY <2>1, InvInductive, RecInductive
<1>3. IInv /\ RecInv => NoThirdTry
  <2> SUFFICES ASSUME IInv, RecInv PROVE NoThirdTry
    OBVIOUS
  <2>1. Third(mem.det)
    BY DEF RecInv, Tells
  <2>2. DOMAIN mem.det \subseteq Int
    <3>1. Len(st.attempts) \in Nat /\ DOMAIN st.attempts = 1..Len(st.attempts)
      BY LenProperties DEF IInv, TypeOK, States
    <3>2. CASE ~ Recording
      BY <3>1, <3>2 DEF RecInv, Tells
    <3>3. CASE Recording
      <4>1. PICK d, a : Tells(d, st.attempts) /\ mem.det = Append(d, a)
        BY <3>3 DEF RecInv
      <4>2. DOMAIN d = 1..Len(st.attempts) /\ d = [k \in 1..Len(st.attempts) |-> d[k]]
        BY <3>1, <4>1 DEF Tells
      <4>3. DOMAIN mem.det = 1..(Len(st.attempts) + 1)
        BY <3>1, <4>1, <4>2, AnyAppended
      <4> QED
        BY <4>3
    <3> QED
      BY <3>2, <3>3
  <2>3. \A k \in DOMAIN mem.det : (k - 1) - 1 = k - 2
    BY <2>2
  <2> QED
    BY <2>1, <2>3 DEF NoThirdTry, Third, Vain
<1> QED
  BY <1>1, <1>2, <1>3, PTL DEF RecordsSpec

-----------------------------------------------------------------------------
(* Trust is earned *)

LEMMA SomePlaces ==
  ASSUME NEW n \in Nat, NEW K, K \subseteq 1..n
  PROVE  IsFiniteSet(K) /\ Cardinality(K) \in Nat
<1>1. IsFiniteSet(1..n)
  BY FS_Interval
<1>2. IsFiniteSet(K)
  BY <1>1, FS_Subset
<1> QED
  BY <1>2, FS_CardinalityType

(* What is picked from a sequence has each of its elements at K once.        *)
LEMMA PickedPlaces ==
  ASSUME NEW s, NEW n \in Nat, NEW K \in SUBSET (1..n)
  PROVE  \E p \in Bijection(K, 1..Cardinality(K)) : \A k \in K : Picked(s, K)[p[k]] = s[k]
<1> DEFINE before(m) == {j \in K : j < m}
           place(m) == Cardinality(before(m)) + 1
           at(i) == CHOOSE m \in K : place(m) = i
<1>1. IsFiniteSet(K) /\ Cardinality(K) \in Nat
  BY SomePlaces
<1>2. \A m \in K : before(m) \in SUBSET (K \ {m})
  OBVIOUS
<1>3. \A m \in K : /\ IsFiniteSet(before(m)) /\ Cardinality(before(m)) \in Nat
                   /\ Cardinality(before(m)) < Cardinality(K)
  <2> TAKE m \in K
  <2>1. IsFiniteSet(K \ {m}) /\ Cardinality(K \ {m}) = Cardinality(K) - 1
    BY <1>1, FS_RemoveElement
  <2> HIDE DEF before
  <2>2. IsFiniteSet(before(m)) /\ Cardinality(before(m)) <= Cardinality(K \ {m})
    BY <1>2, <2>1, FS_Subset
  <2>3. Cardinality(before(m)) \in Nat
    BY <2>2, FS_CardinalityType
  <2> QED
    BY <1>1, <2>1, <2>2, <2>3
<1>4. \A l, m \in K : l < m => Cardinality(before(l)) < Cardinality(before(m))
  <2> SUFFICES ASSUME NEW l \in K, NEW m \in K, l < m
               PROVE  Cardinality(before(l)) < Cardinality(before(m))
    OBVIOUS
  <2>0. l \in Int /\ m \in Int /\ \A j \in K : j \in Int
    OBVIOUS
  <2>1. before(l) \in SUBSET (before(m) \ {l}) /\ l \in before(m)
    <3>1. \A j \in K : j < l => j < m /\ j # l
      BY <2>0
    <3> QED
      BY <3>1
  <2> HIDE DEF before
  <2>2. IsFiniteSet(before(m) \ {l}) /\ Cardinality(before(m) \ {l}) = Cardinality(before(m)) - 1
    BY <1>3, <2>1, FS_RemoveElement
  <2>3. Cardinality(before(l)) <= Cardinality(before(m) \ {l})
    BY <2>1, <2>2, FS_Subset
  <2> QED
    BY <1>3, <2>2, <2>3
<1> HIDE DEF before
<1>5. \A l, m \in K : place(l) = place(m) => l = m
  <2> SUFFICES ASSUME NEW l \in K, NEW m \in K, place(l) = place(m), l # m
               PROVE  FALSE
    OBVIOUS
  <2>1. l < m \/ m < l
    OBVIOUS
  <2> QED
    BY <1>3, <1>4, <2>1
<1>6. \A k \in K : place(k) \in 1..Cardinality(K)
  BY <1>1, <1>3
<1>7. Picked(s, K) = [i \in 1..Cardinality(K) |-> s[at(i)]]
  BY DEF Picked, before
<1> HIDE DEF place
<1>8. \A k \in K : at(place(k)) = k
  BY <1>5
<1> HIDE DEF at
<1> DEFINE p == [k \in K |-> place(k)]
<1>9. p \in Bijection(K, 1..Cardinality(K))
  <2>1. p \in Injection(K, 1..Cardinality(K))
    BY <1>5, <1>6, Fun_IsInj
  <2>2. IsFiniteSet(1..Cardinality(K)) /\ Cardinality(1..Cardinality(K)) = Cardinality(K)
    BY <1>1, FS_Interval
  <2> HIDE DEF p
  <2>3. p \in Surjection(K, 1..Cardinality(K))
    BY <2>1, <2>2, FS_Injection
  <2> QED
    BY <2>1, <2>3, Fun_IsBij
<1>10. \A k \in K : Picked(s, K)[p[k]] = s[k]
  BY <1>6, <1>7, <1>8
<1> QED
  BY <1>9, <1>10

LEMMA PickedAll ==
  ASSUME NEW s, NEW n \in Nat, NEW K \in SUBSET (1..n), NEW k \in K
  PROVE  \E i \in DOMAIN Picked(s, K) : Picked(s, K)[i] = s[k]
<1>1. PICK p \in Bijection(K, 1..Cardinality(K)) : \A j \in K : Picked(s, K)[p[j]] = s[j]
  BY PickedPlaces
<1>2. p \in [K -> 1..Cardinality(K)]
  BY <1>1, Fun_BijectionProperties
<1>3. DOMAIN Picked(s, K) = 1..Cardinality(K)
  BY DEF Picked
<1> QED
  BY <1>1, <1>2, <1>3

(* Where no gated attempt of a file failed, none of those it was made of did. *)
LEMMA NoneFailed ==
  ASSUME NEW ds, NEW n \in Nat, DOMAIN ds = 1..n, NEW g, g = Gated(ds),
         ~ (Cardinality({i \in DOMAIN g : g[i].codes # <<>>}) > 0),
         NEW k \in 1..n, ds[k].gated
  PROVE  ds[k].codes = <<>>
<1> DEFINE K == {j \in DOMAIN ds : ds[j].gated}
           bad == {i \in DOMAIN g : g[i].codes # <<>>}
<1>1. g = Picked(ds, K) /\ K \in SUBSET (1..n) /\ k \in K
  BY DEF Gated
<1>2. PICK i \in DOMAIN g : g[i] = ds[k]
  <2> HIDE DEF K
  <2>1. \E i \in DOMAIN Picked(ds, K) : Picked(ds, K)[i] = ds[k]
    BY <1>1, PickedAll
  <2> QED
    BY <1>1, <2>1
<1>3. IsFiniteSet(bad)
  <2>1. DOMAIN g = 1..Cardinality(K)
    BY <1>1 DEF Picked
  <2>2. Cardinality(K) \in Nat
    <3> HIDE DEF K
    <3> QED
      BY <1>1, SomePlaces
  <2> HIDE DEF K
  <2>3. IsFiniteSet(DOMAIN g)
    BY <2>1, <2>2, FS_Interval
  <2> QED
    BY <2>3, FS_Subset
<1>4. ~ (Cardinality(bad) > 0)
  OBVIOUS
<1> HIDE DEF bad
<1>5. bad = {}
  BY <1>3, <1>4, FS_CardinalityType, FS_EmptySet
<1> QED
  BY <1>2, <1>5 DEF bad

(* What a packet that asks for nobody says of the files it was made of.      *)
LEMMA TrustMeans ==
  ASSUME ~ Trust(art, now).review
  PROVE  Found(art.report) /\ art.report.of.ok /\ ~ (Summary(art).fails > 0)
<1> DEFINE s == Summary(art)
           q == LatestQuality(art)
           e == Enforcement(art, s, q)
           g == Governance(e, art.approvals, art.workflow, now)
           why == ReviewReasons(art, s, q, e, g)
<1>1. why = {}
  <2>1. Trust(art, now) = Assembled(art, s, q, e, g)
    BY DEF Trust, Enforced, Governed
  <2> HIDE DEF s, q, e, g
  <2>2. Assembled(art, s, q, e, g).review = (why # {} \/ OverallScore(art, s, q, e, g) < 85)
    BY Zenon DEF Assembled
  <2> HIDE DEF why
  <2> QED
    BY <2>1, <2>2
<1>2. s.status = Outcome(art)
  BY DEF Summary
<1>3. /\ ~ (s.status = "failed") /\ ~ (Lacking(art, RequiredFiles(s.status)) # {})
      /\ ~ (e.decision # "approved")
  <2> HIDE DEF s, q, e, g
  <2> QED
    BY <1>1 DEF ReviewReasons, If
<1>4. ~ (s.fails > 0)
  <2> DEFINE risk == Risk(s, q)
             missing == Lacking(art, PolicyFiles(risk))
  <2>1. e.decision = IF q.hard \/ s.preflight # "passed" \/ (risk = "high" /\ missing # {})
                     THEN "blocked"
                     ELSE IF \/ risk # "low" \/ missing # {}
                             \/ q.status \notin {"passed", "accepted", "ok"}
                     THEN "review_required" ELSE "approved"
    BY DEF Enforcement
  <2> HIDE DEF s, q, e, missing
  <2>2. risk = "low"
    BY <1>3, <2>1
  <2> QED
    BY <2>2 DEF Risk
<1>5. Found(art.report)
  <2>1. "report" \in RequiredFiles(s.status)
    <3> HIDE DEF s
    <3> QED
      BY DEF RequiredFiles
  <2>2. "report" \notin Lacking(art, RequiredFiles(s.status))
    BY <1>3
  <2> HIDE DEF s
  <2> QED
    BY <2>1, <2>2 DEF Lacking, Present
<1>6. art.report.of.ok
  BY <1>2, <1>3, <1>5 DEF Outcome
<1> QED
  BY <1>4, <1>5, <1>6

(* The gate file tells the attempts ds, if the last of them was gated.       *)
GatesTold(ds) == ds # <<>> /\ ds[Len(ds)].gated => art.gates = F(Gated(ds))

(* From the verdict of an attempt to the trust packet, the gate file is to   *)
(* be written or tells all the attempts; and a trust packet is to be written *)
(* only right after the report of a session that is over.                    *)
TrustInv ==
  /\ ToWrite \subseteq DOMAIN art
  /\ pc # "down" => cfg = NoConfig
  /\ Recording /\ "gates" \notin Range(todo) => GatesTold(mem.det)
  /\ ok => "gates" \notin Range(todo) /\ GatesTold(mem.det)
  /\ "trust" \in Range(todo) =>
       /\ pc = "down" /\ cfg = NoConfig /\ "gates" \notin Range(todo)
       /\ Found(art.report) /\ art.report.of.ok = (exit = "zero")
       /\ exit = "zero" => GatesTold(art.report.of.attempts)

LEMMA TrustInit == RecordsInit => TrustInv
<1> SUFFICES ASSUME RecordsInit PROVE TrustInv
  OBVIOUS
<1>1. ToWrite \subseteq DOMAIN art
  <2>1. \A x \in ToWrite : x \in {"strategy", "gates", "guard", "meta", "trust", "draft"}
    BY DEF ToWrite
  <2>2. {"strategy", "gates", "guard", "meta", "trust", "draft"} \subseteq DOMAIN art
    BY DEF RecordsInit
  <2> QED
    BY <2>1, <2>2
<1>2. ~ ok /\ pc = "down"
  BY DEF RecordsInit, Init
<1>3. ~ Recording
  BY DEF RecordsInit, NewMem, Recording
<1>4. Range(todo) = {}
  BY DEF RecordsInit, Range
<1> QED
  BY <1>1, <1>2, <1>3, <1>4 DEF TrustInv

(* A step that writes no gate file and is no verdict. *)
LEMMA TrustStays ==
  ASSUME TrustInv, ToWrite \subseteq DOMAIN art', pc' # "down" => cfg' = NoConfig,
         "trust" \notin Range(todo'),
         ok' \/ Recording' => art'.gates = art.gates /\ mem'.det = mem.det,
         ok' => ok /\ ("gates" \in Range(todo') => "gates" \in Range(todo)),
         Recording' => Recording /\ todo' = todo
  PROVE  TrustInv'
<1>1. art'.gates = art.gates /\ mem'.det = mem.det => (GatesTold(mem.det) => GatesTold(mem.det)')
  BY DEF GatesTold
<1> QED
  BY <1>1 DEF TrustInv

LEMMA NoneTodo ==
  /\ Range(<<>>) = {} /\ Range(<<"meta">>) = {"meta"} /\ Range(<<"draft">>) = {"draft"}
  /\ Range(<<"meta", "guard">>) = {"meta", "guard"}
  /\ Range(<<"meta", "trust">>) = {"meta", "trust"}
<1>1. Range(<<>>) = {}
  BY DEF Range
<1>2. \A x : Range(<<x>>) = {x}
  BY DEF Range
<1>3. \A x, y : Range(<<x, y>>) = {x, y}
  BY DEF Range
<1> QED
  BY <1>1, <1>2, <1>3

LEMMA TrustIdle ==
  ASSUME RecInv, TrustInv, (\E c \in Launched : Launch(c)) \/ Exits \/ Starts \/ Reviewers
  PROVE  TrustInv'
<1>1. CASE (\E c \in Launched : Launch(c)) \/ Reviewers
  <2>1. todo = <<>> /\ pc = "down" /\ UNCHANGED <<vars, mem, todo>>
    BY <1>1 DEF Launch, Reviewers, Review, Steer, Act, Tick, Idle
  <2>2. DOMAIN art' = DOMAIN art /\ art'.gates = art.gates
    <3>1. art' = art \/ (\E x : art' = [art EXCEPT !.approvals = x])
          \/ (\E x : art' = [art EXCEPT !.workflow = x])
      BY <1>1 DEF Launch, Reviewers, Review, Steer, Tick
    <3>2. "gates" \in DOMAIN art
      BY DEF TrustInv, ToWrite
    <3> QED
      BY <3>1, <3>2
  <2> QED
    BY <2>1, <2>2, NoneTodo, TrustStays DEF TrustInv, Recording, vars
<1>2. CASE Exits
  <2>1. cfg # NoConfig /\ pc = "down" /\ UNCHANGED <<vars, mem, todo, art>>
    BY <1>2 DEF Exits
  <2> QED
    BY <2>1, TrustStays DEF TrustInv, Recording, vars
<1>3. CASE Starts
  <2>1. cfg # NoConfig
    BY <1>3, ConfigAssumption DEF Starts, NoConfig
  <2>2. UNCHANGED <<todo, art>> /\ cfg' = NoConfig /\ ok' = FALSE
    BY <1>3 DEF Starts, StartFresh, StartResume, Begin
  <2>3. ~ Recording'
    BY <1>3 DEF Starts, NewMem, Recording
  <2> QED
    BY <2>1, <2>2, <2>3, TrustStays DEF TrustInv
<1> QED
  BY <1>1, <1>2, <1>3

LEMMA TrustLoop ==
  ASSUME IInv, RecInv, TrustInv,
         Preflight \/ Planned \/ OutOfTime \/ Decides \/ Leaves \/ Finishes \/ WritesPacket
  PROVE  TrustInv'
<1>1. UNCHANGED <<cfg, ok>> /\ pc # "down" /\ pc # "execute"
  BY DEF Preflight, PreflightPasses, PreflightFails, Planned, Plan, Execute, OutOfTime, BudgetSpent,
         Decides, Complete, GuardStop, Retry, IterationsSpent, Leaves, LoopEnds, records,
         Finishes, Finish, WritesPacket, EmitIncident
<1>2. mem.cur = NoAttempt /\ {"det", "cur"} \subseteq DOMAIN mem
  BY <1>1 DEF RecInv
<1>3. mem'.cur = mem.cur /\ mem'.det = mem.det
  <2>1. mem' = mem \/ (\E x : mem' = [mem EXCEPT !.budget = x]) \/ (\E x : mem' = [mem EXCEPT !.pre = x])
        \/ (\E x, y : mem' = [mem EXCEPT !.pre = x, !.budget = y])
    BY DEF Preflight, Planned, OutOfTime, BudgetWas, Decides, Leaves, records, Finishes, WritesPacket
  <2> QED
    BY <1>2, <2>1
<1>4. DOMAIN art' = DOMAIN art /\ art'.gates = art.gates
  <2>1. art' = art \/ (\E x : art' = [art EXCEPT !.packet = x])
    BY DEF Preflight, Planned, OutOfTime, Decides, Leaves, records, Finishes, WritesPacket
  <2>2. "gates" \in DOMAIN art
    BY DEF TrustInv, ToWrite
  <2> QED
    BY <2>1, <2>2
<1>5. todo' \in {todo, <<>>, <<"meta">>, <<"draft">>, <<"meta", "guard">>}
  BY DEF Preflight, Planned, OutOfTime, Decides, Leaves, records, Finishes, WritesPacket
<1>6. "trust" \notin Range(todo') /\ ("gates" \in Range(todo') => "gates" \in Range(todo))
  BY <1>1, <1>5, NoneTodo DEF TrustInv
<1>7. ~ Recording'
  BY <1>2, <1>3 DEF Recording
<1> QED
  BY <1>1, <1>3, <1>4, <1>6, <1>7, TrustStays DEF TrustInv

LEMMA TrustWork ==
  ASSUME RecInv, TrustInv, NEW o \in Outcomes, Work(o)
  PROVE  TrustInv'
<1>1. /\ pc = "execute" /\ UNCHANGED <<vars, cfg, todo>>
      /\ mem' = [mem EXCEPT !.cur = [iter |-> st.cur, outcome |-> o, judged |-> FALSE]]
  BY DEF Work
<1>2. PICK x, y, z : art' = [art EXCEPT !.exper = x, !.perf = y, !.trace = z]
  BY DEF Work
<1>3. "gates" \in DOMAIN art
  BY DEF TrustInv, ToWrite
<1>4. DOMAIN art' = DOMAIN art /\ art'.gates = art.gates
  BY <1>2, <1>3
<1>5. mem'.det = mem.det /\ ~ Recording'
  BY <1>1 DEF RecInv, Recording
<1> QED
  BY <1>1, <1>4, <1>5, TrustStays DEF TrustInv, vars

LEMMA TrustDies ==
  ASSUME IInv, RecInv, TrustInv, Dies \/ DiesLate
  PROVE  TrustInv'
<1>1. todo' = <<>> /\ cfg' = cfg /\ pc' = "down"
  BY DEF Dies, Crash, Down, DiesLate, vars
<1>2. ~ ok' /\ ~ Recording'
  <2>1. CASE Dies
    BY <2>1 DEF Dies, Crash, Down, NewMem, Recording
  <2>2. CASE DiesLate
    BY <2>2 DEF DiesLate, IInv, SuccessInv, RecInv, Recording, vars
  <2> QED
    BY <2>1, <2>2
<1>3. DOMAIN art' = DOMAIN art
  BY DEF Dies, DiesLate, Left
<1> QED
  BY <1>1, <1>2, <1>3, NoneTodo, TrustStays DEF TrustInv

LEMMA RangeOfRest ==
  ASSUME NEW S, NEW q \in Seq(S), q # <<>>
  PROVE  Range(q) = {q[1]} \cup Range(Tail(q))
<1>1. /\ Len(q) \in Nat /\ Len(q) # 0 /\ Tail(q) \in Seq(S) /\ Len(Tail(q)) = Len(q) - 1
      /\ \A i \in 1..Len(Tail(q)) : Tail(q)[i] = q[i + 1]
  BY HeadTailProperties, LenProperties, EmptySeq
<1>2. Range(q) = {q[i] : i \in 1..Len(q)} /\ Range(Tail(q)) = {Tail(q)[i] : i \in 1..Len(Tail(q))}
  BY <1>1, RangeEquality
<1>3. ASSUME NEW i \in 1..Len(q), i # 1 PROVE q[i] \in Range(Tail(q))
  <2>1. i - 1 \in 1..Len(Tail(q)) /\ Tail(q)[i - 1] = q[i]
    BY <1>1, <1>3
  <2> QED
    BY <1>2, <2>1
<1>4. ASSUME NEW i \in 1..Len(Tail(q)) PROVE Tail(q)[i] \in Range(q)
  <2>1. i + 1 \in 1..Len(q) /\ Tail(q)[i] = q[i + 1]
    BY <1>1, <1>4
  <2> QED
    BY <1>2, <2>1
<1>5. 1 \in 1..Len(q)
  BY <1>1
<1>6. Range(q) \subseteq {q[1]} \cup Range(Tail(q))
  BY <1>2, <1>3
<1>7. {q[1]} \cup Range(Tail(q)) \subseteq Range(q)
  BY <1>2, <1>4, <1>5
<1> QED
  BY <1>6, <1>7

(* After a verdict of the gates their file is one of those to be written.    *)
LEMMA TrustJudge ==
  ASSUME IInv, RecInv, TrustInv, Judge
  PROVE  TrustInv'
<1> DEFINE o == mem.cur.outcome
           a == Judgement(o)
           why == GuardReason(Append(st.attempts, AttemptOf(a, o.flow = "passed")))
           b == Detail(a, o.flow = "passed", why)
           c == [iter |-> st.cur, outcome |-> o, judged |-> TRUE]
<1>1. /\ pc = "execute" /\ ~ mem.cur.judged /\ UNCHANGED <<vars, cfg>>
      /\ mem' = [mem EXCEPT !.cur = c, !.det = Append(@, b)]
  BY DEF Judge
<1>2. b.gated = a.gated
  <2> HIDE DEF a, why
  <2> QED
    BY DEF Detail
<1>3. PICK q \in {<<>>, <<"guard">>} :
        todo' = <<"strategy">> \o (IF a.gated THEN <<"gates">> ELSE <<>>) \o q
  BY DEF Judge
<1>4. art' = art \/ \E x : art' = [art EXCEPT !.base = x]
  BY DEF Judge
<1> HIDE DEF a, b, c
<1>5. "trust" \notin Range(todo') /\ (a.gated => "gates" \in Range(todo'))
  <2> DEFINE p == IF a.gated THEN <<"gates">> ELSE <<>>
  <2>1. <<"strategy">> \in Seq(ToWrite) /\ p \in Seq(ToWrite) /\ q \in Seq(ToWrite)
    BY Writable DEF ToWrite
  <2>2. Range(p) = (IF a.gated THEN {"gates"} ELSE {}) /\ Range(q) \subseteq {"guard"}
        /\ Range(<<"strategy">>) = {"strategy"}
    BY DEF Range
  <2>3. todo' = <<"strategy">> \o p \o q
    BY <1>3
  <2> DEFINE s == <<"strategy">>
             w == s \o p
  <2> HIDE DEF p, s
  <2>4. w \in Seq(ToWrite) /\ Range(w) = Range(s) \cup Range(p)
    BY ZenonT(60), <2>1, ConcatProperties, RangeConcatenation DEF s
  <2>5. todo' = w \o q
    BY <2>3 DEF s
  <2> HIDE DEF w
  <2>6. Range(w \o q) = Range(w) \cup Range(q)
    BY <2>1, <2>4, RangeConcatenation
  <2> QED
    BY <2>2, <2>4, <2>5, <2>6 DEF s
<1>6. mem'.det = Append(mem.det, b)
  BY <1>1 DEF RecInv
<1>7. ~ a.gated => GatesTold(mem.det)'
  <2>1. Tells(mem.det, st.attempts)
    BY <1>1 DEF RecInv, Recording
  <2>2. Len(st.attempts) \in Nat /\ DOMAIN st.attempts = 1..Len(st.attempts)
    BY LenProperties DEF IInv, TypeOK, States
  <2>3. mem'.det[Len(mem'.det)] = b
    BY <1>6, <2>1, <2>2, AnyAppended DEF Tells
  <2> QED
    BY <1>2, <2>3 DEF GatesTold
<1>8. ~ ok'
  BY <1>1 DEF IInv, SuccessInv, vars
<1>9. DOMAIN art' = DOMAIN art
  BY <1>4
<1> QED
  BY <1>1, <1>5, <1>7, <1>8, <1>9 DEF TrustInv, vars

LEMMA TrustRecorded ==
  ASSUME IInv, RecInv, TrustInv, AttemptRecorded
  PROVE  TrustInv'
<1>1. /\ pc = "execute" /\ Recording /\ todo = <<>> /\ UNCHANGED <<todo, art, cfg>>
      /\ mem' = [mem EXCEPT !.cur = NoAttempt]
  BY DEF AttemptRecorded, Recording, AttemptEnds
<1>2. mem'.det = mem.det /\ ~ Recording'
  BY <1>1 DEF RecInv, Recording
<1>3. Range(todo) = {}
  BY <1>1, NoneTodo
<1>4. GatesTold(mem.det)
  BY <1>1, <1>3 DEF TrustInv
<1>5. GatesTold(mem.det)'
  BY <1>1, <1>2, <1>4 DEF GatesTold
<1> QED
  BY <1>1, <1>2, <1>3, <1>5 DEF TrustInv

(* A step of the writer: the gate file, once written, tells every attempt.   *)
LEMMA TrustWrites ==
  ASSUME RecInv, TrustInv, WriteNext
  PROVE  TrustInv'
<1> DEFINE x == todo[1]
           c == F(Content(x))
<1>1. /\ todo # <<>> /\ todo \in Seq(ToWrite) /\ x \in ToWrite
      /\ art' = [art EXCEPT ![x] = c] /\ todo' = Tail(todo)
  BY DEF WriteNext, RecInv
<1>2. UNCHANGED <<vars, cfg, mem>>
  BY DEF WriteNext
<1>3. x # "report"
  BY <1>1, Writable
<1>4. x = "gates" => c = F(Gated(mem.det))
  BY DEF Content
<1> HIDE DEF c
<1>5. x \in DOMAIN art /\ DOMAIN art' = DOMAIN art
  BY <1>1 DEF TrustInv
<1>6. "gates" \in DOMAIN art /\ "report" \in DOMAIN art
  BY DEF TrustInv, ToWrite, RecInv
<1>7. art'.report = art.report
  BY <1>1, <1>3, <1>6
<1>8. art'.gates = IF x = "gates" THEN F(Gated(mem.det)) ELSE art.gates
  BY <1>1, <1>4, <1>6
<1>9. Range(todo) = {x} \cup Range(todo')
  BY <1>1, RangeOfRest
<1> HIDE DEF x
<1>10. GatesTold(mem.det)' <=> (mem.det # <<>> /\ mem.det[Len(mem.det)].gated
                               => art'.gates = F(Gated(mem.det)))
  BY <1>2 DEF GatesTold
<1>11. /\ x = "gates" => GatesTold(mem.det)'
       /\ x # "gates" => (GatesTold(mem.det) => GatesTold(mem.det)')
  BY <1>8, <1>10 DEF GatesTold
<1>12. x # "gates" => (GatesTold(art.report.of.attempts) => GatesTold(art.report.of.attempts)')
  BY <1>7, <1>8 DEF GatesTold
<1> QED
  BY <1>2, <1>5, <1>7, <1>9, <1>11, <1>12 DEF TrustInv, Recording, vars

(* The report tells the attempts the gate file tells. *)
LEMMA TrustReport ==
  ASSUME IInv, RecInv, TrustInv, WritesReport
  PROVE  TrustInv'
<1> DEFINE r == Report(Told, ok)
<1>1. /\ pc = "report" /\ pc' = "down" /\ ~ ok' /\ cfg' = cfg
      /\ exit' = IF ok THEN "zero" ELSE "one"
  BY DEF WritesReport, EmitReport, Down
<1>2. art' = [art EXCEPT !.report = F(r)] /\ mem' = NewMem
  BY DEF WritesReport
<1>3. r.attempts = mem.det /\ r.ok = ok
  BY DEF Report, Told
<1> HIDE DEF r
<1>4. "gates" \in DOMAIN art /\ "report" \in DOMAIN art
  BY DEF TrustInv, ToWrite, RecInv
<1>5. /\ DOMAIN art' = DOMAIN art /\ art'.gates = art.gates
      /\ Found(art'.report) /\ art'.report.of = r
  BY <1>2, <1>4 DEF Found, F
<1>6. todo' = <<"meta", "trust">> \/ todo' = <<"meta">>
  BY DEF WritesReport
<1>7. "gates" \notin Range(todo')
  BY <1>6, NoneTodo
<1>8. ok \in BOOLEAN
  BY DEF IInv, TypeOK
<1>9. art'.report.of.ok = (exit' = "zero")
  BY <1>1, <1>3, <1>5, <1>8
<1>10. exit' = "zero" => GatesTold(mem.det)
  BY <1>1 DEF TrustInv
<1>11. exit' = "zero" => GatesTold(art.report.of.attempts)'
  BY <1>3, <1>5, <1>10 DEF GatesTold
<1>12. ~ Recording'
  BY <1>2 DEF NewMem, Recording
<1> QED
  BY <1>1, <1>5, <1>7, <1>9, <1>11, <1>12 DEF TrustInv

LEMMA TrustInductive == IInv /\ RecInv /\ TrustInv /\ [RecordsNext]_allVars => TrustInv'
<1>1. ASSUME TrustInv, UNCHANGED allVars PROVE TrustInv'
  BY <1>1 DEF TrustInv, GatesTold, Recording, allVars, vars, records
<1> QED
  BY <1>1, TrustIdle, TrustLoop, TrustWork, TrustDies, TrustJudge, TrustRecorded, TrustWrites,
     TrustReport DEF RecordsNext

(* Only the writer's step writes a trust packet: what the files say then.    *)
LEMMA TrustWritten ==
  ASSUME RecInv, TrustInv, RecordsNext, art'.trust # art.trust, Found(art'.trust)
  PROVE  /\ WriteNext /\ "trust" \in Range(todo) /\ art'.trust = F(Trust(art, now))
<1>1. "trust" \in DOMAIN art
  BY DEF TrustInv, ToWrite
<1>2. CASE (\E c \in Launched : Launch(c)) \/ Exits \/ Starts \/ Preflight \/ Planned \/ OutOfTime
           \/ AttemptRecorded \/ Decides \/ Leaves \/ Finishes
  BY <1>2 DEF Launch, Exits, Starts, Preflight, Planned, OutOfTime, AttemptRecorded, Decides,
              Leaves, Finishes, records
<1>3. CASE (\E o \in Outcomes : Work(o)) \/ Judge
  <2>1. ASSUME NEW o \in Outcomes, Work(o)
        PROVE  \E x, y, z : art' = [art EXCEPT !.exper = x, !.perf = y, !.trace = z]
    BY <2>1 DEF Work
  <2>2. Judge => art' = art \/ \E x : art' = [art EXCEPT !.base = x]
    BY DEF Judge
  <2> QED
    BY <1>1, <1>3, <2>1, <2>2
<1>4. CASE WritesPacket \/ WritesReport \/ Reviewers
  <2>1. \/ art' = art
        \/ \E x : \/ art' = [art EXCEPT !.packet = x] \/ art' = [art EXCEPT !.report = x]
                 \/ art' = [art EXCEPT !.approvals = x] \/ art' = [art EXCEPT !.workflow = x]
    BY <1>4 DEF WritesPacket, WritesReport, Reviewers, Review, Steer, Tick
  <2> QED
    BY <1>1, <2>1
<1>5. CASE Dies \/ DiesLate
  <2>1. PICK a \in Left : art' = a \/ art' = [a EXCEPT !.report = Torn]
    BY <1>5 DEF Dies, DiesLate
  <2>2. "trust" \in DOMAIN a /\ (a.trust = art.trust \/ a.trust = Torn)
    BY <1>1, <2>1 DEF Left
  <2> QED
    BY <2>1, <2>2 DEF Found, Torn
<1>6. CASE WriteNext
  <2> DEFINE x == todo[1]
             c == F(Content(x))
  <2>1. art' = [art EXCEPT ![x] = c] /\ todo # <<>>
    BY <1>6 DEF WriteNext
  <2>2. x = "trust" => c = F(Trust(art, now))
    BY DEF Content
  <2>3. x \in Range(todo)
    BY <2>1, RangeOfRest DEF RecInv
  <2> HIDE DEF c, x
  <2>4. x = "trust" /\ art'.trust = c
    BY <1>1, <2>1
  <2> QED
    BY <1>6, <2>2, <2>3, <2>4
<1> QED
  BY <1>2, <1>3, <1>4, <1>5, <1>6 DEF RecordsNext

(* A packet that asks for nobody, of a session whose last attempt was gated, *)
(* was made of files that tell every attempt, and none of them failed.       *)
LEMMA TrustHonest ==
  ASSUME IInv, RecInv, TrustInv, "trust" \in Range(todo), ~ Trust(art, now).review, LastGated
  PROVE  /\ exit = "zero" /\ file.status = "completed"
         /\ \A k \in DOMAIN file.attempts :
              file.attempts[k].gate.evaluated => Passed(file.attempts[k].gate)
<1> DEFINE ds == art.report.of.attempts
           as == file.attempts
           n == Len(as)
<1>1. Found(art.report) /\ exit = "zero" /\ ~ (Summary(art).fails > 0)
  BY TrustMeans DEF TrustInv
<1>2. /\ file.kind = "state" /\ file.status = "completed"
      /\ report.attempts = as
  BY <1>1 DEF IInv, SuccessInv, SuccessIsEarned
<1>3. /\ as \in Seq(Attempts) /\ n \in Nat /\ DOMAIN as = 1..n
  BY <1>2, LenProperties DEF IInv, TypeOK, States, Absent, Torn
<1>4. DOMAIN ds = 1..n /\ ds = [k \in 1..n |-> ds[k]] /\ \A k \in 1..n : Agrees(ds[k], as[k])
  BY <1>1, <1>2, <1>3 DEF RecInv, Tells
<1>5. n # 0 /\ as[n].gate.evaluated
  BY <1>3, EmptySeq DEF LastGated
<1>6. Len(ds) = n /\ ds # <<>> /\ ds[n].gated
  <2>1. Len(ds) = n /\ ds # <<>>
    BY <1>3, <1>4, <1>5, AnyAppended
  <2>2. Agrees(ds[n], as[n])
    <3> HIDE DEF ds, as, n
    <3>1. n \in 1..n
      BY <1>3, <1>5
    <3> QED
      BY <1>4, <3>1
  <2> QED
    BY <1>5, <2>1, <2>2 DEF Agrees
<1>7. art.gates = F(Gated(ds))
  BY <1>1, <1>6 DEF TrustInv, GatesTold
<1> DEFINE g == Gated(ds)
<1>8. ~ (Cardinality({i \in DOMAIN g : g[i].codes # <<>>}) > 0)
  <2>1. GateAttempts(art) = g
    <3> HIDE DEF g
    <3> QED
      BY <1>7 DEF GateAttempts, Found, F, g
  <2> HIDE DEF g
  <2>2. Summary(art).fails = Cardinality({i \in DOMAIN g : g[i].codes # <<>>})
    BY <2>1 DEF Summary
  <2> QED
    BY <1>1, <2>2
<1>9. ASSUME NEW k \in 1..n, as[k].gate.evaluated PROVE Passed(as[k].gate)
  <2>1. Agrees(ds[k], as[k])
    BY <1>4
  <2>2. ds[k].gated /\ as[k].gate.reasons = Len(ds[k].codes)
    BY <1>9, <2>1 DEF Agrees
  <2>3. ds[k].codes = <<>>
    <3> HIDE DEF ds, as, n
    <3>1. DOMAIN ds = 1..n /\ n \in Nat
      BY <1>3, <1>4
    <3> QED
      BY <1>8, <2>2, <3>1, NoneFailed
  <2> QED
    BY <2>2, <2>3 DEF Passed
<1> QED
  BY <1>1, <1>2, <1>3, <1>9

(* A trust packet that asks for no human is written only for a completed     *)
(* session none of whose attempts failed a gate, whatever processes ran it   *)
(* and whatever an older session left in its directory.                      *)
THEOREM TrustEarned ==
  ASSUME BOOLEAN \subseteq GatePolicies
  PROVE  RecordsSpec => TrustIsEarned
<1> DEFINE Honest ==
             LET t == art'.trust
             IN  t # art.trust /\ Found(t) /\ ~ t.of.review /\ LastGated =>
                   /\ exit = "zero" /\ file.status = "completed"
                   /\ \A k \in DOMAIN file.attempts :
                        file.attempts[k].gate.evaluated => Passed(file.attempts[k].gate)
<1>1. RecordsInit => IInv /\ RecInv /\ TrustInv
  BY InitInv, RecInit, TrustInit DEF RecordsInit
<1>2. IInv /\ RecInv /\ TrustInv /\ [RecordsNext]_allVars => (IInv /\ RecInv /\ TrustInv)'
  <2>1. [RecordsNext]_allVars => [Next]_vars
    BY StepImplements DEF allVars
  <2> QED
    BY <2>1, InvInductive, RecInductive, TrustInductive
<1>3. IInv /\ RecInv /\ TrustInv /\ [RecordsNext]_allVars => [Honest]_allVars
  <2> SUFFICES ASSUME IInv, RecInv, TrustInv, RecordsNext,
                      art'.trust # art.trust, Found(art'.trust), ~ art'.trust.of.review, LastGated
               PROVE  /\ exit = "zero" /\ file.status = "completed"
                      /\ \A k \in DOMAIN file.attempts :
                           file.attempts[k].gate.evaluated => Passed(file.attempts[k].gate)
    BY Zenon
  <2>1. "trust" \in Range(todo) /\ art'.trust = F(Trust(art, now))
    BY TrustWritten
  <2>2. ~ Trust(art, now).review
    BY <2>1 DEF F
  <2> QED
    BY <2>1, <2>2, TrustHonest
<1> QED
  BY <1>1, <1>2, <1>3, PTL DEF RecordsSpec, TrustIsEarned

-----------------------------------------------------------------------------
(* The summary *)

LEMMA LenIs ==
  ASSUME NEW f, NEW n \in Nat, DOMAIN f = 1..n, f = [k \in 1..n |-> f[k]]
  PROVE  Len(f) = n /\ (f = <<>> <=> n = 0)
BY AnyAppended

(* What has a property among the elements picked is counted by their places. *)
LEMMA CountMoved ==
  ASSUME NEW K, NEW D, NEW p \in Bijection(K, D), NEW B \in SUBSET K, IsFiniteSet(B),
         NEW C \in SUBSET D, \A k \in K : p[k] \in C <=> k \in B
  PROVE  Cardinality(C) = Cardinality(B)
<1> DEFINE q == [k \in B |-> p[k]]
<1>1. /\ p \in [K -> D] /\ \A a, b \in K : p[a] = p[b] => a = b
      /\ \A t \in D : \E k \in K : p[k] = t
  BY Fun_BijectionProperties
<1>2. q \in [B -> C] /\ \A a, b \in B : q[a] = q[b] => a = b
  BY <1>1
<1>3. \A t \in C : \E k \in B : q[k] = t
  BY <1>1
<1> HIDE DEF q
<1>4. q \in Bijection(B, C)
  BY <1>2, <1>3, Fun_IsBij
<1> QED
  BY <1>4, FS_Bijection DEF ExistsBijection

(* The places of the attempts whose gates passed, failed, and whose guard spoke. *)
Clean(ds) == {k \in DOMAIN ds : ds[k].gated /\ ds[k].codes = <<>>}
Flawed(ds) == {k \in DOMAIN ds : ds[k].gated /\ ds[k].codes # <<>>}
Guarded(ds) == {k \in DOMAIN ds : ds[k].guard # "none"}

(* The gate file counts the attempts whose gates passed and failed.          *)
LEMMA GatesCounted ==
  ASSUME NEW ds, NEW n \in Nat, DOMAIN ds = 1..n, NEW g, g = Gated(ds)
  PROVE  /\ Cardinality({i \in DOMAIN g : g[i].codes = <<>>}) = Cardinality(Clean(ds))
         /\ Cardinality({i \in DOMAIN g : g[i].codes # <<>>}) = Cardinality(Flawed(ds))
<1> DEFINE K == {k \in DOMAIN ds : ds[k].gated}
           none == <<>>
           good == {k \in DOMAIN ds : ds[k].gated /\ ds[k].codes = none}
           bad == {k \in DOMAIN ds : ds[k].gated /\ ds[k].codes # none}
<1>1. g = Picked(ds, K) /\ K \in SUBSET (1..n) /\ good \in SUBSET K /\ bad \in SUBSET K
  BY DEF Gated
<1>2. DOMAIN g = 1..Cardinality(K)
  BY <1>1 DEF Picked
<1>3. \A k \in K : (k \in good <=> ds[k].codes = none) /\ (k \in bad <=> ds[k].codes # none)
  OBVIOUS
<1> HIDE DEF K, good, bad, none
<1> DEFINE D == 1..Cardinality(K)
<1>4. PICK p \in Bijection(K, D) : \A k \in K : g[p[k]] = ds[k]
  <2>1. \E p \in Bijection(K, 1..Cardinality(K)) : \A k \in K : Picked(ds, K)[p[k]] = ds[k]
    BY <1>1, PickedPlaces, Zenon
  <2> QED
    BY <1>1, <2>1, Zenon DEF D
<1> HIDE DEF D
<1>5. DOMAIN g = D /\ p \in [K -> D] /\ IsFiniteSet(good) /\ IsFiniteSet(bad)
  <2>1. p \in [K -> D]
    BY <1>4, Fun_BijectionProperties
  <2>2. IsFiniteSet(good) /\ IsFiniteSet(bad)
    BY <1>1, SomePlaces
  <2> QED
    BY <1>2, <2>1, <2>2 DEF D
<1>6. Cardinality({i \in DOMAIN g : g[i].codes = none}) = Cardinality(good)
  <2> DEFINE C == {i \in DOMAIN g : g[i].codes = none}
  <2>1. C \in SUBSET D /\ \A k \in K : p[k] \in C <=> k \in good
    BY <1>3, <1>4, <1>5
  <2> HIDE DEF C
  <2>2. p \in Bijection(K, D) /\ good \in SUBSET K /\ IsFiniteSet(good)
    BY <1>1, <1>4, <1>5
  <2>3. Cardinality(C) = Cardinality(good)
    BY <2>1, <2>2, CountMoved
  <2> QED
    BY <2>3 DEF C
<1>7. Cardinality({i \in DOMAIN g : g[i].codes # none}) = Cardinality(bad)
  <2> DEFINE C == {i \in DOMAIN g : g[i].codes # none}
  <2>1. C \in SUBSET D /\ \A k \in K : p[k] \in C <=> k \in bad
    BY <1>3, <1>4, <1>5
  <2> HIDE DEF C
  <2>2. p \in Bijection(K, D) /\ bad \in SUBSET K /\ IsFiniteSet(bad)
    BY <1>1, <1>4, <1>5
  <2>3. Cardinality(C) = Cardinality(bad)
    BY <2>1, <2>2, CountMoved
  <2> QED
    BY <2>3 DEF C
<1> QED
  BY <1>6, <1>7, Zenon DEF good, bad, none, Clean, Flawed

(* The guard file counts its decisions, and has a last one if there is one.  *)
LEMMA GuardsCounted ==
  ASSUME NEW ds, NEW n \in Nat, DOMAIN ds = 1..n
  PROVE  LET f == GuardFile(ds)
         IN  f.total = Cardinality(Guarded(ds)) /\ (f.latest = "none") = (Guarded(ds) = {})
<1> DEFINE K == {k \in DOMAIN ds : ds[k].guard # "none"}
           d == Decided(ds)
           N == Cardinality(K)
<1>1. d = Picked(ds, K) /\ K \in SUBSET (1..n)
  BY DEF Decided
<1>2. DOMAIN d = 1..N /\ d = [i \in 1..N |-> d[i]]
  BY <1>1 DEF Picked
<1>3. \A k \in K : ds[k].guard # "none"
  OBVIOUS
<1>4. K = Guarded(ds)
  BY DEF Guarded
<1> DEFINE last == IF d = <<>> THEN "none" ELSE d[Len(d)].guard
<1>5. GuardFile(ds).total = Len(d) /\ GuardFile(ds).latest = last
  BY DEF GuardFile
<1> HIDE DEF K, d
<1>6. IsFiniteSet(K) /\ N \in Nat
  BY <1>1, SomePlaces
<1>7. N = 0 <=> K = {}
  BY <1>6, FS_EmptySet
<1> HIDE DEF N
<1>8. Len(d) = N /\ (d = <<>> <=> N = 0)
  BY <1>2, <1>6, LenIs
<1>9. ASSUME N # 0 PROVE d[N].guard # "none"
  <2> DEFINE D == 1..N
  <2>1. PICK p \in Bijection(K, D) : \A k \in K : d[p[k]] = ds[k]
    <3>1. \E p \in Bijection(K, 1..Cardinality(K)) : \A k \in K : Picked(ds, K)[p[k]] = ds[k]
      BY <1>1, PickedPlaces, Zenon
    <3> QED
      BY <1>1, <3>1, Zenon DEF D, N
  <2>2. N \in D
    BY <1>6, <1>9
  <2> HIDE DEF D
  <2>3. PICK k \in K : p[k] = N
    BY <2>1, <2>2, Fun_BijectionProperties
  <2> QED
    BY <1>3, <2>1, <2>3
<1>10. (last = "none") = (K = {})
  <2>1. last = "none" <=> N = 0
    BY <1>8, <1>9
  <2> HIDE DEF last
  <2> QED
    BY <1>7, <2>1
<1> HIDE DEF last
<1> QED
  BY <1>4, <1>5, <1>8, <1>10 DEF N, d

(* The last strategy of a list of attempts. *)
LEMMA StrategyIs ==
  ASSUME NEW ds, NEW n \in Nat, n # 0, DOMAIN ds = 1..n
  PROVE  OrNone([i \in DOMAIN ds |-> ds[i].strategy]) = ds[n].strategy
<1> DEFINE f == [i \in DOMAIN ds |-> ds[i].strategy]
<1>1. DOMAIN f = 1..n /\ f = [i \in 1..n |-> f[i]] /\ f[n] = ds[n].strategy
  OBVIOUS
<1> HIDE DEF f
<1>2. Len(f) = n /\ f # <<>>
  BY <1>1, LenIs
<1>3. OrNone(f) = ds[n].strategy
  BY <1>1, <1>2 DEF OrNone
<1> QED
  BY <1>3 DEF f

StrategyTold(ds) == art.strategy = F(StrategyFile(ds))
GuardTold(ds) == art.guard = F(GuardFile(ds))

(* A process that ran an attempt has written, or has still to write, each of *)
(* the files with all the attempts in it. *)
FilesInv ==
  /\ pc = "preflight" => here = 0
  /\ Recording /\ "strategy" \notin Range(todo) => StrategyTold(mem.det)
  /\ here # 0 /\ pc \notin {"down", "execute"} =>
       /\ "strategy" \notin Range(todo) /\ StrategyTold(mem.det)
       /\ "gates" \notin Range(todo) /\ GatesTold(mem.det)
  /\ here # 0 /\ pc \in {"incident", "report"} /\ "guard" \notin Range(todo) => GuardTold(mem.det)

(* Where no process is, or one that ran no attempt or is at one, there is    *)
(* nothing to show but of an attempt being recorded. *)
LEMMA FilesVacuous ==
  ASSUME pc' \in {"down", "execute"} \/ here' = 0, pc' = "preflight" => here' = 0,
         Recording' => "strategy" \in Range(todo')
  PROVE  FilesInv'
BY DEF FilesInv

LEMMA FilesInit == RecordsInit => FilesInv
<1> SUFFICES ASSUME RecordsInit PROVE FilesInv
  OBVIOUS
<1>1. pc = "down" /\ ~ Recording
  BY DEF RecordsInit, Init, NewMem, Recording
<1> QED
  BY <1>1 DEF FilesInv

LEMMA FilesOutside ==
  ASSUME RecInv, FilesInv,
         \/ (\E c \in Launched : Launch(c)) \/ Exits \/ Starts \/ Preflight \/ Reviewers
         \/ WritesReport \/ Dies \/ DiesLate
  PROVE  FilesInv'
<1>1. CASE (\E c \in Launched : Launch(c)) \/ Exits \/ Reviewers \/ DiesLate
  <2>1. pc = "down" /\ UNCHANGED <<vars, mem>>
    BY <1>1 DEF Launch, Exits, Reviewers, Review, Steer, Act, Tick, Idle, DiesLate
  <2> QED
    BY <2>1, FilesVacuous DEF RecInv, Recording, vars
<1>2. CASE Starts
  <2>1. pc' = "preflight" /\ here' = 0
    BY <1>2 DEF Starts, StartFresh, StartResume, Begin
  <2>2. ~ Recording'
    BY <1>2 DEF Starts, NewMem, Recording
  <2> QED
    BY <2>1, <2>2, FilesVacuous
<1>3. CASE Preflight
  <2>1. pc = "preflight" /\ pc' # "preflight" /\ here' = here
    BY <1>3 DEF Preflight, PreflightPasses, PreflightFails, history
  <2>2. mem.cur = NoAttempt /\ "cur" \in DOMAIN mem
    BY <2>1 DEF RecInv
  <2>3. mem'.cur = mem.cur
    BY <1>3, <2>2 DEF Preflight
  <2> QED
    BY <2>1, <2>2, <2>3, FilesVacuous DEF FilesInv, Recording
<1>4. CASE WritesReport \/ Dies
  <2>1. pc' = "down" /\ mem' = NewMem
    BY <1>4 DEF WritesReport, EmitReport, Dies, Crash, Down
  <2> QED
    BY <2>1, FilesVacuous DEF NewMem, Recording
<1> QED
  BY <1>1, <1>2, <1>3, <1>4

LEMMA FilesLoop ==
  ASSUME RecInv, TrustInv, FilesInv, Planned \/ OutOfTime \/ Decides \/ Leaves \/ Finishes \/ WritesPacket
  PROVE  FilesInv'
<1>1. /\ pc \notin {"down", "preflight", "execute"} /\ pc' \notin {"down", "preflight"}
      /\ here' = here \/ pc' = "execute"
  BY DEF Planned, Plan, Execute, OutOfTime, BudgetSpent, Decides, Complete, GuardStop, Retry,
         IterationsSpent, Persist, Leaves, LoopEnds, Finishes, Finish, WritesPacket, EmitIncident,
         history
<1>2. mem.cur = NoAttempt /\ {"det", "cur"} \subseteq DOMAIN mem
  BY <1>1 DEF RecInv
<1>3. mem'.cur = mem.cur /\ mem'.det = mem.det
  <2>1. mem' = mem \/ (\E x : mem' = [mem EXCEPT !.budget = x])
    BY DEF Planned, OutOfTime, BudgetWas, Decides, Leaves, records, Finishes, WritesPacket
  <2> QED
    BY <1>2, <2>1
<1>4. ~ Recording'
  BY <1>2, <1>3 DEF Recording
<1>5. CASE here = 0 \/ pc' = "execute"
  BY <1>1, <1>4, <1>5, FilesVacuous
<1>6. CASE here # 0 /\ pc' # "execute"
  <2>1. /\ "strategy" \notin Range(todo) /\ StrategyTold(mem.det)
        /\ "gates" \notin Range(todo) /\ GatesTold(mem.det)
    BY <1>1, <1>6 DEF FilesInv
  <2>2. todo' \in {todo, <<"draft">>, <<"meta", "guard">>}
    BY DEF Planned, OutOfTime, Decides, Leaves, records, Finishes, WritesPacket
  <2>3. "strategy" \notin Range(todo') /\ "gates" \notin Range(todo')
    BY <2>1, <2>2, NoneTodo
  <2>4. art' = art \/ (\E x : art' = [art EXCEPT !.packet = x])
    BY DEF Planned, OutOfTime, Decides, Leaves, records, Finishes, WritesPacket
  <2>5. art'.strategy = art.strategy /\ art'.gates = art.gates /\ art'.guard = art.guard
    BY <2>4 DEF TrustInv, ToWrite
  <2>6. StrategyTold(mem.det)' /\ GatesTold(mem.det)'
    BY <1>3, <2>1, <2>5 DEF StrategyTold, GatesTold
  <2>7. ASSUME pc' \in {"incident", "report"}, "guard" \notin Range(todo')
        PROVE  GuardTold(mem.det)'
    <3>1. ~ (Planned \/ OutOfTime \/ Decides \/ Leaves)
      BY <2>7 DEF Planned, Plan, Execute, OutOfTime, BudgetSpent, Decides, Complete, GuardStop, Retry,
                  IterationsSpent, Persist, Leaves, LoopEnds
    <3>2. ~ Finishes
      BY <2>7, NoneTodo DEF Finishes
    <3>3. WritesPacket
      BY <3>1, <3>2
    <3>4. pc = "incident" /\ todo = <<>>
      BY <3>3 DEF WritesPacket, EmitIncident
    <3>5. GuardTold(mem.det)
      BY <1>6, <3>4, NoneTodo DEF FilesInv
    <3> QED
      BY <1>3, <2>5, <3>5 DEF GuardTold
  <2> QED
    BY <1>1, <1>4, <2>3, <2>6, <2>7 DEF FilesInv
<1> QED
  BY <1>5, <1>6

LEMMA FilesAttempt ==
  ASSUME IInv, RecInv, TrustInv, FilesInv, (\E o \in Outcomes : Work(o)) \/ Judge \/ AttemptRecorded
  PROVE  FilesInv'
<1>1. CASE \E o \in Outcomes : Work(o)
  <2>1. PICK o \in Outcomes :
          /\ pc = "execute" /\ UNCHANGED vars
          /\ mem' = [mem EXCEPT !.cur = [iter |-> st.cur, outcome |-> o, judged |-> FALSE]]
    BY <1>1 DEF Work
  <2>2. ~ Recording'
    BY <2>1 DEF RecInv, Recording
  <2> QED
    BY <2>1, <2>2, FilesVacuous DEF vars
<1>2. CASE Judge
  <2>1. pc' = "execute"
    BY <1>2 DEF Judge, vars
  <2>2. "strategy" \in Range(todo')
    <3>1. PICK p \in {<<>>, <<"gates">>}, q \in {<<>>, <<"guard">>} : todo' = <<"strategy">> \o p \o q
      BY <1>2 DEF Judge
    <3>2. <<"strategy">> \in Seq(ToWrite) /\ p \in Seq(ToWrite) /\ q \in Seq(ToWrite)
      BY Writable DEF ToWrite
    <3>3. Range(<<"strategy">>) = {"strategy"}
      BY DEF Range
    <3> DEFINE s == <<"strategy">>
               w == s \o p
    <3> HIDE DEF s
    <3>4. w \in Seq(ToWrite) /\ Range(w) = Range(s) \cup Range(p)
      BY ZenonT(60), <3>2, ConcatProperties, RangeConcatenation DEF s
    <3>5. todo' = w \o q
      BY <3>1 DEF s
    <3> HIDE DEF w
    <3>6. Range(w \o q) = Range(w) \cup Range(q)
      BY <3>2, <3>4, RangeConcatenation
    <3> QED
      BY <3>3, <3>4, <3>5, <3>6 DEF s
  <2> QED
    BY <2>1, <2>2, FilesVacuous
<1>3. CASE AttemptRecorded
  <2>1. /\ pc = "execute" /\ pc' = "decide" /\ Recording /\ todo = <<>> /\ UNCHANGED <<todo, art>>
        /\ mem' = [mem EXCEPT !.cur = NoAttempt]
    BY ZenonT(60), <1>3 DEF AttemptRecorded, Recording, AttemptEnds, RecordAttempt, Persist
  <2>2. mem'.det = mem.det /\ ~ Recording'
    BY <2>1 DEF RecInv, Recording
  <2>3. StrategyTold(mem.det) /\ GatesTold(mem.det)
    BY <2>1, NoneTodo DEF FilesInv, TrustInv
  <2>4. StrategyTold(mem.det)' /\ GatesTold(mem.det)'
    BY <2>1, <2>2, <2>3 DEF StrategyTold, GatesTold
  <2> QED
    BY <2>1, <2>2, <2>4, NoneTodo DEF FilesInv
<1> QED
  BY <1>1, <1>2, <1>3

LEMMA FilesWritten ==
  ASSUME RecInv, TrustInv, FilesInv, WriteNext
  PROVE  FilesInv'
<1> DEFINE x == todo[1]
           c == F(Content(x))
<1>1. /\ todo # <<>> /\ todo \in Seq(ToWrite)
      /\ art' = [art EXCEPT ![x] = c] /\ todo' = Tail(todo)
  BY DEF WriteNext, RecInv
<1>2. UNCHANGED <<vars, mem>>
  BY DEF WriteNext
<1>3. /\ x = "gates" => c = F(Gated(mem.det))
      /\ x = "strategy" => c = F(StrategyFile(mem.det))
      /\ x = "guard" => c = F(GuardFile(mem.det))
  BY DEF Content
<1> HIDE DEF c
<1>4. {"gates", "strategy", "guard"} \subseteq DOMAIN art
  BY DEF TrustInv, ToWrite
<1>5. Range(todo) = {x} \cup Range(todo')
  BY <1>1, RangeOfRest
<1> HIDE DEF x
<1>6. /\ art'.gates = IF x = "gates" THEN F(Gated(mem.det)) ELSE art.gates
      /\ art'.strategy = IF x = "strategy" THEN F(StrategyFile(mem.det)) ELSE art.strategy
      /\ art'.guard = IF x = "guard" THEN F(GuardFile(mem.det)) ELSE art.guard
  BY <1>1, <1>3, <1>4
<1>7. /\ (x # "gates" => GatesTold(mem.det)) => GatesTold(mem.det)'
      /\ (x # "strategy" => StrategyTold(mem.det)) => StrategyTold(mem.det)'
      /\ (x # "guard" => GuardTold(mem.det)) => GuardTold(mem.det)'
  BY <1>2, <1>6 DEF GatesTold, StrategyTold, GuardTold
<1> QED
  BY <1>2, <1>5, <1>7 DEF FilesInv, Recording, vars

LEMMA FilesInductive ==
  IInv /\ RecInv /\ TrustInv /\ FilesInv /\ [RecordsNext]_allVars => FilesInv'
<1>1. ASSUME FilesInv, UNCHANGED allVars PROVE FilesInv'
  BY <1>1 DEF FilesInv, GatesTold, StrategyTold, GuardTold, Recording, allVars, vars, history, records
<1> QED
  BY <1>1, FilesOutside, FilesLoop, FilesAttempt, FilesWritten DEF RecordsNext

(* What the detail of an attempt says of its gates and its guard.             *)
Matches(d, a) ==
  /\ d.gated <=> a.gate.evaluated
  /\ d.gated => (Passed(a.gate) <=> d.codes = <<>>)
  /\ a.guard <=> d.guard # "none"

LEMMA AgreedAttempt ==
  ASSUME NEW d, NEW a, Agrees(d, a), a.gate.evaluated \in BOOLEAN, a.guard \in BOOLEAN
  PROVE  Matches(d, a)
<1> DEFINE none == <<>>
<1>1. /\ d.gated = a.gate.evaluated /\ a.guard = (d.guard # "none")
      /\ d.codes \in Seq(GateCodes) /\ (d.gated => a.gate.reasons = Len(d.codes))
  BY DEF Agrees
<1>2. d.codes = none <=> Len(d.codes) = 0
  BY <1>1, EmptySeq
<1> HIDE DEF none
<1>3. d.gated <=> a.gate.evaluated
  BY <1>1, Zenon
<1>4. a.guard <=> d.guard # "none"
  BY <1>1, Zenon
<1>5. d.gated => (Passed(a.gate) <=> d.codes = none)
  BY <1>1, <1>2 DEF Passed
<1> QED
  BY <1>3, <1>4, <1>5, Zenon DEF Matches, none

(* The places of the attempts the summary counts.                             *)
LEMMA AgreedPlaces ==
  ASSUME NEW ds, NEW as, NEW n \in Nat, DOMAIN as = 1..n, DOMAIN ds = 1..n,
         \A k \in 1..n : Matches(ds[k], as[k])
  PROVE  LET gate == {k \in DOMAIN as : as[k].gate.evaluated}
             passed == {k \in gate : Passed(as[k].gate)}
         IN  /\ passed = Clean(ds) /\ gate \ passed = Flawed(ds)
             /\ {k \in DOMAIN as : as[k].guard} = Guarded(ds)
<1> DEFINE none == <<>>
           gate == {k \in DOMAIN as : as[k].gate.evaluated}
           passed == {k \in gate : Passed(as[k].gate)}
           stopped == {k \in DOMAIN as : as[k].guard}
           clean == {k \in DOMAIN ds : ds[k].gated /\ ds[k].codes = none}
           flawed == {k \in DOMAIN ds : ds[k].gated /\ ds[k].codes # none}
           silent == {k \in DOMAIN ds : ds[k].guard # "none"}
           P(k) == Passed(as[k].gate)
           E(k) == as[k].gate.evaluated
           G(k) == as[k].guard
           g(k) == ds[k].gated
           c(k) == ds[k].codes = none
           h(k) == ds[k].guard # "none"
<1>1. \A k \in 1..n : (g(k) <=> E(k)) /\ (g(k) => (P(k) <=> c(k))) /\ (G(k) <=> h(k))
  BY Zenon DEF Matches
<1>2. \A k : k \in gate <=> k \in 1..n /\ E(k)
  BY Zenon
<1>3. \A k : k \in passed <=> k \in gate /\ P(k)
  BY Zenon
<1>4. \A k : (k \in clean <=> k \in 1..n /\ g(k) /\ c(k))
             /\ (k \in flawed <=> k \in 1..n /\ g(k) /\ ~ c(k))
  BY Zenon
<1>5. \A k : (k \in stopped <=> k \in 1..n /\ G(k)) /\ (k \in silent <=> k \in 1..n /\ h(k))
  BY Zenon
<1> HIDE DEF gate, passed, stopped, clean, flawed, silent, P, E, G, g, c, h
<1>6. passed = clean
  BY ONLY <1>1, <1>2, <1>3, <1>4
<1>7. gate \ passed = flawed
  BY ONLY <1>1, <1>2, <1>3, <1>4
<1>8. stopped = silent
  BY ONLY <1>1, <1>5
<1>9. clean = Clean(ds) /\ flawed = Flawed(ds) /\ silent = Guarded(ds)
  BY Zenon DEF clean, flawed, silent, none, Clean, Flawed, Guarded
<1> QED
  BY ONLY <1>6, <1>7, <1>8, <1>9, Zenon DEF gate, passed, stopped

(* A file is told as it was written.                                          *)
LEMMA ToldFiles ==
  ASSUME NEW f, NEW g, NEW latest, NEW total, NEW guard, NEW strategy,
         f.gates = F(g), f.strategy = F(strategy), f.guard = F(guard),
         guard.latest = latest, guard.total = total,
         Found(f.report), f.report.of.guard = latest, f.report.of.strategy = strategy
  PROVE  /\ GateAttempts(f) = g /\ LatestStrategy(f) = strategy
         /\ LatestGuard(f) = latest /\ GuardTotal(f) = total
<1>1. /\ Found(f.gates) /\ f.gates.of = g /\ Found(f.strategy) /\ f.strategy.of = strategy
      /\ Found(f.guard) /\ f.guard.of = guard
  BY DEF F, Found
<1>2. GateAttempts(f) = g
  BY <1>1 DEF GateAttempts
<1>3. LatestStrategy(f) = strategy
  BY <1>1 DEF LatestStrategy
<1>4. LatestGuard(f) = latest
  BY <1>1 DEF LatestGuard
<1>5. GuardTotal(f) = total
  BY <1>1 DEF GuardTotal
<1> QED
  BY <1>2, <1>3, <1>4, <1>5

(* What the report of a session says, and the summary of its files.          *)
LEMMA SummaryOf ==
  ASSUME NEW f, NEW ds, NEW as, NEW n \in Nat, n # 0, NEW well \in BOOLEAN,
         DOMAIN as = 1..n, DOMAIN ds = 1..n, ds = [k \in 1..n |-> ds[k]],
         \A k \in 1..n : Agrees(ds[k], as[k]) /\ as[k].gate.evaluated \in BOOLEAN
                                             /\ as[k].guard \in BOOLEAN,
         Found(f.report), f.report.of.ok = well,
         f.report.of.strategy = OrNone([i \in DOMAIN ds |-> ds[i].strategy]),
         f.report.of.guard = GuardFile(ds).latest,
         f.gates = F(Gated(ds)), f.strategy = F(StrategyFile(ds)), f.guard = F(GuardFile(ds))
  PROVE  SummaryTells(f, well, ds, as)
<1> DEFINE gate == {k \in DOMAIN as : as[k].gate.evaluated}
           passed == {k \in gate : Passed(as[k].gate)}
           stopped == {k \in DOMAIN as : as[k].guard}
           g == Gated(ds)
           guard == GuardFile(ds)
           strategy == StrategyFile(ds)
           s == Summary(f)
           good == Cardinality({i \in DOMAIN g : g[i].codes = <<>>})
           bad == Cardinality({i \in DOMAIN g : g[i].codes # <<>>})
<1>1. \A k \in 1..n : Matches(ds[k], as[k])
  BY AgreedAttempt, Zenon
<1>2. passed = Clean(ds) /\ gate \ passed = Flawed(ds) /\ stopped = Guarded(ds)
  BY <1>1, AgreedPlaces, Zenon
<1>3. good = Cardinality(Clean(ds)) /\ bad = Cardinality(Flawed(ds))
  BY GatesCounted, Zenon
<1>4. guard.total = Cardinality(Guarded(ds)) /\ (guard.latest = "none") = (Guarded(ds) = {})
  BY GuardsCounted, Zenon
<1>5. strategy = OrNone([i \in DOMAIN ds |-> ds[i].strategy]) /\ strategy = ds[n].strategy
  BY StrategyIs DEF StrategyFile
<1>6. Len(ds) = n
  BY LenIs
<1>7. /\ f.gates = F(g) /\ f.strategy = F(strategy) /\ f.guard = F(guard)
      /\ f.report.of.guard = guard.latest /\ f.report.of.strategy = strategy
  BY <1>5
<1> HIDE DEF g, guard, strategy, gate, passed, stopped
<1>8. /\ GateAttempts(f) = g /\ LatestStrategy(f) = strategy
      /\ LatestGuard(f) = guard.latest /\ GuardTotal(f) = guard.total
  BY ONLY <1>7, ToldFiles, Found(f.report), Zenon
<1>9. Outcome(f) = IF well THEN "completed" ELSE "failed"
  BY DEF Outcome
<1>10. /\ s.status = Outcome(f) /\ s.strategy = strategy
       /\ s.guard = guard.latest /\ s.guards = guard.total
       /\ s.passes = good /\ s.fails = bad
  BY <1>8 DEF Summary
<1> HIDE DEF s, good, bad
<1>11. /\ s.status = IF well THEN "completed" ELSE "failed"
       /\ s.passes = Cardinality(passed) /\ s.fails = Cardinality(gate \ passed)
       /\ s.strategy = ds[Len(ds)].strategy
       /\ s.guards = Cardinality(stopped)
  BY <1>2, <1>3, <1>4, <1>5, <1>6, <1>9, <1>10
<1>12. (s.guard # "none") = (stopped # {})
  BY <1>2, <1>4, <1>10
<1> QED
  BY <1>11, <1>12 DEF SummaryTells, s, gate, passed, stopped

LEMMA SummaryHonest ==
  ASSUME IInv, RecInv, TrustInv, FilesInv, WritesReport, here # 0, LastGated
  PROVE  SummaryTells(art', ok, mem.det, file.attempts)
<1> DEFINE ds == mem.det
           as == file.attempts
           n == Len(as)
           r == Report(Told, ok)
<1>1. /\ pc = "report" /\ todo = <<>> /\ file = st
      /\ art' = [art EXCEPT !.report = F(r)]
  BY DEF WritesReport, EmitReport, IInv, DiskInv
<1>2. as \in Seq(Attempts) /\ n \in Nat /\ DOMAIN as = 1..n
  BY <1>1, LenProperties DEF IInv, TypeOK, States
<1>3. Tells(ds, as)
  BY <1>1 DEF RecInv, Recording
<1>4. DOMAIN ds = 1..n /\ ds = [k \in 1..n |-> ds[k]] /\ \A k \in 1..n : Agrees(ds[k], as[k])
  BY <1>2, <1>3 DEF Tells
<1>5. n # 0 /\ as[n].gate.evaluated
  BY <1>2, EmptySeq DEF LastGated
<1>6. \A k \in 1..n : as[k].gate.evaluated \in BOOLEAN /\ as[k].guard \in BOOLEAN
  <2> TAKE k \in 1..n
  <2>1. as[k] \in Attempts
    BY <1>2
  <2>2. as[k].guard \in BOOLEAN /\ as[k].gate \in GateResults \cup {NoGates}
    BY <2>1 DEF Attempts
  <2>3. \A g \in GateResults \cup {NoGates} : g.evaluated \in BOOLEAN
    <3>1. \A g \in GateResults : g.evaluated = TRUE
      BY DEF GateResults
    <3>2. NoGates.evaluated = FALSE
      BY DEF NoGates
    <3> QED
      BY <3>1, <3>2
  <2> QED
    BY <2>2, <2>3
<1>7. Len(ds) = n /\ ds # <<>> /\ ds[n].gated
  <2>1. Len(ds) = n /\ ds # <<>>
    BY <1>2, <1>4, <1>5, LenIs
  <2>2. Agrees(ds[n], as[n])
    <3> HIDE DEF ds, as, n
    <3>1. n \in 1..n
      BY <1>2, <1>5
    <3> QED
      BY <1>4, <3>1
  <2> QED
    BY <1>5, <2>1, <2>2 DEF Agrees
<1>8. /\ art.gates = F(Gated(ds)) /\ art.strategy = F(StrategyFile(ds)) /\ art.guard = F(GuardFile(ds))
  BY <1>1, <1>7, NoneTodo DEF FilesInv, GatesTold, StrategyTold, GuardTold
<1>9. /\ r.ok = ok /\ r.strategy = OrNone([i \in DOMAIN ds |-> ds[i].strategy])
      /\ r.guard = GuardFile(ds).latest
  <2>1. Told.attempts = ds
    BY DEF Told
  <2> QED
    BY <2>1 DEF Report, GuardFile
<1>10. {"gates", "strategy", "guard", "report"} \subseteq DOMAIN art
  BY DEF TrustInv, ToWrite, RecInv
<1> HIDE DEF r
<1>11. /\ Found(art'.report) /\ art'.report.of = r
       /\ art'.gates = art.gates /\ art'.strategy = art.strategy /\ art'.guard = art.guard
  BY <1>1, <1>10 DEF F, Found
<1>12. ok \in BOOLEAN
  BY DEF IInv, TypeOK
<1> HIDE DEF ds, as, n
<1> DEFINE f == art'
<1>13. /\ Found(f.report) /\ f.report.of.ok = ok
       /\ f.report.of.strategy = OrNone([i \in DOMAIN ds |-> ds[i].strategy])
       /\ f.report.of.guard = GuardFile(ds).latest
       /\ f.gates = F(Gated(ds)) /\ f.strategy = F(StrategyFile(ds)) /\ f.guard = F(GuardFile(ds))
  BY <1>8, <1>9, <1>11
<1> HIDE DEF f
<1>14. SummaryTells(f, ok, ds, as)
  BY <1>2, <1>4, <1>5, <1>6, <1>12, <1>13, SummaryOf
<1> QED
  BY <1>14 DEF f, ds, as

(* When a process that ran an attempt writes the report of its session, the  *)
(* summary read from the files of the session tells all its attempts,        *)
(* whatever an older session, a death or a torn file left there before.      *)
THEOREM SummaryHolds ==
  ASSUME BOOLEAN \subseteq GatePolicies
  PROVE  RecordsSpec => SummaryTrue
<1> DEFINE Honest == WritesReport /\ here # 0 /\ LastGated =>
                       SummaryTells(art', ok, mem.det, file.attempts)
<1>1. RecordsInit => IInv /\ RecInv /\ TrustInv /\ FilesInv
  BY InitInv, RecInit, TrustInit, FilesInit DEF RecordsInit
<1>2. IInv /\ RecInv /\ TrustInv /\ FilesInv /\ [RecordsNext]_allVars
      => (IInv /\ RecInv /\ TrustInv /\ FilesInv)'
  <2>1. [RecordsNext]_allVars => [Next]_vars
    BY StepImplements DEF allVars
  <2> QED
    BY <2>1, InvInductive, RecInductive, TrustInductive, FilesInductive
<1>3. IInv /\ RecInv /\ TrustInv /\ FilesInv /\ [RecordsNext]_allVars => [Honest]_allVars
  BY SummaryHonest
<1> QED
  BY <1>1, <1>2, <1>3, PTL DEF RecordsSpec, SummaryTrue

-----------------------------------------------------------------------------
(* The configuration *)

(* An integer the loader takes is written back as it is, and the resolvers of  *)
(* the session read the same again.                                           *)
LEMMA IntTwice ==
  ASSUME NEW v \in FileScalars, IntOf(v) # Bad
  PROVE  LET w == Kept(v, IntOf(v))
         IN  /\ w.n = v.n /\ (w = Null <=> IntOf(v) = Null)
             /\ CutInt(w) = w /\ w = IntOf(v) /\ w # Bad /\ w.n \in Int /\ w.n # NaN
<1>1. /\ v.k \in {"null", "absent", "bool", "int", "intstr", "float", "floatstr", "str"}
      /\ v.n \in Int /\ v = [k |-> v.k, n |-> v.n]
      /\ v.k = "null" => v.n = 0
      /\ v.k \in {"bool", "int", "intstr"} => Whole(v.n)
  BY DEF FileScalars
<1>2. CASE v.k = "null"
  <2>1. v = Null
    BY <1>1, <1>2 DEF Null, V
  <2>2. IntOf(v) = Null /\ Null.k = "null" /\ Null.n = 0 /\ Null # Bad
    BY <2>1 DEF IntOf, Null, V, Bad
  <2>3. Kept(v, IntOf(v)) = Null /\ CutInt(Null) = Null
    BY <2>1, <2>2 DEF Kept, CutInt
  <2> QED
    BY <2>1, <2>2, <2>3 DEF NaN
<1>3. CASE v.k # "null"
  <2>1. IntOf(v) = V("int", v.n) /\ Whole(v.n)
    BY <1>1, <1>3 DEF IntOf, Bad, Null
  <2> DEFINE w == V("int", v.n)
  <2>2. w.k = "int" /\ w.n = v.n /\ w # Null /\ w # Bad
    BY DEF V, Null, Bad
  <2>3. Kept(v, w) = w
    BY <2>2 DEF Kept
  <2>4. v.n # NaN /\ Toward0(v.n) = v.n
    BY <1>1, <2>1 DEF Whole, Toward0
  <2>5. CutInt(w) = w
    BY <2>2, <2>4 DEF CutInt
  <2> QED
    BY <1>1, <2>1, <2>2, <2>3, <2>4, <2>5
<1> QED
  BY <1>2, <1>3

LEMMA FloatTwice ==
  ASSUME NEW v \in FileScalars, FloatOf(v) # Bad
  PROVE  LET w == Kept(v, FloatOf(v))
         IN  w.n = v.n /\ FloatOf(w) = w /\ w = FloatOf(v)
<1>1. /\ v.k \in {"null", "absent", "bool", "int", "intstr", "float", "floatstr", "str"}
      /\ v.n \in Int /\ v = [k |-> v.k, n |-> v.n]
      /\ v.k = "null" => v.n = 0
  BY DEF FileScalars
<1>2. CASE v.k = "null"
  <2>1. v = Null
    BY <1>1, <1>2 DEF Null, V
  <2>2. FloatOf(v) = Null /\ Null.k = "null"
    BY <2>1 DEF FloatOf, Null, V
  <2>3. Kept(v, FloatOf(v)) = Null
    BY <2>1, <2>2 DEF Kept
  <2> QED
    BY <2>1, <2>2, <2>3
<1>3. CASE v.k # "null"
  <2>1. FloatOf(v) = V("float", v.n)
    BY <1>1, <1>3 DEF FloatOf, Bad, Null
  <2> DEFINE w == V("float", v.n)
  <2>2. w.k = "float" /\ w.n = v.n
    BY DEF V
  <2>3. Kept(v, w) = w
    BY <2>2 DEF Kept
  <2>4. FloatOf(w) = w
    BY <2>2 DEF FloatOf
  <2> QED
    BY <2>1, <2>2, <2>3, <2>4
<1> QED
  BY <1>2, <1>3

(* What the loader writes back into the run section.                          *)
LEMMA RunParts ==
  ASSUME NEW r, RunFile(r), r.k = "map"
  PROVE  LET l == RunLoaded(r)
         IN  /\ l.k = "map"
             /\ l.parallel = IF IntOf(r.parallel) \in {Null, Bad} THEN Num(2) ELSE IntOf(r.parallel)
             /\ l.budget = BudgetLoaded(r.budget) /\ l.autonomous = AutonomousLoaded(r.autonomous)
<1> DEFINE P == IF IntOf(r.parallel) \in {Null, Bad} THEN Num(2) ELSE IntOf(r.parallel)
           B == BudgetLoaded(r.budget)
           T == Kept(r.fixTime, IntOf(r.fixTime))
           A == AutonomousLoaded(r.autonomous)
<1>1. RunLoaded(r) = [r EXCEPT !.parallel = P, !.budget = B, !.fixTime = T, !.autonomous = A]
  BY DEF RunLoaded
<1>2. {"k", "parallel", "budget", "fixTime", "autonomous"} \subseteq DOMAIN r
  BY DEF RunFile
<1> DEFINE l == RunLoaded(r)
<1> HIDE DEF P, B, T, A, l
<1>3. l = [r EXCEPT !.parallel = P, !.budget = B, !.fixTime = T, !.autonomous = A]
  BY <1>1 DEF l
<1>4. l.k = "map" /\ l.parallel = P /\ l.budget = B /\ l.autonomous = A
  BY <1>2, <1>3
<1> QED
  BY <1>4 DEF P, B, A, l

(* The thresholds of a gate the loader takes.                                 *)
LEMMA GateTwice ==
  ASSUME NEW r, RunFile(r), RunErrors(r) = {}, QualityGatePolicy(RunLoaded(r)).k = "gates",
         NEW s \in GateKeys
  PROVE  LET q == QualityGatePolicy(RunLoaded(r)).of[s]
             x == r.autonomous.gates.sections[s]
         IN  GateRange(s, q) /\ q.n = IF x.k = "map" THEN x.v.n ELSE 0
<1> DEFINE l == RunLoaded(r)
           a == r.autonomous
           g == a.gates
           x == g.sections[s]
           h == GateLoaded(g)
           y == h.sections[s]
<1>1. r.k = "map" /\ l.k = "map" /\ l.autonomous.k = "map"
  <2>1. AutonomousOf(l).k # "null"
    BY DEF QualityGatePolicy
  <2>2. l.k = "map"
    BY <2>1 DEF AutonomousOf
  <2>3. r.k = "map"
    BY <2>2 DEF RunLoaded
  <2> QED
    BY <2>1, <2>2, <2>3 DEF AutonomousOf
<1>2. l.autonomous = IF a.k # "map" THEN a ELSE [a EXCEPT !.gates = h]
  BY <1>1, RunParts DEF AutonomousLoaded
<1>3. a.k = "map"
  BY <1>1, <1>2
<1>4. l.autonomous.gates = h /\ GateFile(g) /\ GateErrors(g) = {}
  BY <1>1, <1>2, <1>3 DEF RunFile, RunErrors
<1>5. h.k # "null" /\ AutonomousOf(l) = l.autonomous
  BY <1>1, <1>4 DEF QualityGatePolicy, AutonomousOf
<1>6. g.k = "map"
  BY <1>4, <1>5 DEF GateErrors, GateLoaded
<1>7. /\ SectionFile(x)
      /\ x.k = "null" \/ (x.k = "map" /\ GateRange(s, GateValue(s, x.v)))
  BY <1>4, <1>6 DEF GateFile, GateErrors
<1>8. y = SectionLoaded(s, x)
  <2> DEFINE G == [t \in GateKeys |-> SectionLoaded(t, g.sections[t])]
  <2>1. h = [g EXCEPT !.sections = G]
    BY <1>6 DEF GateLoaded
  <2>2. {"k", "sections"} \subseteq DOMAIN g
    BY <1>4, <1>6 DEF GateFile
  <2> HIDE DEF G
  <2>3. h.sections = G
    BY <2>1, <2>2
  <2> QED
    BY <2>3 DEF G
<1>9. QualityGatePolicy(l).of[s] = IF y.k # "map" THEN Null
                                   ELSE IF s = "security" THEN CutInt(y.v) ELSE FloatOf(y.v)
  BY <1>1, <1>4, <1>5 DEF QualityGatePolicy
<1> DEFINE q == QualityGatePolicy(l).of[s]
<1> HIDE DEF y, x, q
<1>10. ASSUME x.k = "null" PROVE GateRange(s, q) /\ q.n = 0
  <2>1. y.k # "map"
    BY <1>8, <1>10 DEF SectionLoaded
  <2>2. q = Null
    BY <1>9, <2>1 DEF q
  <2> QED
    BY <2>2 DEF GateRange, Null, V
<1>11. ASSUME x.k = "map" PROVE GateRange(s, q) /\ q.n = x.v.n
  <2> DEFINE v == x.v
             w == GateValue(s, v)
  <2>1. v \in FileScalars /\ y.v = Kept(v, w) /\ y.k = "map" /\ GateRange(s, w)
    BY <1>7, <1>8, <1>11 DEF SectionFile, SectionLoaded
  <2>2. w # Bad
    BY <2>1 DEF GateRange, Null, Bad, V
  <2> HIDE DEF v
  <2>3. CASE s = "security"
    <3>1. w = IntOf(v)
      BY <2>3 DEF GateValue
    <3>2. CutInt(y.v) = w /\ w.n = v.n
      BY <2>1, <2>2, <3>1, IntTwice
    <3> QED
      BY <1>9, <2>1, <2>3, <3>2 DEF v, q
  <2>4. CASE s # "security"
    <3>1. w = FloatOf(v)
      BY <2>4 DEF GateValue
    <3>2. FloatOf(y.v) = w /\ w.n = v.n
      BY <2>1, <2>2, <3>1, FloatTwice
    <3> QED
      BY <1>9, <2>1, <2>4, <3>2 DEF v, q
  <2> QED
    BY <2>3, <2>4
<1> QED
  BY <1>7, <1>10, <1>11 DEF x, q

(* What the loader takes for a count is one of at least one.                  *)
LEMMA CountTwice ==
  ASSUME NEW v \in FileScalars, IntAtLeast(v, 1)
  PROVE  LET w == Kept(v, IntOf(v)) IN CutInt(w) = Null \/ Positive(CutInt(w))
<1> DEFINE w == Kept(v, IntOf(v))
<1>1. IntOf(v) # Bad
  BY DEF IntAtLeast, Null, Bad, V
<1>2. w = IntOf(v) /\ CutInt(w) = w /\ w # Bad /\ w.n \in Int /\ w.n # NaN
  BY <1>1, IntTwice
<1>3. w = Null \/ ~ Below(w, 1)
  BY <1>2 DEF IntAtLeast
<1> HIDE DEF w
<1>4. w = Null \/ w.n >= 2
  BY <1>2, <1>3 DEF Below
<1> QED
  BY <1>2, <1>4 DEF Positive, w

(* The arguments of a session whose configuration loads.                      *)
LEMMA ArgumentsTwice ==
  ASSUME NEW r, RunFile(r), RunErrors(r) = {}
  PROVE  LET l == RunLoaded(r)
             tokens == IF l.k = "map" /\ l.budget.k = "map" THEN CutInt(l.budget.tokens) ELSE Null
         IN  /\ Positive(IF l.k = "map" THEN CutInt(l.parallel) ELSE Num(2))
             /\ tokens = Null \/ Positive(tokens)
<1> DEFINE l == RunLoaded(r)
<1>1. Positive(Num(2)) /\ CutInt(Num(2)) = Num(2)
  BY DEF Positive, Num, V, Bad, CutInt, Toward0, NaN
<1>2. CASE r.k # "map"
  BY <1>1, <1>2 DEF RunLoaded
<1>3. CASE r.k = "map"
  <2>1. /\ r.parallel \in FileScalars /\ IntAtLeast(r.parallel, 1)
    BY <1>3 DEF RunFile, RunErrors, If
  <2>2. /\ l.k = "map"
        /\ l.parallel = IF IntOf(r.parallel) \in {Null, Bad} THEN Num(2) ELSE IntOf(r.parallel)
        /\ l.budget = IF r.budget.k # "map" THEN r.budget
                      ELSE [r.budget EXCEPT !.tokens = Kept(@, IntOf(@))]
    BY <1>3, RunParts DEF BudgetLoaded
  <2>3. Positive(CutInt(l.parallel))
    <3>1. CASE IntOf(r.parallel) \in {Null, Bad}
      BY <1>1, <2>2, <3>1
    <3>2. CASE IntOf(r.parallel) \notin {Null, Bad}
      <4>1. l.parallel = Kept(r.parallel, IntOf(r.parallel)) /\ CutInt(l.parallel) = l.parallel
        BY <2>1, <2>2, <3>2, IntTwice
      <4> QED
        BY <2>1, <2>2, <3>2, <4>1, CountTwice
    <3> QED
      BY <3>1, <3>2
  <2>4. CASE r.budget.k = "map"
    <3> DEFINE v == r.budget.tokens
    <3>1. v \in FileScalars /\ "tokens" \in DOMAIN r.budget /\ IntAtLeast(v, 1)
      BY <1>3, <2>4 DEF RunFile, RunErrors, If
    <3>2. l.budget.k = "map" /\ l.budget.tokens = Kept(v, IntOf(v))
      BY <2>2, <2>4, <3>1
    <3> HIDE DEF v
    <3>3. CutInt(l.budget.tokens) = Null \/ Positive(CutInt(l.budget.tokens))
      BY <3>1, <3>2, CountTwice
    <3> HIDE DEF l
    <3> QED
      BY <2>2, <2>3, <3>2, <3>3 DEF l
  <2>5. CASE r.budget.k # "map"
    BY <2>2, <2>3, <2>5
  <2> QED
    BY <2>4, <2>5
<1> QED
  BY <1>2, <1>3

(* The temperatures.                                                          *)
LEMMA TempsTwice ==
  ASSUME NEW m, NEW env, LlmFile(m), LlmErrors(LlmLoaded(m, env)) = {},
         LlmLoaded(m, env).temps.k = "map", NEW r \in DOMAIN LlmLoaded(m, env).temps.of
  PROVE  Temp(LlmLoaded(m, env).temps.of[r]) # Bad
<1> DEFINE l == LlmLoaded(m, env)
<1>1. l.k = "map"
  BY DEF LlmErrors
<1>2. TempOk(l.temps.of[r])
  BY <1>1 DEF LlmErrors, If
<1> QED
  BY <1>2 DEF TempOk

(* The configuration of a start is one of the files.                          *)
CfgInv == cfg = NoConfig \/ cfg \in Configs \cup Sessions

LEMMA CfgInductive == CfgInv /\ [RecordsNext]_allVars => CfgInv'
<1> SUFFICES ASSUME CfgInv, [RecordsNext]_allVars PROVE CfgInv'
  OBVIOUS
<1>1. cfg' = cfg \/ cfg' = NoConfig \/ \E c \in Configs \cup Sessions : cfg' = c
  <2>1. CASE \E c \in Launched : Launch(c)
    BY <2>1 DEF Launch, Launched
  <2>2. CASE Exits \/ Starts
    BY <2>2 DEF Exits, Starts
  <2>3. CASE Preflight \/ Planned \/ OutOfTime \/ \E o \in Outcomes : Work(o)
    BY <2>3 DEF Preflight, Planned, OutOfTime, Work, records
  <2>4. CASE Judge \/ AttemptRecorded \/ Decides \/ Leaves
    BY <2>4 DEF Judge, AttemptRecorded, Decides, Leaves, records
  <2>5. CASE Finishes \/ WritesPacket \/ WritesReport \/ WriteNext \/ Dies \/ DiesLate
    BY <2>5 DEF Finishes, WritesPacket, WritesReport, WriteNext, Dies, DiesLate
  <2>6. CASE Reviewers
    BY <2>6 DEF Reviewers, Review, Steer, Tick, Act
  <2>7. CASE UNCHANGED allVars
    BY <2>7 DEF allVars, records
  <2> QED
    BY <2>1, <2>2, <2>3, <2>4, <2>5, <2>6, <2>7 DEF RecordsNext
<1> QED
  BY <1>1 DEF CfgInv

LEMMA PolicySound == CfgInv => PolicyIsSound
<1> SUFFICES ASSUME CfgInv, cfg # NoConfig, LoadErrors(cfg) = {} PROVE PolicyIsSound
  BY DEF PolicyIsSound
<1> DEFINE r == cfg.run
           m == cfg.llm
           c == Load(cfg)
           p == QualityGatePolicy(c.run)
           a == RunArguments(c)
<1>1. {"llm", "profiles", "run"} \subseteq DOMAIN cfg /\ LlmFile(m) /\ RunFile(r)
  BY ConfigAssumption DEF CfgInv, ConfigFile
<1>2. RunErrors(r) = {} /\ LlmErrors(LlmLoaded(m, Env(cfg))) = {}
  BY DEF LoadErrors
<1>3. c.run = RunLoaded(r) /\ c.llm = LlmLoaded(m, Env(cfg))
  BY <1>1 DEF Load
<1> HIDE DEF c
<1>4. p.k = "gates" =>
        \A s \in GateKeys :
          LET x == r.autonomous.gates.sections[s]
          IN  GateRange(s, p.of[s]) /\ p.of[s].n = IF x.k = "map" THEN x.v.n ELSE 0
  BY <1>1, <1>2, <1>3, GateTwice
<1>5. QualityGateOk(p)
  <2>1. p.k = "none" \/ p.k = "gates"
    BY DEF QualityGatePolicy
  <2> QED
    BY <1>4, <2>1 DEF QualityGateOk
<1>6. Positive(a.parallel) /\ (a.tokens = Null \/ Positive(a.tokens))
  BY <1>1, <1>2, <1>3, ArgumentsTwice DEF RunArguments
<1>7. \A x \in DOMAIN a.temps : a.temps[x] # Bad
  <2>1. CASE c.llm.temps.k = "map"
    <3>1. a.temps = [x \in DOMAIN c.llm.temps.of |-> Temp(c.llm.temps.of[x])]
      BY <2>1 DEF RunArguments
    <3> QED
      BY <1>1, <1>2, <1>3, <2>1, <3>1, TempsTwice
  <2>2. CASE c.llm.temps.k # "map"
    BY <2>2 DEF RunArguments
  <2> QED
    BY <2>1, <2>2
<1>8. Resolution(c) = "session" =>
        LET l == AutonomousPolicy(c.run)
            g == StopGuardPolicy(c.run)
        IN  \A v \in {l.iterations, l.seconds, g.failures, g.same} : v.n >= 2
  BY DEF Resolution, Positive, StopGuardOk
<1> HIDE DEF p, a
<1> QED
  BY <1>4, <1>5, <1>6, <1>7, <1>8 DEF PolicyIsSound, p, a, c

(* What load_config lets pass, autonomous start reads as the same thresholds  *)
(* and as limits a session can have, for any configuration files.             *)
THEOREM PolicySame == RecordsSpec => []PolicyIsSound
<1>1. RecordsInit => CfgInv
  BY DEF RecordsInit, CfgInv
<1> QED
  BY <1>1, CfgInductive, PolicySound, PTL DEF RecordsSpec
=============================================================================
