-------------------------- MODULE ValidationProofs --------------------------
(***************************************************************************)
(* What the gates of a run rest on, for every profile, tool and history:   *)
(*   EnvInv    what the bootstrap installed, and when a stamp may lie;     *)
(*   FinalInv  the rows of the final validation are of the workspace;      *)
(*   FixInv    the groups asked at once, and the answers merged;           *)
(*   SkipInv   how old the last result of a skipped validator is;          *)
(*   FeltInv   where in the baseline the last failures are;                *)
(*   PassInv   whose rows the last validation of a task left.              *)
(*                                                                         *)
(* SkipInv and FeltInv share this: what the gate leaves out is Steady, so  *)
(* its last threshold results in the window are passes.  A failure newer   *)
(* than every pass contradicts it (Felt); and every run recorded without   *)
(* the validator moves the passes toward the end of the window.            *)
(*                                                                         *)
(* Selections keep the elements at some positions (KeptThose) and sorts    *)
(* put each where as many come before it (Placed): an element's place in a *)
(* strict order of a finite set is a bijection with the numbers to its     *)
(* size.                                                                   *)
(*                                                                         *)
(* That a passed task hides no failure takes the order of execution and    *)
(* the rows together.  Kahn's queue holds each name once and after what it *)
(* needs (KahnInv), so an order as long as its list is all of the list.    *)
(* Each row is decided by the rows before it (MadeInOrder); the first that *)
(* would hide a hard validator was skipped behind an earlier one that      *)
(* failed, and that one would block (NothingHidden).                       *)
(***************************************************************************)
EXTENDS Validation, FiniteSetTheorems, FunctionTheorems, SequenceTheorems, TLAPS

-----------------------------------------------------------------------------
(* A set of numbers has a least one.                                       *)
LEMMA LeastNumber ==
  ASSUME NEW T \in SUBSET Nat, T # {}
  PROVE  \E m \in T : \A k \in T : m <= k
<1> DEFINE Less == {ss \in Nat \X Nat : ss[1] < ss[2]}
<1>1. IsWellFoundedOn(Less, Nat)
  BY NatLessThanWellFounded DEF OpToRel
<1>2. PICK m \in T : \A y \in T : ~ (<<y, m>> \in Less)
  BY <1>1, WFMin
<1>3. \A y \in T : ~ (y < m)
  BY <1>2
<1> QED
  BY <1>3

(* In a strict order of a finite set, to count what comes before numbers   *)
(* the elements from one to the size of the set.                           *)
StrictOrder(K, B) ==
  /\ \A j \in K : <<j, j>> \notin B
  /\ \A j, k, l \in K : <<j, k>> \in B /\ <<k, l>> \in B => <<j, l>> \in B
  /\ \A j, k \in K : j # k => <<j, k>> \in B \/ <<k, j>> \in B

Place(K, B, k) == Cardinality({j \in K : <<j, k>> \in B}) + 1

LEMMA Placed ==
  ASSUME NEW K, IsFiniteSet(K), NEW B, StrictOrder(K, B)
  PROVE  /\ Cardinality(K) \in Nat
         /\ \A k \in K : Place(K, B, k) \in 1..Cardinality(K)
         /\ \A j, k \in K : Place(K, B, j) = Place(K, B, k) => j = k
         /\ \A i \in 1..Cardinality(K) : \E k \in K : Place(K, B, k) = i
<1> DEFINE n == Cardinality(K)
           ahead(k) == {j \in K : <<j, k>> \in B}
           place(k) == Cardinality(ahead(k)) + 1
<1>0. /\ \A j \in K : <<j, j>> \notin B
      /\ \A j, k, l \in K : <<j, k>> \in B /\ <<k, l>> \in B => <<j, l>> \in B
      /\ \A j, k \in K : j # k => <<j, k>> \in B \/ <<k, j>> \in B
  BY DEF StrictOrder
<1>1. n \in Nat /\ \A k \in K : IsFiniteSet(ahead(k)) /\ Cardinality(ahead(k)) \in Nat
  <2>1. \A k \in K : ahead(k) \in SUBSET K
    OBVIOUS
  <2> QED
    BY <2>1, FS_CardinalityType, FS_Subset
<1>2. ASSUME NEW S, NEW k \in K, S \in SUBSET ahead(k), NEW T \in SUBSET K, S \subseteq T, k \in T, k \notin S
      PROVE  Cardinality(S) < Cardinality(T)
  <2>1. IsFiniteSet(T) /\ Cardinality(T) \in Nat
    BY FS_Subset, FS_CardinalityType
  <2>2. S \in SUBSET (T \ {k}) /\ Cardinality(T \ {k}) = Cardinality(T) - 1 /\ IsFiniteSet(T \ {k})
    BY <1>2, <2>1, FS_RemoveElement
  <2>3. Cardinality(S) <= Cardinality(T \ {k}) /\ Cardinality(S) \in Nat
    BY <2>2, FS_Subset, FS_CardinalityType
  <2> QED
    BY <2>1, <2>2, <2>3
<1>3. \A k \in K : place(k) \in 1..n
  <2> TAKE k \in K
  <2>1. Cardinality(ahead(k)) < n
    BY <1>0, <1>2
  <2> QED
    BY <1>1, <2>1
<1>4. \A j, k \in K : <<j, k>> \in B => place(j) < place(k)
  <2> SUFFICES ASSUME NEW j \in K, NEW k \in K, <<j, k>> \in B
               PROVE  place(j) < place(k)
    OBVIOUS
  <2>1. ahead(j) \subseteq ahead(k) /\ j \in ahead(k) /\ j \notin ahead(j)
    BY <1>0
  <2>2. Cardinality(ahead(j)) < Cardinality(ahead(k))
    <3> HIDE DEF ahead
    <3> QED
      BY <1>2, <2>1, ahead(k) \in SUBSET K DEF ahead
  <2> HIDE DEF ahead
  <2> QED
    BY <1>1, <2>2
<1>5. \A j, k \in K : place(j) = place(k) => j = k
  <2> SUFFICES ASSUME NEW j \in K, NEW k \in K, place(j) = place(k), j # k
               PROVE  FALSE
    OBVIOUS
  <2>1. place(j) \in Int /\ place(k) \in Int /\ ~ place(j) < place(k) /\ ~ place(k) < place(j)
    BY <1>1, <1>3
  <2>2. <<j, k>> \in B \/ <<k, j>> \in B
    BY <1>0
  <2> QED
    BY <1>4, <2>1, <2>2
<1>6. \A i \in 1..n : \E k \in K : place(k) = i
  <2> DEFINE f == [k \in K |-> place(k)]
  <2>1. f \in Injection(K, 1..n)
    <3> HIDE DEF n
    <3>1. f \in [K -> 1..n] /\ \A k \in K : f[k] = place(k)
      BY <1>3
    <3> HIDE DEF f
    <3>2. \A j, k \in K : f[j] = f[k] => j = k
      BY <1>5, <3>1
    <3> QED
      BY <3>1, <3>2, Fun_IsInj
  <2>2. IsFiniteSet(1..n) /\ Cardinality(1..n) = n
    BY <1>1, FS_Interval
  <2>3. f \in Surjection(K, 1..n)
    BY <2>1, <2>2, FS_Injection
  <2> QED
    BY <2>3 DEF Surjection
<1> QED
  BY <1>1, <1>3, <1>5, <1>6 DEF place, Place

(* The kept elements of a sequence are those at the positions named.       *)
LEMMA KeptThose ==
  ASSUME NEW S, NEW s \in Seq(S), NEW K \in SUBSET DOMAIN s
  PROVE  /\ Kept(s, K) \in Seq(S)
         /\ \A i \in DOMAIN Kept(s, K) : \E k \in K : Kept(s, K)[i] = s[k]
         /\ \A k \in K : \E i \in DOMAIN Kept(s, K) : Kept(s, K)[i] = s[k]
         /\ (\A j, k \in K : s[j] = s[k] => j = k) => IsInjective(Kept(s, K))
<1> DEFINE place(k) == Cardinality({j \in K : j < k}) + 1
           n == Cardinality(K)
           B == {p \in K \X K : p[1] < p[2]}
<1>1. IsFiniteSet(K) /\ K \in SUBSET Nat
  <2>1. DOMAIN s = 1..Len(s) /\ Len(s) \in Nat
    OBVIOUS
  <2>2. IsFiniteSet(1..Len(s))
    BY <2>1, FS_Interval
  <2> QED
    BY <2>1, <2>2, FS_Subset
<1>2. \A j, k \in K : <<j, k>> \in B <=> j < k
  OBVIOUS
<1>3. \A k \in K : {j \in K : <<j, k>> \in B} = {j \in K : j < k}
  BY <1>2
<1>4. /\ n \in Nat
      /\ \A k \in K : Place(K, B, k) \in 1..n
      /\ \A j, k \in K : Place(K, B, j) = Place(K, B, k) => j = k
      /\ \A i \in 1..n : \E k \in K : Place(K, B, k) = i
  <2>1. StrictOrder(K, B)
    BY <1>1, <1>2 DEF StrictOrder
  <2> HIDE DEF B
  <2> QED
    BY <1>1, <2>1, Placed
<1>5. /\ n \in Nat
      /\ \A k \in K : place(k) \in 1..n
      /\ \A j, k \in K : place(j) = place(k) => j = k
      /\ \A i \in 1..n : \E k \in K : place(k) = i
  <2>1. \A k \in K : Place(K, B, k) = place(k)
    BY <1>3 DEF Place
  <2> HIDE DEF place, n, B
  <2> QED
    BY <1>4, <2>1
<1>6. Kept(s, K) = [i \in 1..n |-> s[CHOOSE k \in K : place(k) = i]]
  BY DEF Kept
<1> HIDE DEF n, place
<1> DEFINE at(i) == CHOOSE k \in K : place(k) = i
<1>7. \A i \in 1..n : at(i) \in K /\ place(at(i)) = i
  BY <1>5
<1>8. \A k \in K : at(place(k)) = k
  BY <1>5, <1>7
<1>9. Kept(s, K) = [i \in 1..n |-> s[at(i)]]
  BY <1>6
<1>10. \A k \in K : s[k] \in S
  OBVIOUS
<1> HIDE DEF at
<1>11. Kept(s, K) \in [1..n -> S]
  BY <1>7, <1>9, <1>10
<1>12. Kept(s, K) \in Seq(S)
  BY <1>5, <1>11
<1>13. DOMAIN Kept(s, K) = 1..n
  BY <1>9
<1>14. \A i \in 1..n : Kept(s, K)[i] = s[at(i)]
  BY <1>9
<1>15. \A i \in 1..n : \E k \in K : Kept(s, K)[i] = s[k]
  BY <1>7, <1>14
<1>16. \A k \in K : place(k) \in 1..n /\ Kept(s, K)[place(k)] = s[k]
  BY <1>5, <1>8, <1>14
<1>17. ASSUME \A j, k \in K : s[j] = s[k] => j = k
       PROVE  IsInjective(Kept(s, K))
  <2>1. \A i, j \in 1..n : at(i) = at(j) => i = j
    BY <1>7
  <2> QED
    BY <1>7, <1>13, <1>14, <1>17, <2>1 DEF IsInjective
<1> QED
  BY <1>12, <1>13, <1>15, <1>16, <1>17

LEMMA KeptOnce ==
  ASSUME NEW S, NEW s \in Seq(S), IsInjective(s), NEW K \in SUBSET DOMAIN s
  PROVE  Kept(s, K) \in Seq(S) /\ IsInjective(Kept(s, K))
<1>1. \A j, k \in K : s[j] = s[k] => j = k
  BY DEF IsInjective
<1> QED
  BY <1>1, KeptThose

-----------------------------------------------------------------------------
(* The environment: a stamp outlives what it was written for only when pip *)
(* was cut short or the environment deleted.                               *)
Begun == {"tasks", "validate", "failed", "asked", "fixed", "final"}

EnvInv ==
  /\ profile \in Profiles /\ required \in profile.versions
  /\ DOMAIN env = {"venv", "installed", "stamp", "booted", "cut"}
  /\ env.venv = "none" => env.installed = 0
  /\ env.stamp # 0 => env.installed = env.stamp \/ env.cut
  /\ phase = "stamp" => env.installed = required
  /\ EnvCurrent

LEMMA EnvInit == Init => EnvInv
BY DEF Init, EnvInv, EnvCurrent

LEMMA EnvNext == EnvInv /\ [Next]_vars => EnvInv'
<1> SUFFICES ASSUME EnvInv, [Next]_vars
             PROVE  EnvInv'
  OBVIOUS
<1> USE DEF EnvInv, EnvCurrent
<1>0. required # 0
  BY ProfileAssumption
<1>1. CASE RunBegins \/ EnsureVenv \/ VenvMade
  BY <1>1 DEF RunBegins, EnsureVenv, VenvMade
<1>2. CASE AlreadyInstalled
  BY <1>0, <1>2 DEF AlreadyInstalled, StampCurrent, Booted
<1>3. CASE PipInstalls
  BY <1>3 DEF PipInstalls
<1>4. CASE WriteStamp
  BY <1>4 DEF WriteStamp, Booted
<1>5. CASE Implement \/ ApplyFix \/ PerfRepair
  <2>1. required' \in profile.versions /\ profile' = profile /\ env' = env /\ phase' \in Begun /\ phase \in Begun
    <3>1. CASE Implement
      BY <3>1 DEF Implement, Changed, Begun
    <3>2. CASE ApplyFix
      BY <3>2 DEF ApplyFix, Changed, Begun
    <3>3. CASE PerfRepair
      BY <3>3 DEF PerfRepair, Changed, Begun
    <3> QED
      BY <1>5, <3>1, <3>2, <3>3
  <2> QED
    BY <2>1 DEF Begun
<1>6. CASE Validate \/ TaskFails \/ AskFixer \/ FixersAnswer \/ FinalValidation \/ RunEnds \/ Leave \/ Crash
  <2>1. /\ profile' = profile /\ required' = required /\ env' = env /\ phase' # "stamp"
        /\ phase' \in Begun => phase \in Begun
    <3>1. CASE Validate \/ TaskFails \/ AskFixer
      BY <3>1 DEF Validate, TaskFails, AskFixer, Begun
    <3>2. CASE FixersAnswer
      BY <3>2 DEF FixersAnswer, Begun
    <3>3. CASE FinalValidation \/ RunEnds \/ Leave \/ Crash
      BY <3>3 DEF FinalValidation, RunEnds, Leave, Crash, Begun
    <3> QED
      BY <1>6, <3>1, <3>2, <3>3
  <2> QED
    BY <2>1 DEF Begun
<1>7. CASE Edit
  BY <1>7 DEF Edit
<1>8. CASE UNCHANGED vars
  BY <1>8 DEF vars
<1> QED
  BY <1>1, <1>2, <1>3, <1>4, <1>5, <1>6, <1>7, <1>8 DEF Next

(* Past its bootstrap a run has the requirements the bootstrap found, but  *)
(* for a stamp that outlived its environment.                              *)
THEOREM RequirementsInstalled == Spec => []EnvCurrent
<1>1. EnvInv => EnvCurrent
  BY DEF EnvInv
<1> QED
  BY <1>1, EnvInit, EnvNext, PTL DEF Spec

-----------------------------------------------------------------------------
(* The final validation: a run without a repair of performance ends with   *)
(* one row for every enabled validator, of the workspace as it is.         *)
LEMMA RowOfOne ==
  ASSUME NEW v, NEW out
  PROVE  RunOne(v, out).name = v /\ RunOne(v, out).status # "skipped_dependency"
<1>1. ASSUME NEW c, NEW o
      PROVE  RowOf(v, c, o).name = v /\ RowOf(v, c, o).status = c.status
  BY DEF RowOf
<1>2. Classified(v, out).status # "skipped_dependency"
  BY DEF Classified
<1>3. CASE v = "dependency_lock"
  BY <1>3 DEF RunOne, DependencyLock, RowOf
<1> HIDE DEF RowOf
<1> QED
  BY <1>1, <1>2, <1>3 DEF RunOne, Unavailable

LEMMA AllRun ==
  ASSUME NEW S, NEW names \in Seq(S), NEW soft, NEW tools, NEW v \in Range(names)
  PROVE  \E i \in DOMAIN RunAll(names, soft, tools) : RunAll(names, soft, tools)[i] = RunOne(v, tools[v])
<1> DEFINE H == {i \in DOMAIN names : names[i] \notin soft}
           F == {i \in DOMAIN names : names[i] \in soft}
           order == Kept(names, H) \o Kept(names, F)
<1>1. RunAll(names, soft, tools) = [i \in DOMAIN order |-> RunOne(order[i], tools[order[i]])]
  BY DEF RunAll, Those
<1>2. /\ Kept(names, H) \in Seq(S) /\ \A k \in H : \E i \in DOMAIN Kept(names, H) : Kept(names, H)[i] = names[k]
      /\ Kept(names, F) \in Seq(S) /\ \A k \in F : \E i \in DOMAIN Kept(names, F) : Kept(names, F)[i] = names[k]
  <2>1. H \in SUBSET DOMAIN names /\ F \in SUBSET DOMAIN names
    OBVIOUS
  <2> HIDE DEF H, F
  <2> QED
    BY <2>1, KeptThose
<1>3. PICK k \in H \cup F : names[k] = v
  BY DEF Range
<1> DEFINE h == Kept(names, H)
           f == Kept(names, F)
<1> HIDE DEF H, F
<1>4. \E i \in DOMAIN order : order[i] = v
  <2>1. h \in Seq(S) /\ f \in Seq(S) /\ order = h \o f
    BY <1>2
  <2>2. CASE k \in H
    <3>1. PICK i \in DOMAIN h : h[i] = v
      BY <1>2, <1>3, <2>2
    <3> HIDE DEF h, f, order
    <3> QED
      BY <2>1, <3>1, i \in DOMAIN (h \o f) /\ (h \o f)[i] = h[i]
  <2>3. CASE k \in F
    <3>1. PICK i \in DOMAIN f : f[i] = v
      BY <1>2, <1>3, <2>3
    <3> HIDE DEF h, f, order
    <3> QED
      BY <2>1, <3>1, i + Len(h) \in DOMAIN (h \o f) /\ (h \o f)[i + Len(h)] = f[i]
  <2> QED
    BY <1>3, <2>2, <2>3
<1> HIDE DEF order
<1> QED
  BY <1>1, <1>4

FinalInv ==
  /\ profile \in Profiles /\ DOMAIN final = {"rows", "repaired"}
  /\ phase \in {"final", "ended"} /\ ~ final.repaired =>
       final.rows = RunAll(profile.enabled, profile.finalSoft, tool)

LEMMA FinalInit == Init => FinalInv
BY DEF Init, FinalInv, NoFinal

LEMMA FinalNext == FinalInv /\ [Next]_vars => FinalInv'
<1> SUFFICES ASSUME FinalInv, [Next]_vars
             PROVE  FinalInv'
  OBVIOUS
<1> USE DEF FinalInv
<1>1. CASE \/ RunBegins \/ EnsureVenv \/ VenvMade \/ AlreadyInstalled \/ PipInstalls \/ WriteStamp
           \/ Edit \/ Implement
  BY <1>1 DEF RunBegins, EnsureVenv, VenvMade, AlreadyInstalled, PipInstalls, WriteStamp, Edit, work,
              Implement
<1>2. CASE Validate \/ TaskFails \/ AskFixer \/ FixersAnswer \/ ApplyFix
  BY <1>2 DEF Validate, TaskFails, AskFixer, FixersAnswer, ApplyFix
<1>3. CASE FinalValidation
  BY <1>3 DEF FinalValidation, NoFinal
<1>4. CASE PerfRepair
  BY <1>4 DEF PerfRepair
<1>5. CASE RunEnds
  BY <1>5 DEF RunEnds
<1>6. CASE Leave \/ Crash
  BY <1>6 DEF Leave, Crash, Cleared, NoFinal
<1>7. CASE UNCHANGED vars
  BY <1>7 DEF vars
<1> QED
  BY <1>1, <1>2, <1>3, <1>4, <1>5, <1>6, <1>7 DEF Next

(* What ends well and unrepaired is a workspace that every hard validator  *)
(* accepts, whatever the gates left out before.                            *)
THEOREM CompletedSound == Spec => []CompletedIsSound
<1>1. FinalInv => CompletedIsSound
  <2> SUFFICES ASSUME FinalInv, phase = "ended", FinalOk, ~ final.repaired,
                      NEW v \in Range(profile.enabled) \ profile.finalSoft
               PROVE  RunOne(v, tool[v]).ok
    BY DEF CompletedIsSound
  <2>1. profile.enabled \in Seq(DOMAIN Gives)
    BY ProfileAssumption DEF FinalInv
  <2>2. PICK i \in DOMAIN final.rows : final.rows[i] = RunOne(v, tool[v])
    <3>1. final.rows = RunAll(profile.enabled, profile.finalSoft, tool) /\ v \in Range(profile.enabled)
      BY DEF FinalInv
    <3> QED
      BY ONLY <2>1, <3>1, AllRun
  <2>3. ~ Blocks(final.rows[i], profile.finalSoft)
    BY <2>2 DEF FinalOk, ValidationsOk
  <2> QED
    BY <2>2, <2>3, RowOfOne DEF Blocks
<1> QED
  BY <1>1, FinalInit, FinalNext, PTL DEF Spec

-----------------------------------------------------------------------------
(* The fixers: groups of failures carry the rank of their category, and    *)
(* the ranks that go together exist, for each is decided by those before.  *)
Ranks == DOMAIN Ranking

LEMMA RankOfCategory == Ranks = 1..10 /\ \A k \in Ranks : Priority(Ranking[k]) = k
<1>1. Ranks = 1..10
  BY DEF Ranks, Ranking
<1>2. \A j, k \in 1..10 : Ranking[j] = Ranking[k] => j = k
  BY DEF Ranking
<1> QED
  BY <1>1, <1>2 DEF Priority, Ranks

LEMMA SomeTogether ==
  ASSUME NEW groups, DOMAIN groups \in SUBSET Ranks
  PROVE  \E ranks \in SUBSET DOMAIN groups : Together(groups, ranks)
<1> DEFINE fits(k, ranks) == \A j \in ranks : j < k => groups[k].files \cap groups[j].files = {}
           upTo(m) == {k \in DOMAIN groups : k <= m}
           good(m) == \E ranks \in SUBSET upTo(m) : \A k \in upTo(m) : k \in ranks <=> fits(k, ranks)
           bad == {m \in 0..10 : ~ good(m)}
<1>0. DOMAIN groups \in SUBSET (1..10)
  BY RankOfCategory
<1>1. good(0)
  <2>1. upTo(0) = {}
    BY <1>0
  <2> QED
    BY <2>1
<1>2. ASSUME NEW m \in 1..10, good(m - 1)
      PROVE  good(m)
  <2>1. PICK ranks \in SUBSET upTo(m - 1) : \A k \in upTo(m - 1) : k \in ranks <=> fits(k, ranks)
    BY <1>2
  <2>2. upTo(m - 1) = {k \in upTo(m) : k < m} /\ \A k \in upTo(m) : k < m \/ k = m
    BY <1>0
  <2>3. \A k \in DOMAIN groups : k \in 1..10
    BY <1>0
  <2>4. CASE m \in DOMAIN groups /\ fits(m, ranks)
    <3> DEFINE more == ranks \cup {m}
    <3>1. more \in SUBSET upTo(m)
      BY <2>2, <2>3, <2>4
    <3>2. \A k \in upTo(m) : fits(k, more) <=> fits(k, ranks)
      <4>1. \A k \in upTo(m) : ~ (m < k)
        BY <2>3
      <4> QED
        BY <4>1
    <3>3. \A k \in upTo(m) : k \in more <=> fits(k, more)
      <4> TAKE k \in upTo(m)
      <4>1. CASE k = m
        BY <2>4, <3>2, <4>1
      <4>2. CASE k < m
        <5>1. k \in upTo(m - 1) /\ k # m
          BY <2>2, <2>3, <4>2
        <5>2. k \in ranks <=> fits(k, ranks)
          BY <2>1, <5>1
        <5>3. k \in more <=> k \in ranks
          BY <5>1
        <5> HIDE DEF fits, more
        <5> QED
          BY <3>2, <5>2, <5>3
      <4> QED
        BY <2>2, <4>1, <4>2
    <3> HIDE DEF fits, upTo, more
    <3> QED
      BY <3>1, <3>3
  <2>5. CASE ~ (m \in DOMAIN groups /\ fits(m, ranks))
    <3>1. \A k \in upTo(m) : k \in ranks <=> fits(k, ranks)
      <4> TAKE k \in upTo(m)
      <4>1. CASE k = m
        <5>1. k \notin ranks
          BY <2>2, <2>3, <4>1
        <5> QED
          BY <2>5, <4>1, <5>1
      <4>2. CASE k < m
        <5>1. k \in upTo(m - 1)
          BY <2>2, <4>2
        <5> QED
          BY <2>1, <5>1
      <4> QED
        BY <2>2, <4>1, <4>2
    <3>2. ranks \in SUBSET upTo(m)
      BY <2>2
    <3> HIDE DEF fits, upTo
    <3> QED
      BY <3>1, <3>2
  <2> QED
    BY <2>4, <2>5
<1>3. bad = {}
  <2> SUFFICES ASSUME bad # {}
               PROVE  FALSE
    OBVIOUS
  <2> HIDE DEF good
  <2>1. bad \in SUBSET Nat
    OBVIOUS
  <2>2. PICK m \in bad : \A k \in bad : m <= k
    <3> HIDE DEF bad
    <3> QED
      BY <2>1, LeastNumber
  <2>3. m \in 1..10
    BY <1>1, <2>2
  <2>4. m - 1 \notin bad /\ m - 1 \in 0..10
    BY <2>1, <2>2, <2>3
  <2> QED
    BY <1>2, <2>2, <2>3, <2>4
<1>4. good(10)
  <2> HIDE DEF good
  <2> QED
    BY <1>3
<1>5. upTo(10) = DOMAIN groups
  BY <1>0
<1>6. PICK ranks \in SUBSET DOMAIN groups : \A k \in DOMAIN groups : k \in ranks <=> fits(k, ranks)
  BY <1>4, <1>5
<1> QED
  BY <1>6 DEF Together

(* The groups asked at once share no file, and each is at its rank.        *)
Apart(groups) ==
  /\ DOMAIN groups \in SUBSET Ranks
  /\ \A k \in DOMAIN groups : groups[k].category = Ranking[k]
  /\ \A i, j \in DOMAIN groups : i # j => groups[i].files \cap groups[j].files = {}

LEMMA AskedApart ==
  ASSUME NEW fixers, NEW rows
  PROVE  Apart(AskedGroups(fixers, rows))
<1> DEFINE groups == Partition(rows)
           ranks == CHOOSE r \in SUBSET DOMAIN groups : Together(groups, r)
<1>1. DOMAIN groups \in SUBSET Ranks /\ \A k \in DOMAIN groups : groups[k].category = Ranking[k]
  BY DEF Partition, Ranks
<1>2. ranks \in SUBSET DOMAIN groups /\ Together(groups, ranks)
  <2> HIDE DEF groups
  <2>1. \E r \in SUBSET DOMAIN groups : Together(groups, r)
    BY <1>1, SomeTogether
  <2> QED
    BY <2>1
<1> DEFINE apart == Disjoint(groups)
<1>3. apart = [k \in ranks |-> groups[k]]
  BY DEF Disjoint, Restricted
<1> HIDE DEF groups, ranks, apart
<1>4. Apart(apart)
  <2>1. DOMAIN apart = ranks /\ \A k \in ranks : apart[k] = groups[k] /\ k \in 1..10
    BY <1>1, <1>2, <1>3, RankOfCategory
  <2>2. ASSUME NEW i \in ranks, NEW j \in ranks, i < j
        PROVE  groups[j].files \cap groups[i].files = {}
    BY <1>2, <2>2 DEF Together
  <2>3. ASSUME NEW i \in ranks, NEW j \in ranks, i # j
        PROVE  groups[i].files \cap groups[j].files = {}
    <3>1. i < j \/ j < i
      BY <2>1, <2>3
    <3> QED
      BY <2>2, <3>1
  <2> QED
    BY <1>1, <1>2, <2>1, <2>3 DEF Apart
<1> DEFINE asked == AskedGroups(fixers, rows)
<1>5. asked = <<>> \/ \E some \in SUBSET DOMAIN apart : asked = [k \in some |-> apart[k]]
  BY DEF AskedGroups, Restricted, groups, apart
<1> HIDE DEF asked
<1>6. CASE asked = <<>>
  BY <1>6 DEF Apart, asked
<1>7. CASE \E some \in SUBSET DOMAIN apart : asked = [k \in some |-> apart[k]]
  BY <1>4, <1>7 DEF Apart, asked
<1> QED
  BY <1>5, <1>6, <1>7

(* What is applied to a path comes from the most urgent that changed it.   *)
Answered(answers) ==
  /\ DOMAIN answers \in SUBSET Ranks
  /\ \A k \in DOMAIN answers : /\ answers[k].category = Ranking[k]
                               /\ answers[k].changes \in Seq(Range(answers[k].changes))

LEMMA ChangesKept ==
  ASSUME NEW answer, NEW p, answer.changes \in Seq(Range(answer.changes))
  PROVE  /\ ChangesTo(answer, p) \in Seq(Range(answer.changes))
         /\ (\E c \in Range(answer.changes) : c.path = p) => ChangesTo(answer, p) # <<>>
<1> DEFINE list == answer.changes
           K == {i \in DOMAIN list : list[i].path = p}
<1>1. ChangesTo(answer, p) = Kept(list, K)
  BY DEF ChangesTo, Those
<1>2. /\ Kept(list, K) \in Seq(Range(list))
      /\ \A k \in K : \E i \in DOMAIN Kept(list, K) : Kept(list, K)[i] = list[k]
  <2>1. K \in SUBSET DOMAIN list
    OBVIOUS
  <2> HIDE DEF K, list
  <2> QED
    BY <2>1, KeptThose DEF list
<1>3. ASSUME NEW c \in Range(list), c.path = p
      PROVE  Kept(list, K) # <<>>
  <2>1. PICK k \in DOMAIN list : list[k] = c
    BY <1>3 DEF Range
  <2>2. k \in K
    BY <1>3, <2>1
  <2> HIDE DEF K, list
  <2> QED
    BY <1>2, <2>2
<1> QED
  BY <1>1, <1>2, <1>3

LEMMA MergedFrom ==
  ASSUME NEW answers, Answered(answers), NEW p \in DOMAIN Merged(answers)
  PROVE  \E a \in Range(answers) :
           /\ Merged(answers)[p] # <<>> /\ Range(Merged(answers)[p]) \subseteq Range(ChangesTo(a, p))
           /\ \A b \in Range(answers) :
                ChangesTo(b, p) # <<>> => Priority(a.category) <= Priority(b.category)
<1> DEFINE on == {i \in DOMAIN answers : ChangesTo(answers[i], p) # <<>>}
           most(i) == \A j \in on : Priority(answers[i].category) <= Priority(answers[j].category)
           first == CHOOSE i \in on : most(i)
           changes == ChangesTo(answers[first], p)
<1>1. Merged(answers)[p] = IF Cardinality(DOMAIN answers) = 1 THEN changes ELSE <<Head(changes)>>
  BY DEF Merged
<1>2. on # {}
  <2>1. PICK i \in DOMAIN answers : \E c \in Range(answers[i].changes) : c.path = p
    BY DEF Merged
  <2>2. ChangesTo(answers[i], p) # <<>>
    BY <2>1, ChangesKept DEF Answered
  <2> QED
    BY <2>2
<1>3. on \in SUBSET Nat /\ \A i \in on : Priority(answers[i].category) = i
  <2>1. \A i \in on : i \in Ranks /\ answers[i].category = Ranking[i]
    BY DEF Answered
  <2> HIDE DEF on
  <2> QED
    BY <2>1, RankOfCategory
<1>4. first \in on /\ most(first)
  <2>1. PICK m \in on : \A k \in on : m <= k
    <3> HIDE DEF on
    <3> QED
      BY <1>2, <1>3, LeastNumber
  <2>2. most(m)
    BY <1>3, <2>1
  <2> QED
    BY <2>2
<1>5. changes \in Seq(Range(answers[first].changes)) /\ changes # <<>> /\ first \in DOMAIN answers
  BY <1>4, ChangesKept DEF Answered
<1> HIDE DEF first, changes
<1>6. Merged(answers)[p] # <<>> /\ Range(Merged(answers)[p]) \subseteq Range(changes)
  <2>1. Range(<<Head(changes)>>) \subseteq Range(changes)
    <3>1. 1 \in DOMAIN changes /\ Head(changes) = changes[1]
      BY <1>5
    <3> QED
      BY <3>1 DEF Range
  <2> QED
    BY <1>1, <1>5, <2>1
<1>7. ASSUME NEW b \in Range(answers), ChangesTo(b, p) # <<>>
      PROVE  Priority(answers[first].category) <= Priority(b.category)
  <2>1. PICK j \in DOMAIN answers : answers[j] = b
    BY DEF Range
  <2> QED
    BY <1>4, <1>7, <2>1
<1>8. answers[first] \in Range(answers)
  BY <1>5 DEF Range
<1> QED
  BY <1>6, <1>7, <1>8 DEF changes

FixInv ==
  /\ DOMAIN job = DOMAIN NoJob
  /\ DOMAIN seen = {"runs", "skipped", "now", "last", "trail", "answers"}
  /\ Apart(job.asked)
  /\ phase = "fixed" => Answered(seen.answers) /\ job.fix = Merged(seen.answers)

LEMMA NothingAsked == Apart(<<>>) /\ Apart(NoJob.asked)
BY DEF Apart, NoJob

LEMMA FixInit == Init => FixInv
BY NothingAsked DEF Init, FixInv

LEMMA FixNext == FixInv /\ [Next]_vars => FixInv'
<1> SUFFICES ASSUME FixInv, [Next]_vars
             PROVE  FixInv'
  OBVIOUS
<1> USE NothingAsked DEF FixInv
<1>1. CASE EnsureVenv \/ VenvMade \/ AlreadyInstalled \/ PipInstalls \/ WriteStamp \/ Edit
  <2>1. UNCHANGED <<job, seen>> /\ phase' # "fixed"
    BY <1>1 DEF EnsureVenv, VenvMade, AlreadyInstalled, PipInstalls, WriteStamp, Edit, work
  <2> QED
    BY <2>1 DEF Apart
<1>2. CASE RunBegins \/ FinalValidation \/ PerfRepair \/ RunEnds
  <2>1. job' = job /\ phase' # "fixed" /\ DOMAIN seen' = DOMAIN seen
    BY <1>2 DEF RunBegins, FinalValidation, PerfRepair, RunEnds, work
  <2> QED
    BY <2>1 DEF Apart
<1>3. CASE Implement \/ TaskFails \/ Leave \/ Crash
  <2>1. /\ DOMAIN job' = DOMAIN NoJob /\ job'.asked = <<>> /\ phase' # "fixed"
        /\ DOMAIN seen' = DOMAIN seen
    <3>1. CASE Implement
      BY <3>1 DEF Implement, NoJob
    <3>2. CASE TaskFails
      BY <3>2 DEF TaskFails, Ended, NoJob
    <3>3. CASE Leave
      BY <3>3 DEF Leave, Cleared, NoJob
    <3>4. CASE Crash
      BY <3>4 DEF Crash, Cleared, NoJob
    <3> QED
      BY <1>3, <3>1, <3>2, <3>3, <3>4
  <2> QED
    BY <2>1
<1>4. CASE Validate
  <2>1. /\ DOMAIN job' = DOMAIN NoJob /\ phase' # "fixed" /\ DOMAIN seen' = DOMAIN seen
        /\ job'.asked = job.asked \/ job'.asked = <<>>
    BY <1>4 DEF Validate, Ended, NoJob
  <2> QED
    BY <2>1
<1>5. CASE AskFixer
  <2>1. /\ DOMAIN job' = DOMAIN NoJob /\ phase' # "fixed" /\ seen' = seen
        /\ job'.asked = AskedGroups(profile.fixers, job.rows)
    BY <1>5 DEF AskFixer, NoJob
  <2> QED
    BY <2>1, AskedApart
<1>6. CASE FixersAnswer
  <2>1. PICK reply \in [DOMAIN job.asked -> Lists \cup {<<>>}] :
          LET answers == [k \in {k \in DOMAIN reply : reply[k] # <<>>} |->
                           [category |-> job.asked[k].category, changes |-> reply[k]]]
          IN IF answers = <<>> THEN job' = [job EXCEPT !.asked = <<>>] /\ phase' = "asked" /\ UNCHANGED seen
             ELSE /\ job' = [job EXCEPT !.fix = Merged(answers)] /\ phase' = "fixed"
                  /\ seen' = [seen EXCEPT !.answers = answers]
    BY <1>6 DEF FixersAnswer
  <2> DEFINE answers == [k \in {k \in DOMAIN reply : reply[k] # <<>>} |->
                          [category |-> job.asked[k].category, changes |-> reply[k]]]
  <2>2. Answered(answers)
    <3>1. \A k \in DOMAIN answers : k \in DOMAIN job.asked /\ reply[k] \in Lists
      OBVIOUS
    <3>2. \A k \in DOMAIN answers : answers[k].category = Ranking[k] /\ answers[k].changes = reply[k]
      BY <3>1 DEF Apart
    <3> HIDE DEF answers
    <3> QED
      BY <3>1, <3>2, ListsAssumption DEF Answered, Apart
  <2> HIDE DEF answers
  <2>3. CASE answers = <<>>
    <3>1. job' = [job EXCEPT !.asked = <<>>] /\ phase' = "asked" /\ UNCHANGED seen
      BY <2>1, <2>3 DEF answers
    <3>2. DOMAIN job' = DOMAIN NoJob /\ job'.asked = <<>>
      BY <3>1 DEF NoJob
    <3> QED
      BY <3>1, <3>2
  <2>4. CASE answers # <<>>
    <3>1. /\ job' = [job EXCEPT !.fix = Merged(answers)] /\ phase' = "fixed"
          /\ seen' = [seen EXCEPT !.answers = answers]
      BY <2>1, <2>4 DEF answers
    <3>2. DOMAIN job' = DOMAIN NoJob /\ job'.asked = job.asked /\ job'.fix = Merged(answers)
      BY <3>1 DEF NoJob
    <3>3. DOMAIN seen' = DOMAIN seen /\ seen'.answers = answers
      BY <3>1
    <3> QED
      BY <2>2, <3>1, <3>2, <3>3
  <2> QED
    BY <2>3, <2>4
<1>7. CASE ApplyFix
  <2>1. DOMAIN job' = DOMAIN NoJob /\ job'.asked = <<>> /\ phase' # "fixed" /\ DOMAIN seen' = DOMAIN seen
    BY <1>7 DEF ApplyFix, NoJob
  <2> QED
    BY <2>1
<1>8. CASE UNCHANGED vars
  BY <1>8 DEF vars, Apart
<1> QED
  BY <1>1, <1>2, <1>3, <1>4, <1>5, <1>6, <1>7, <1>8 DEF Next

(* Fixers that work at once are given no file in common, and of what they  *)
(* answer a path takes the changes of the most urgent.                     *)
THEOREM FixersWorkApart == Spec => []FixersApart
<1>1. FixInv => FixersApart
  BY MergedFrom DEF FixInv, FixersApart, Apart
<1> QED
  BY <1>1, FixInit, FixNext, PTL DEF Spec

-----------------------------------------------------------------------------
Signals == [calm : Nat, passes : Nat, of : Nat \ {0}, speed : Nat]

(* Fractions compare by cross products; to compare so is transitive.       *)
LEMMA Monotone == ASSUME NEW x \in Int, NEW y \in Int, NEW z \in Nat \ {0}
  PROVE  (x < y <=> x * z < y * z) /\ (x = y <=> x * z = y * z)
OBVIOUS

LEMMA CrossProducts ==
  ASSUME NEW a \in Signals, NEW b \in Signals, NEW c \in Signals,
         c.passes * b.of >= b.passes * c.of, a.passes * c.of >= c.passes * a.of
  PROVE  /\ a.passes * b.of >= b.passes * a.of
         /\ a.passes * b.of = b.passes * a.of =>
              c.passes * b.of = b.passes * c.of /\ a.passes * c.of = c.passes * a.of
<1> DEFINE p == b.passes
           q == c.passes
           r == a.passes
           x == b.of
           y == c.of
           z == a.of
<1>0. /\ p \in Nat /\ q \in Nat /\ r \in Nat /\ x \in Nat \ {0} /\ y \in Nat \ {0} /\ z \in Nat \ {0}
      /\ q * x >= p * y /\ r * y >= q * z
  BY DEF Signals
<1> HIDE DEF p, q, r, x, y, z
<1>1. (q * x) * z >= (p * y) * z /\ ((q * x) * z = (p * y) * z => q * x = p * y)
  BY <1>0, Monotone, q * x \in Int, p * y \in Int
<1>2. (r * y) * x >= (q * z) * x /\ ((r * y) * x = (q * z) * x => r * y = q * z)
  BY <1>0, Monotone, r * y \in Int, q * z \in Int
<1>3. (q * x) * z = (q * z) * x
  BY <1>0
<1>4. (r * y) * x = (r * x) * y /\ (p * y) * z = (p * z) * y
  BY <1>0
<1>5. (r * x) * y >= (p * z) * y /\ ((r * x) * y = (p * z) * y => q * x = p * y /\ r * y = q * z)
  <2>1. /\ q * x \in Int /\ p * y \in Int /\ r * y \in Int /\ q * z \in Int
        /\ (r * x) * y \in Int /\ (p * z) * y \in Int /\ (q * z) * x \in Int
    BY <1>0
  <2> QED
    BY ONLY <1>1, <1>2, <1>3, <1>4, <2>1
<1>6. r * x >= p * z /\ (r * x = p * z => q * x = p * y /\ r * y = q * z)
  BY <1>0, <1>5, Monotone, r * x \in Int, p * z \in Int
<1> QED
  BY <1>6 DEF p, q, r, x, y, z

(* The order of the signals is a weak order, so that the sort permutes.    *)
LEMMA SoonerOrders ==
  ASSUME NEW a \in Signals, NEW b \in Signals, NEW c \in Signals
  PROVE  /\ ~ (Sooner(a, b) /\ Sooner(b, a))
         /\ Sooner(a, b) => Sooner(a, c) \/ Sooner(c, b)
<1> DEFINE x == a.passes * b.of
           y == b.passes * a.of
           v == a.passes * c.of
           w == c.passes * a.of
           s == c.passes * b.of
           u == b.passes * c.of
<1>1. /\ a.calm \in Nat /\ b.calm \in Nat /\ c.calm \in Nat
      /\ a.speed \in Nat /\ b.speed \in Nat /\ c.speed \in Nat
      /\ a.passes \in Nat /\ b.passes \in Nat /\ c.passes \in Nat
      /\ a.of \in Nat \ {0} /\ b.of \in Nat \ {0} /\ c.of \in Nat \ {0}
  BY DEF Signals
<1>2. x \in Int /\ y \in Int /\ v \in Int /\ w \in Int /\ s \in Int /\ u \in Int
  BY <1>1
<1>3. v >= w /\ s >= u => x >= y /\ (x = y => v = w /\ s = u)
  BY CrossProducts
<1>4. /\ Sooner(a, b) <=> a.calm < b.calm \/ (a.calm = b.calm /\ (x < y \/ (x = y /\ a.speed < b.speed)))
      /\ Sooner(b, a) <=> b.calm < a.calm \/ (b.calm = a.calm /\ (y < x \/ (y = x /\ b.speed < a.speed)))
      /\ Sooner(a, c) <=> a.calm < c.calm \/ (a.calm = c.calm /\ (v < w \/ (v = w /\ a.speed < c.speed)))
      /\ Sooner(c, b) <=> c.calm < b.calm \/ (c.calm = b.calm /\ (s < u \/ (s = u /\ c.speed < b.speed)))
  BY DEF Sooner
<1> HIDE DEF x, y, v, w, s, u
<1> QED
  BY <1>1, <1>2, <1>3, <1>4

(* A sequence put in a strict order of its positions is permuted.          *)
InPlace(s, B) == [i \in DOMAIN s |-> s[CHOOSE k \in DOMAIN s : Place(DOMAIN s, B, k) = i]]

LEMMA OrderPermutes ==
  ASSUME NEW S, NEW s \in Seq(S), NEW B, StrictOrder(DOMAIN s, B)
  PROVE  /\ InPlace(s, B) \in Seq(S)
         /\ Range(InPlace(s, B)) = Range(s)
         /\ IsInjective(s) => IsInjective(InPlace(s, B))
<1> DEFINE K == DOMAIN s
           place(k) == Place(K, B, k)
           at(i) == CHOOSE k \in K : place(k) = i
           t == InPlace(s, B)
<1>1. K = 1..Len(s) /\ Len(s) \in Nat /\ IsFiniteSet(K) /\ Cardinality(K) = Len(s)
  <2>1. K = 1..Len(s) /\ Len(s) \in Nat
    OBVIOUS
  <2> HIDE DEF place, at, t
  <2>2. IsFiniteSet(1..Len(s)) /\ Cardinality(1..Len(s)) = Len(s)
    BY SMTT(30), <2>1, FS_Interval
  <2> QED
    BY <2>1, <2>2
<1>2. /\ \A k \in K : place(k) \in 1..Cardinality(K)
      /\ \A j, k \in K : place(j) = place(k) => j = k
      /\ \A i \in 1..Cardinality(K) : \E k \in K : place(k) = i
  <2> HIDE DEF K
  <2> QED
    BY <1>1, Placed, StrictOrder(K, B) DEF K
<1>3. t = [i \in K |-> s[at(i)]]
  BY DEF InPlace
<1> HIDE DEF place, t
<1>4. \A i \in K : at(i) \in K /\ place(at(i)) = i
  BY <1>1, <1>2
<1>5. \A k \in K : place(k) \in K /\ at(place(k)) = k
  BY <1>1, <1>2
<1> HIDE DEF at
<1>6. t \in [1..Len(s) -> S]
  BY <1>1, <1>3, <1>4
<1>7. DOMAIN t = K /\ \A i \in K : t[i] = s[at(i)]
  BY <1>3
<1>8. Range(t) = Range(s)
  <2>1. \A k \in K : t[place(k)] = s[k] /\ place(k) \in K
    BY <1>5, <1>7
  <2>2. Range(t) = {t[i] : i \in K} /\ Range(s) = {s[i] : i \in K}
    BY <1>7 DEF Range
  <2> HIDE DEF K
  <2>3. Range(t) \subseteq Range(s)
    BY <1>4, <1>7, <2>2
  <2>4. Range(s) \subseteq Range(t)
    BY <2>1, <2>2
  <2> QED
    BY <2>3, <2>4
<1>9. IsInjective(s) => IsInjective(t)
  <2>1. \A i, j \in K : at(i) = at(j) => i = j
    BY <1>4
  <2> HIDE DEF K
  <2>2. IsInjective(s) <=> \A i, j \in K : s[i] = s[j] => i = j
    BY DEF IsInjective, K
  <2>3. IsInjective(t) <=> \A i, j \in K : t[i] = t[j] => i = j
    BY <1>7 DEF IsInjective
  <2> QED
    BY <1>4, <1>7, <2>1, <2>2, <2>3
<1> QED
  BY <1>1, <1>6, <1>8, <1>9 DEF t

LEMMA SortPermutes ==
  ASSUME NEW S, NEW s \in Seq(S), NEW st, \A e \in S : Signal(st, e) \in Signals
  PROVE  /\ PrioritySorted(s, st) \in Seq(S)
         /\ Range(PrioritySorted(s, st)) = Range(s)
         /\ IsInjective(s) => IsInjective(PrioritySorted(s, st))
<1> DEFINE K == DOMAIN s
           key(k) == Signal(st, s[k])
           before(j, k) == Sooner(key(j), key(k)) \/ (~ Sooner(key(k), key(j)) /\ j < k)
           B == {p \in K \X K : before(p[1], p[2])}
<1>1. K = 1..Len(s) /\ Len(s) \in Nat /\ IsFiniteSet(K) /\ Cardinality(K) = Len(s)
  <2>1. K = 1..Len(s) /\ Len(s) \in Nat
    OBVIOUS
  <2> QED
    BY SMTT(30), <2>1, FS_Interval
<1>2. \A k \in K : key(k) \in Signals
  OBVIOUS
<1>3. \A j, k \in K : <<j, k>> \in B <=> before(j, k)
  OBVIOUS
<1>4. StrictOrder(K, B)
  <2> HIDE DEF key, B, K
  <2>1. \A j \in K : ~ before(j, j)
    BY <1>1, <1>2, SoonerOrders
  <2>2. \A j, k, l \in K : before(j, k) /\ before(k, l) => before(j, l)
    <3> TAKE j, k, l \in K
    <3>1. key(j) \in Signals /\ key(k) \in Signals /\ key(l) \in Signals
      BY <1>2
    <3>2. /\ Sooner(key(j), key(k)) => Sooner(key(j), key(l)) \/ Sooner(key(l), key(k))
          /\ Sooner(key(k), key(l)) => Sooner(key(k), key(j)) \/ Sooner(key(j), key(l))
          /\ Sooner(key(l), key(j)) => Sooner(key(l), key(k)) \/ Sooner(key(k), key(j))
          /\ ~ (Sooner(key(j), key(k)) /\ Sooner(key(k), key(j)))
          /\ ~ (Sooner(key(k), key(l)) /\ Sooner(key(l), key(k)))
      BY <3>1, SoonerOrders
    <3>3. j < k /\ k < l => j < l
      BY <1>1
    <3> QED
      BY <3>2, <3>3
  <2>3. \A j, k \in K : j # k => before(j, k) \/ before(k, j)
    BY <1>1
  <2> QED
    BY <1>3, <2>1, <2>2, <2>3 DEF StrictOrder
<1> DEFINE place(k) == Cardinality({j \in K : before(j, k)}) + 1
<1>5. \A k \in K : place(k) = Place(K, B, k)
  <2>1. \A k \in K : {j \in K : <<j, k>> \in B} = {j \in K : before(j, k)}
    BY <1>3
  <2> HIDE DEF B, K, before
  <2> QED
    BY <2>1 DEF Place
<1>6. PrioritySorted(s, st) = [i \in K |-> s[CHOOSE k \in K : place(k) = i]]
  BY DEF PrioritySorted, Sorted
<1>7. PrioritySorted(s, st) = InPlace(s, B)
  <2> HIDE DEF place, B, K
  <2> DEFINE at(i) == CHOOSE k \in K : place(k) = i
             put(i) == CHOOSE k \in K : Place(K, B, k) = i
  <2>1. \A i : at(i) = put(i)
    BY <1>5
  <2>2. PrioritySorted(s, st) = [i \in K |-> s[at(i)]]
    BY <1>6
  <2>3. InPlace(s, B) = [i \in K |-> s[put(i)]]
    BY DEF InPlace, K
  <2> HIDE DEF at, put
  <2> QED
    BY <2>1, <2>2, <2>3
<1> HIDE DEF B
<1> QED
  BY <1>4, <1>7, OrderPermutes

(* So does the sort by the durations, which are numbers.                   *)
LEMMA TimesPermute ==
  ASSUME NEW S, NEW s \in Seq(S), NEW st, \A v \in S : Time(st, v) \in Nat
  PROVE  /\ ByTime(s, st) \in Seq(S)
         /\ Range(ByTime(s, st)) = Range(s)
         /\ IsInjective(s) => IsInjective(ByTime(s, st))
<1> DEFINE K == DOMAIN s
           before(j, k) == \/ Time(st, s[j]) < Time(st, s[k])
                           \/ ~ (Time(st, s[k]) < Time(st, s[j])) /\ j < k
           B == {p \in K \X K : before(p[1], p[2])}
           place(k) == Cardinality({j \in K : before(j, k)}) + 1
<1>1. K \in SUBSET Nat /\ \A k \in K : Time(st, s[k]) \in Nat
  OBVIOUS
<1>2. \A j, k \in K : <<j, k>> \in B <=> before(j, k)
  OBVIOUS
<1>3. StrictOrder(K, B)
  <2> DEFINE of(k) == Time(st, s[k])
  <2>0. \A k \in K : of(k) \in Nat
    BY <1>1
  <2>1. \A j, k \in K : before(j, k) <=> of(j) < of(k) \/ (~ (of(k) < of(j)) /\ j < k)
    OBVIOUS
  <2> HIDE DEF B, K, of, before
  <2>2. \A j \in K : ~ before(j, j)
    BY <1>1, <2>0, <2>1
  <2>3. \A j, k, l \in K : before(j, k) /\ before(k, l) => before(j, l)
    BY <1>1, <2>0, <2>1
  <2>4. \A j, k \in K : j # k => before(j, k) \/ before(k, j)
    BY <1>1, <2>0, <2>1
  <2> QED
    BY <1>2, <2>2, <2>3, <2>4 DEF StrictOrder
<1>4. \A k \in K : place(k) = Place(K, B, k)
  <2>1. \A k \in K : {j \in K : <<j, k>> \in B} = {j \in K : before(j, k)}
    BY <1>2
  <2> HIDE DEF B, K, before
  <2> QED
    BY <2>1 DEF Place
<1>5. ByTime(s, st) = [i \in K |-> s[CHOOSE k \in K : place(k) = i]]
  BY DEF ByTime, Sorted
<1>6. ByTime(s, st) = InPlace(s, B)
  <2> HIDE DEF place, B, K
  <2> DEFINE at(i) == CHOOSE k \in K : place(k) = i
             put(i) == CHOOSE k \in K : Place(K, B, k) = i
  <2>1. \A i : at(i) = put(i)
    BY <1>4
  <2>2. ByTime(s, st) = [i \in K |-> s[at(i)]]
    BY <1>5
  <2>3. InPlace(s, B) = [i \in K |-> s[put(i)]]
    BY DEF InPlace, K
  <2> HIDE DEF at, put
  <2> QED
    BY <2>1, <2>2, <2>3
<1> HIDE DEF B
<1> QED
  BY <1>3, <1>6, OrderPermutes

-----------------------------------------------------------------------------
(* The history: what the recent runs are, and how long a streak can be.    *)
LEMMA RecentIsSuffix ==
  ASSUME NEW S, NEW runs \in Seq(S), NEW w \in Nat \ {0}
  PROVE  LET r == Recent(runs, w)
             off == Len(runs) - Len(r)
         IN /\ r \in Seq(S) /\ Len(r) \in Nat /\ Len(r) <= w /\ Len(r) <= Len(runs)
            /\ Len(runs) > 0 => Len(r) > 0
            /\ \A i \in 1..Len(r) : i + off \in 1..Len(runs) /\ r[i] = runs[i + off]
<1>1. CASE ~ (Len(runs) > w)
  <2>1. Recent(runs, w) = runs
    BY <1>1 DEF Recent
  <2> QED
    BY <1>1, <2>1
<1>2. CASE Len(runs) > w
  <2> DEFINE r == Recent(runs, w)
             m == Len(runs) - w + 1
  <2>1. r = SubSeq(runs, m, Len(runs)) /\ m \in 1..Len(runs) + 1 /\ Len(runs) \in Nat
    BY <1>2 DEF Recent
  <2>2. r \in Seq(S) /\ Len(r) = Len(runs) - m + 1 /\ \A i \in 1..Len(r) : r[i] = runs[m + i - 1]
    <3> HIDE DEF r, m
    <3>1. \A i \in m..Len(runs) : runs[i] \in S
      BY <2>1
    <3> QED
      BY <2>1, <3>1, SubSeqProperties
  <2> HIDE DEF r
  <2> QED
    BY <1>2, <2>1, <2>2 DEF r
<1> QED
  BY <1>1, <1>2

LEMMA RunsCounted ==
  ASSUME NEW S, NEW runs \in Seq(S), NEW v
  PROVE  /\ Ran(runs, v) \in SUBSET (1..Len(runs)) /\ IsFiniteSet(Ran(runs, v))
         /\ \A T \in SUBSET Ran(runs, v) :
              IsFiniteSet(T) /\ Cardinality(T) \in Nat /\ (Cardinality(T) > 0 => T # {})
         /\ Ran(runs, v) # {} => Cardinality(Ran(runs, v)) \in Nat \ {0}
<1>1. Ran(runs, v) \in SUBSET (1..Len(runs)) /\ IsFiniteSet(1..Len(runs))
  <2>1. Len(runs) \in Nat /\ DOMAIN runs = 1..Len(runs)
    OBVIOUS
  <2> QED
    BY <2>1, FS_Interval DEF Ran
<1>2. IsFiniteSet(Ran(runs, v))
  BY <1>1, FS_Subset
<1>3. \A T \in SUBSET Ran(runs, v) :
        IsFiniteSet(T) /\ Cardinality(T) \in Nat /\ (Cardinality(T) = 0 <=> T = {})
  BY <1>2, FS_Subset, FS_CardinalityType, FS_EmptySet
<1> QED
  BY <1>1, <1>2, <1>3

LEMMA StatsOfRuns ==
  ASSUME NEW S, NEW runs \in Seq(S), NEW w \in Nat \ {0}, NEW v \in DOMAIN Stats(runs, w)
  PROVE  LET s == Stats(runs, w)[v]
             r == Recent(runs, w)
         IN /\ s.total \in Nat \ {0} /\ s.passes \in Nat /\ s.streak \in Nat
            /\ s.streak = Cardinality(Consecutive(r, v))
<1> DEFINE r == Recent(runs, w)
           s == Stats(runs, w)[v]
<1>1. r \in Seq(S)
  BY RecentIsSuffix
<1> HIDE DEF r
<1>2. /\ \E i \in DOMAIN r : v \in DOMAIN r[i]
      /\ s = [total |-> Cardinality(Ran(r, v)), passes |-> Cardinality(Passes(r, v)),
              streak |-> Cardinality(Consecutive(r, v))]
  BY DEF Stats, r
<1>3. Ran(r, v) # {}
  BY <1>2 DEF Ran
<1>4. Passes(r, v) \in SUBSET Ran(r, v) /\ Consecutive(r, v) \in SUBSET Ran(r, v)
  BY DEF Passes, Consecutive
<1>5. /\ Cardinality(Ran(r, v)) \in Nat \ {0}
      /\ Cardinality(Passes(r, v)) \in Nat /\ Cardinality(Consecutive(r, v)) \in Nat
  BY <1>1, <1>3, <1>4, RunsCounted
<1> QED
  BY <1>2, <1>5 DEF r

(* What the gate considers steady has passed since it last failed, and as  *)
(* often as the threshold in the window.                                   *)
Felt(runs, v) == \A i \in Ran(runs, v) : \E j \in Ran(runs, v) : i <= j /\ ~ runs[j][v]

LEMMA SteadyIsNotFelt ==
  ASSUME NEW S, NEW runs \in Seq(S), NEW gate, gate.window \in Nat \ {0}, gate.threshold \in Nat \ {0},
         NEW v, Steady(gate, Stats(runs, gate.window), v)
  PROVE  ~ Felt(runs, v)
<1> DEFINE w == gate.window
           r == Recent(runs, w)
           off == Len(runs) - Len(r)
<1>1. /\ r \in Seq(S) /\ Len(r) \in Nat /\ Len(r) <= Len(runs) /\ Len(runs) \in Nat
      /\ \A i \in 1..Len(r) : i + off \in 1..Len(runs) /\ r[i] = runs[i + off]
  <2>1. w \in Nat \ {0} /\ Len(runs) \in Nat
    OBVIOUS
  <2> HIDE DEF w
  <2> QED
    BY <2>1, RecentIsSuffix
<1>2. v \in DOMAIN Stats(runs, w) /\ Stats(runs, w)[v].streak >= gate.threshold
  BY DEF Steady
<1> HIDE DEF r
<1>3. Cardinality(Consecutive(r, v)) > 0
  BY <1>2, StatsOfRuns DEF r
<1>4. Consecutive(r, v) \in SUBSET Ran(r, v)
  BY DEF Consecutive
<1>5. PICK i \in Consecutive(r, v) : TRUE
  BY <1>1, <1>3, <1>4, RunsCounted
<1>6. i \in Ran(r, v) /\ \A j \in Ran(r, v) : i <= j => r[j][v]
  BY <1>5 DEF Consecutive
<1>7. DOMAIN r = 1..Len(r) /\ DOMAIN runs = 1..Len(runs) /\ i \in 1..Len(r)
  BY <1>1, <1>6 DEF Ran
<1>8. i + off \in Ran(runs, v)
  BY <1>1, <1>6, <1>7 DEF Ran
<1>9. ASSUME NEW j \in Ran(runs, v), i + off <= j
      PROVE  runs[j][v]
  <2>1. j \in 1..Len(runs) /\ v \in DOMAIN runs[j]
    BY <1>7 DEF Ran
  <2>2. j - off \in 1..Len(r) /\ (j - off) + off = j
    BY <1>1, <1>7, <1>9, <2>1
  <2>3. r[j - off] = runs[j]
    BY <1>1, <2>2
  <2>4. j - off \in Ran(r, v) /\ i <= j - off
    BY <1>1, <1>7, <1>9, <2>1, <2>2, <2>3 DEF Ran
  <2> QED
    BY <1>6, <2>3, <2>4
<1> QED
  BY <1>8, <1>9 DEF Felt

LEMMA SteadyIsRecent ==
  ASSUME NEW S, NEW runs \in Seq(S), NEW gate, gate.window \in Nat \ {0}, gate.threshold \in Nat \ {0},
         NEW v, Steady(gate, Stats(runs, gate.window), v),
         NEW k \in Nat, \A i \in Ran(runs, v) : i <= Len(runs) - k
  PROVE  k + gate.threshold <= gate.window
<1> DEFINE w == gate.window
           r == Recent(runs, w)
           off == Len(runs) - Len(r)
<1>1. /\ r \in Seq(S) /\ Len(r) \in Nat /\ Len(r) <= Len(runs) /\ Len(r) <= w /\ Len(runs) \in Nat
      /\ \A i \in 1..Len(r) : i + off \in 1..Len(runs) /\ r[i] = runs[i + off]
  <2>1. w \in Nat \ {0} /\ Len(runs) \in Nat
    OBVIOUS
  <2> HIDE DEF w
  <2> QED
    BY <2>1, RecentIsSuffix
<1>2. v \in DOMAIN Stats(runs, w) /\ Stats(runs, w)[v].streak >= gate.threshold
  BY DEF Steady
<1> HIDE DEF r
<1> DEFINE c == Cardinality(Consecutive(r, v))
<1>3. c \in Nat /\ c >= gate.threshold
  BY <1>2, StatsOfRuns DEF r
<1>4. Consecutive(r, v) \in SUBSET Ran(r, v)
  BY DEF Consecutive
<1>5. \A i \in Consecutive(r, v) : i \in 1..Len(r) /\ i <= Len(r) - k
  <2> TAKE i \in Consecutive(r, v)
  <2>1. i \in DOMAIN r /\ DOMAIN r = 1..Len(r) /\ DOMAIN runs = 1..Len(runs) /\ v \in DOMAIN r[i]
    BY <1>1, <1>4 DEF Ran
  <2>2. i + off \in Ran(runs, v)
    BY <1>1, <2>1 DEF Ran
  <2> QED
    BY <1>1, <2>1, <2>2
<1>6. PICK i \in Consecutive(r, v) : TRUE
  <2>1. Cardinality(Consecutive(r, v)) > 0
    BY <1>3
  <2> QED
    BY <1>1, <1>4, <2>1, RunsCounted
<1>7. k < Len(r)
  BY <1>1, <1>5, <1>6
<1>8. Consecutive(r, v) \in SUBSET (1..(Len(r) - k)) /\ Len(r) - k \in Nat
  BY <1>1, <1>5, <1>7
<1>9. IsFiniteSet(1..(Len(r) - k)) /\ Cardinality(1..(Len(r) - k)) = Len(r) - k
  BY <1>8, FS_Interval
<1>10. c <= Len(r) - k
  BY <1>8, <1>9, FS_Subset
<1> HIDE DEF c
<1> QED
  BY <1>1, <1>3, <1>10

-----------------------------------------------------------------------------
(* The gate: what it keeps from running, or makes soft, is steady.         *)
Listed == profile \in Profiles /\ cur \in Nat \ {0} /\ \E S : baseline \in Seq(S)

LEMMA ThoseAmong ==
  ASSUME NEW S, NEW s \in Seq(S), NEW K \in SUBSET DOMAIN s, NEW R, \A k \in K : s[k] \in R
  PROVE  Kept(s, K) \in Seq(R) /\ Range(Kept(s, K)) = {s[k] : k \in K}
<1> DEFINE t == Kept(s, K)
<1>1. /\ t \in Seq(S) /\ \A i \in DOMAIN t : \E k \in K : t[i] = s[k]
      /\ \A k \in K : \E i \in DOMAIN t : t[i] = s[k]
  BY KeptThose
<1> HIDE DEF t
<1>2. \A i \in DOMAIN t : t[i] \in R
  BY <1>1
<1>3. t \in Seq(R)
  BY <1>1, <1>2
<1>4. Range(t) = {s[k] : k \in K}
  BY <1>1 DEF Range
<1> QED
  BY <1>3, <1>4 DEF t

(* The first of every element of a sequence.                               *)
LEMMA UniqueOnce ==
  ASSUME NEW S, NEW s \in Seq(S)
  PROVE  OrderedUnique(s) \in Seq(S) /\ IsInjective(OrderedUnique(s))
<1> DEFINE K == {i \in DOMAIN s : \A j \in 1..i - 1 : s[j] # s[i]}
<1>1. K \in SUBSET DOMAIN s
  OBVIOUS
<1>2. \A j, k \in K : s[j] = s[k] => j = k
  <2>1. \A j, k \in K : j < k => j \in 1..k - 1
    OBVIOUS
  <2>2. \A j, k \in K : j < k => s[j] # s[k]
    BY <2>1
  <2>3. \A j, k \in K : j \in Nat /\ k \in Nat
    OBVIOUS
  <2> HIDE DEF K
  <2> QED
    BY <2>2, <2>3
<1> HIDE DEF K
<1>3. Kept(s, K) \in Seq(S) /\ IsInjective(Kept(s, K))
  BY <1>1, <1>2, KeptThose
<1> QED
  BY <1>3 DEF OrderedUnique, K

LEMMA FallbackListed == FALLBACK \in Seq(Range(FALLBACK)) /\ IsInjective(FALLBACK)
<1>0. IsInjective(FALLBACK)
  <2>1. DOMAIN FALLBACK = 1..8 /\ \A i, j \in 1..8 : FALLBACK[i] = FALLBACK[j] => i = j
    BY DEF FALLBACK
  <2> HIDE DEF FALLBACK
  <2> QED
    BY <2>1 DEF IsInjective
<1>1. FALLBACK = [i \in 1..8 |-> FALLBACK[i]]
  BY DEF FALLBACK
<1>2. FALLBACK \in [1..8 -> Range(FALLBACK)]
  BY <1>1 DEF Range
<1> HIDE DEF FALLBACK
<1> DEFINE n == 8
<1>3. n \in Nat /\ FALLBACK \in [1..n -> Range(FALLBACK)]
  BY <1>2
<1> HIDE DEF n
<1>4. FALLBACK \in Seq(Range(FALLBACK))
  BY <1>3
<1> QED
  BY <1>0, <1>4

LEMMA BaseEnabled ==
  ASSUME Listed, cur <= Len(profile.tasks)
  PROVE  Base \in Seq(Range(profile.enabled))
<1> DEFINE enabled == profile.enabled
           focus == OrderedUnique(Task.focus)
<1>1. enabled \in Seq(DOMAIN Gives) /\ profile.tasks \in Seq(Range(profile.tasks))
  BY ProfileAssumption DEF Listed
<1>2. \E S : focus \in Seq(S)
  <2>1. cur \in DOMAIN profile.tasks
    BY <1>1 DEF Listed
  <2>2. Task \in Range(profile.tasks)
    BY <2>1 DEF Task, Range
  <2>3. Task.focus \in Seq(Range(Task.focus))
    BY <2>2, ProfileAssumption DEF Listed
  <2> QED
    BY <2>3, UniqueOnce
<1>3. FALLBACK \in Seq(Range(FALLBACK))
  BY FallbackListed
<1>4. enabled \in Seq(Range(enabled))
  BY <1>1 DEF Range
<1> HIDE DEF enabled, focus
<1>5. ASSUME NEW S, NEW list \in Seq(S)
      PROVE  Kept(list, {i \in DOMAIN list : Contains(enabled, list[i])}) \in Seq(Range(enabled))
  <2> DEFINE K == {i \in DOMAIN list : Contains(enabled, list[i])}
  <2>1. K \in SUBSET DOMAIN list /\ \A k \in K : list[k] \in Range(enabled)
    BY <1>1 DEF Contains, Range
  <2> HIDE DEF K
  <2> QED
    BY <2>1, ThoseAmong DEF K
<1> DEFINE f == Kept(focus, {i \in DOMAIN focus : Contains(enabled, focus[i])})
           g == Kept(FALLBACK, {i \in DOMAIN FALLBACK : Contains(enabled, FALLBACK[i])})
<1>6. f \in Seq(Range(enabled)) /\ g \in Seq(Range(enabled))
  BY <1>2, <1>3, <1>5
<1>7. Base = IF f # <<>> THEN f ELSE IF g # <<>> THEN g ELSE enabled
  BY DEF Base, Resolved, Those, enabled, focus
<1> HIDE DEF f, g
<1> QED
  BY <1>4, <1>6, <1>7 DEF enabled

LEMMA SignalsTyped ==
  ASSUME Listed
  PROVE  \A v \in Range(profile.enabled) : Signal(stats, v) \in Signals
<1> TAKE v \in Range(profile.enabled)
<1>1. Speed[v] \in Nat /\ profile.gate.window \in Nat \ {0}
  BY ProfileAssumption DEF Listed
<1>2. CASE v \notin DOMAIN stats
  BY <1>2 DEF Signal, Signals
<1>3. CASE v \in DOMAIN stats
  <2>1. stats[v].total \in Nat \ {0} /\ stats[v].passes \in Nat /\ stats[v].streak \in Nat
    BY <1>1, <1>3, StatsOfRuns DEF Listed, stats
  <2> QED
    BY <1>1, <1>3, <2>1 DEF Signal, Signals
<1> QED
  BY <1>2, <1>3

LEMMA GateIsSteady ==
  ASSUME Listed, cur <= Len(profile.tasks)
  PROVE  \A v \in GateSkips \cup Selected.promoted : Steady(profile.gate, stats, v)
<1> DEFINE gate == profile.gate
           base == Base
           files == Task.files
           relevant(v) == files = {} \/ Relevant(v, files)
           kept(v) == relevant(v) /\ ~ (gate.mode = "aggressive" /\ Steady(gate, stats, v))
           K == {i \in DOMAIN base : kept(base[i])}
           some == Kept(base, K)
           least == IF Contains(base, "ruff") THEN <<"ruff">> ELSE Kept(base, {1} \cap DOMAIN base)
           R == Range(profile.enabled)
<1>1. base \in Seq(R) /\ \A v \in R : Signal(stats, v) \in Signals
  BY BaseEnabled, SignalsTyped
<1>2. Selected =
        IF gate.mode = "off" THEN [run |-> base, promoted |-> {}]
        ELSE IF Task.focus # <<>> THEN [run |-> PrioritySorted(base, stats), promoted |-> {}]
        ELSE [run |-> PrioritySorted(IF some # <<>> THEN some ELSE least, stats),
              promoted |-> IF gate.mode # "balanced" THEN {}
                           ELSE {v \in Range(some) \ profile.taskSoft : Steady(gate, stats, v)}]
  BY DEF Selected, SelectValidators, Those
<1>3. GateSkips = {v \in Range(base) \ Range(Selected.run) : relevant(v)}
  BY DEF GateSkips
<1>4. some \in Seq(R) /\ Range(some) = {base[k] : k \in K}
  <2>1. K \in SUBSET DOMAIN base /\ \A k \in K : base[k] \in R
    BY <1>1
  <2> HIDE DEF K, base, R
  <2> QED
    BY <1>1, <2>1, ThoseAmong
<1> HIDE DEF some, least, base, gate, files, R
<1>5. ASSUME NEW v \in Selected.promoted
      PROVE  Steady(gate, stats, v)
  BY <1>2, <1>5
<1>6. ASSUME NEW v \in GateSkips
      PROVE  Steady(gate, stats, v)
  <2>1. v \in Range(base) /\ v \notin Range(Selected.run) /\ relevant(v)
    BY <1>3
  <2>2. Range(PrioritySorted(base, stats)) = Range(base)
    BY <1>1, SortPermutes
  <2>3. gate.mode # "off" /\ Task.focus = <<>>
    BY <1>2, <2>1, <2>2
  <2>4. Selected.run = PrioritySorted(IF some # <<>> THEN some ELSE least, stats)
    BY <1>2, <2>3
  <2>5. ASSUME kept(v)
        PROVE  FALSE
    <3>1. v \in Range(some)
      <4>1. PICK k \in DOMAIN base : base[k] = v
        BY <2>1 DEF Range
      <4>2. k \in K
        BY <2>5, <4>1
      <4> QED
        BY <1>4, <4>1, <4>2
    <3>2. some # <<>>
      BY <3>1 DEF Range
    <3>3. Range(PrioritySorted(some, stats)) = Range(some)
      BY <1>1, <1>4, SortPermutes
    <3> QED
      BY <2>1, <2>4, <3>1, <3>2, <3>3
  <2> QED
    BY <2>1, <2>5
<1> QED
  BY <1>5, <1>6 DEF gate

-----------------------------------------------------------------------------
(* The baseline: the runs in a row without a result of what is skipped     *)
(* grow with the skips, and a failure is not forgotten before its runs are.*)
Extends(S, b, runs, entry) ==
  LET off == Len(runs) + 1 - Len(b) IN
  /\ b \in Seq(S \cup {entry}) /\ Len(b) \in Nat \ {0} /\ off \in Nat /\ b[Len(b)] = entry
  /\ \A v : \A i \in Ran(b, v) : i + off \in Ran(runs, v) \/ (i = Len(b) /\ v \in DOMAIN entry)
  /\ \A v : v \in DOMAIN entry => Len(b) \in Ran(b, v)
  /\ \A v : \A j \in Ran(runs, v) : j > off => j - off \in Ran(b, v) /\ b[j - off] = runs[j]

LEMMA Recorded ==
  ASSUME NEW S, NEW runs \in Seq(S), NEW entry, NEW w \in Nat \ {0}
  PROVE  Extends(S, Recent(Append(runs, entry), w), runs, entry)
<1> DEFINE all == Append(runs, entry)
           b == Recent(all, w)
           off == Len(runs) + 1 - Len(b)
<1>1. /\ all \in Seq(S \cup {entry}) /\ Len(all) = Len(runs) + 1 /\ Len(runs) \in Nat
      /\ all[Len(runs) + 1] = entry /\ \A i \in 1..Len(runs) : all[i] = runs[i]
  OBVIOUS
<1> HIDE DEF all
<1>2. /\ b \in Seq(S \cup {entry}) /\ Len(b) \in Nat \ {0} /\ Len(b) <= Len(runs) + 1
      /\ \A i \in 1..Len(b) : i + off \in 1..(Len(runs) + 1) /\ b[i] = all[i + off]
  <2>1. LET r == Recent(all, w)
            d == Len(all) - Len(r)
        IN /\ r \in Seq(S \cup {entry}) /\ Len(r) \in Nat /\ Len(r) <= w /\ Len(r) <= Len(all)
           /\ Len(all) > 0 => Len(r) > 0
           /\ \A i \in 1..Len(r) : i + d \in 1..Len(all) /\ r[i] = all[i + d]
    BY <1>1, RecentIsSuffix
  <2> QED
    BY <1>1, <2>1
<1> HIDE DEF b
<1>3. off \in Nat /\ Len(b) + off = Len(runs) + 1 /\ b[Len(b)] = entry
  <2>1. Len(b) \in 1..Len(b) /\ Len(b) + off = Len(runs) + 1
    BY <1>1, <1>2
  <2> QED
    BY <1>1, <1>2, <2>1
<1>4. DOMAIN b = 1..Len(b) /\ DOMAIN runs = 1..Len(runs)
  BY <1>2
<1>5. ASSUME NEW v, NEW i \in Ran(b, v)
      PROVE  i + off \in Ran(runs, v) \/ (i = Len(b) /\ v \in DOMAIN entry)
  <2>1. i \in 1..Len(b) /\ v \in DOMAIN b[i] /\ b[i] = all[i + off] /\ i + off \in 1..(Len(runs) + 1)
    BY <1>2, <1>4 DEF Ran
  <2>2. CASE i = Len(b)
    BY <1>3, <2>1, <2>2
  <2>3. CASE i # Len(b)
    <3>1. i + off \in 1..Len(runs)
      BY <1>1, <1>2, <1>3, <2>1, <2>3
    <3> QED
      BY <1>1, <1>4, <2>1, <3>1 DEF Ran
  <2> QED
    BY <2>2, <2>3
<1>6. ASSUME NEW v, v \in DOMAIN entry
      PROVE  Len(b) \in Ran(b, v)
  BY <1>2, <1>3, <1>4, <1>6 DEF Ran
<1>7. ASSUME NEW v, NEW j \in Ran(runs, v), j > off
      PROVE  j - off \in Ran(b, v) /\ b[j - off] = runs[j]
  <2>1. j \in 1..Len(runs) /\ v \in DOMAIN runs[j]
    BY <1>4 DEF Ran
  <2>2. j - off \in 1..Len(b) /\ (j - off) + off = j
    BY <1>1, <1>2, <1>3, <1>7, <2>1
  <2>3. b[j - off] = runs[j]
    BY <1>1, <1>2, <2>1, <2>2
  <2> QED
    BY <1>4, <2>1, <2>2, <2>3 DEF Ran
<1> QED
  BY <1>2, <1>3, <1>5, <1>6, <1>7 DEF b, all, Extends

SkippedRecently ==
  \A v \in DOMAIN Gives : \A i \in Ran(baseline, v) : i <= Len(baseline) - seen.skipped[v]

SkipInv ==
  /\ Listed
  /\ DOMAIN seen = {"runs", "skipped", "now", "last", "trail", "answers"}
  /\ seen.skipped \in [DOMAIN Gives -> Nat]
  /\ SkippedRecently
  /\ phase \notin {"idle", "ended"} => \A v \in seen.now : Steady(profile.gate, stats, v)
  /\ SkipsAreBounded

LEMMA SkipInit == Init => SkipInv
<1> SUFFICES ASSUME Init
             PROVE  SkipInv
  OBVIOUS
<1>1. baseline = <<>> /\ <<>> \in Seq({})
  BY DEF Init
<1>2. Listed /\ DOMAIN seen = {"runs", "skipped", "now", "last", "trail", "answers"}
  BY <1>1 DEF Init, Listed
<1>3. \A v \in DOMAIN Gives : seen.skipped[v] = 0
  BY DEF Init
<1>4. seen.skipped \in [DOMAIN Gives -> Nat] /\ phase = "idle"
  BY DEF Init
<1>5. SkippedRecently
  BY <1>1 DEF SkippedRecently, Ran
<1>6. SkipsAreBounded
  <2>1. profile.gate.threshold \in Nat /\ profile.gate.window \in Nat
    BY <1>2, ProfileAssumption DEF Listed
  <2> QED
    BY <1>3, <1>4, <2>1 DEF SkipsAreBounded
<1> QED
  BY <1>2, <1>4, <1>5, <1>6 DEF SkipInv

(* A recorded run: its skips were of what is steady, so they were few.     *)
LEMMA SkipRecorded ==
  ASSUME SkipInv, RunEnds
  PROVE  SkipInv'
<1> USE DEF SkipInv
<1> DEFINE entry == Collected(lasts)
           gate == profile.gate
           off == Len(baseline) + 1 - Len(baseline')
<1>1. PICK S : baseline \in Seq(S)
  BY DEF Listed
<1>2. /\ profile \in Profiles /\ gate.window \in Nat \ {0} /\ gate.threshold \in Nat \ {0}
      /\ profile.rolling \in Nat \ {0}
  BY ProfileAssumption DEF Listed
<1>3. /\ phase = "final" /\ phase' = "ended" /\ profile' = profile /\ cur' = cur
      /\ baseline' = Recent(Append(baseline, entry), profile.rolling)
      /\ seen' = [seen EXCEPT !.skipped = [v \in DOMAIN @ |->
                    IF v \in DOMAIN entry THEN 0 ELSE IF v \in seen.now THEN @[v] + 1 ELSE @[v]]]
  BY DEF RunEnds, Record
<1> HIDE DEF entry
<1>4. /\ baseline' \in Seq(S \cup {entry}) /\ Len(baseline') \in Nat \ {0} /\ off \in Nat
      /\ \A v : \A i \in Ran(baseline', v) :
           i + off \in Ran(baseline, v) \/ (i = Len(baseline') /\ v \in DOMAIN entry)
  <2>1. Extends(S, baseline', baseline, entry)
    BY <1>1, <1>2, <1>3, Recorded
  <2> QED
    BY <2>1 DEF Extends
<1>5. \A v \in DOMAIN Gives :
        seen'.skipped[v] = IF v \in DOMAIN entry THEN 0
                           ELSE IF v \in seen.now THEN seen.skipped[v] + 1 ELSE seen.skipped[v]
  BY <1>3
<1>6. seen'.skipped \in [DOMAIN Gives -> Nat] /\ DOMAIN seen' = DOMAIN seen
  BY <1>3
<1>7. Listed'
  BY <1>1, <1>3, <1>4 DEF Listed
<1>8. SkippedRecently'
  <2> SUFFICES ASSUME NEW v \in DOMAIN Gives, NEW i \in Ran(baseline', v)
               PROVE  i <= Len(baseline') - seen'.skipped[v]
    BY DEF SkippedRecently
  <2>1. seen.skipped[v] \in Nat /\ Len(baseline) \in Nat
    BY <1>1
  <2>2. i \in 1..Len(baseline')
    <3>1. DOMAIN baseline' = 1..Len(baseline')
      BY <1>4
    <3> QED
      BY <3>1 DEF Ran
  <2>3. CASE v \in DOMAIN entry
    BY <1>4, <1>5, <2>2, <2>3
  <2>4. CASE v \notin DOMAIN entry
    <3>1. i + off <= Len(baseline) - seen.skipped[v]
      BY <1>4, <2>4 DEF SkippedRecently
    <3>2. seen'.skipped[v] <= seen.skipped[v] + 1 /\ seen'.skipped[v] \in Nat
      BY <1>5, <1>6, <2>1, <2>4
    <3> QED
      BY <1>4, <2>1, <2>2, <3>1, <3>2
  <2> QED
    BY <2>3, <2>4
<1>9. SkipsAreBounded'
  <2> SUFFICES ASSUME NEW v \in DOMAIN Gives
               PROVE  seen'.skipped[v] <= IF gate.threshold > gate.window THEN 0
                                          ELSE gate.window - gate.threshold + 1
    BY <1>3, <1>6 DEF SkipsAreBounded
  <2>1. /\ seen.skipped[v] \in Nat
        /\ seen.skipped[v] <= IF gate.threshold > gate.window THEN 0
                              ELSE gate.window - gate.threshold + 1
    BY DEF SkipsAreBounded
  <2>2. CASE v \in seen.now /\ v \notin DOMAIN entry
    <3>1. Steady(gate, Stats(baseline, gate.window), v)
      BY <1>3, <2>2 DEF stats
    <3>2. \A i \in Ran(baseline, v) : i <= Len(baseline) - seen.skipped[v]
      BY DEF SkippedRecently
    <3>3. seen.skipped[v] + gate.threshold <= gate.window
      BY <1>1, <1>2, <2>1, <3>1, <3>2, SteadyIsRecent
    <3> QED
      BY <1>2, <1>5, <2>1, <2>2, <3>3
  <2>3. CASE ~ (v \in seen.now /\ v \notin DOMAIN entry)
    BY <1>2, <1>5, <2>1, <2>3
  <2> QED
    BY <2>2, <2>3
<1> QED
  BY <1>3, <1>6, <1>7, <1>8, <1>9

LEMMA SkipKept ==
  ASSUME SkipInv, UNCHANGED <<profile, baseline>>, seen'.skipped = seen.skipped,
         DOMAIN seen' = DOMAIN seen, cur' \in Nat \ {0},
         \/ phase' \in {"idle", "ended"}
         \/ \A v \in seen'.now : Steady(profile.gate, stats, v)
  PROVE  SkipInv'
BY DEF SkipInv, Listed, SkippedRecently, SkipsAreBounded, stats

LEMMA SkipNext == SkipInv /\ [Next]_vars => SkipInv'
<1> SUFFICES ASSUME SkipInv, [Next]_vars
             PROVE  SkipInv'
  OBVIOUS
<1>0. /\ cur \in Nat \ {0} /\ DOMAIN seen = {"runs", "skipped", "now", "last", "trail", "answers"}
      /\ phase \notin {"idle", "ended"} => \A v \in seen.now : Steady(profile.gate, stats, v)
  BY DEF SkipInv, Listed
<1>1. CASE RunBegins
  BY <1>0, <1>1, SkipKept DEF RunBegins, work
<1>2. CASE EnsureVenv \/ VenvMade \/ AlreadyInstalled \/ PipInstalls \/ WriteStamp \/ Edit
  <2>1. /\ UNCHANGED <<profile, baseline, seen, cur>>
        /\ phase' = "idle" \/ phase \notin {"idle", "ended"}
    BY <1>2 DEF EnsureVenv, VenvMade, AlreadyInstalled, PipInstalls, WriteStamp, Edit, work
  <2> QED
    BY <1>0, <2>1, SkipKept
<1>3. CASE Implement
  <2>1. /\ UNCHANGED <<profile, baseline, cur>> /\ cur <= Len(profile.tasks) /\ phase = "tasks"
        /\ seen' = [seen EXCEPT !.now = @ \cup GateSkips, !.trail = <<>>]
    BY <1>3 DEF Implement
  <2>2. \A v \in GateSkips : Steady(profile.gate, stats, v)
    BY <2>1, GateIsSteady DEF SkipInv
  <2> HIDE DEF GateSkips
  <2> QED
    BY <1>0, <2>1, <2>2, SkipKept
<1>4. CASE Validate \/ TaskFails
  <2>1. /\ UNCHANGED <<profile, baseline>> /\ cur' \in {cur, cur + 1}
        /\ phase \notin {"idle", "ended"}
        /\ seen' = seen \/ \E s : seen' = [seen EXCEPT !.trail = s]
    BY <1>4 DEF Validate, TaskFails, Ended
  <2> QED
    BY <1>0, <2>1, SkipKept
<1>5. CASE AskFixer \/ FinalValidation \/ PerfRepair
  <2>1. UNCHANGED <<profile, baseline, seen, cur>> /\ phase \notin {"idle", "ended"}
    BY <1>5 DEF AskFixer, FinalValidation, PerfRepair
  <2> QED
    BY <1>0, <2>1, SkipKept
<1>6. CASE FixersAnswer \/ ApplyFix
  <2>1. /\ UNCHANGED <<profile, baseline, cur>> /\ phase \notin {"idle", "ended"}
        /\ seen' = seen \/ \E s : seen' = [seen EXCEPT !.answers = s]
    BY <1>6 DEF FixersAnswer, ApplyFix
  <2> QED
    BY <1>0, <2>1, SkipKept
<1>7. CASE RunEnds
  BY <1>7, SkipRecorded
<1>8. CASE Leave \/ Crash
  <2>1. /\ UNCHANGED <<profile, baseline>> /\ cur' = 1 /\ phase' = "idle"
        /\ DOMAIN seen' = DOMAIN seen /\ seen'.skipped = seen.skipped
    <3>1. CASE Leave
      BY <1>0, <3>1 DEF Leave, Cleared
    <3>2. CASE Crash
      BY <1>0, <3>2 DEF Crash, Cleared
    <3> QED
      BY <1>8, <3>1, <3>2
  <2> QED
    BY <1>0, <2>1, SkipKept
<1>9. CASE UNCHANGED vars
  BY <1>0, <1>9, SkipKept DEF vars
<1> QED
  BY <1>1, <1>2, <1>3, <1>4, <1>5, <1>6, <1>7, <1>8, <1>9 DEF Next

(* What the gate keeps from running it lets run again, for its own skips   *)
(* push the passes out of the window.                                      *)
THEOREM SkipsBounded == Spec => []SkipsAreBounded
<1>1. SkipInv => SkipsAreBounded
  BY DEF SkipInv
<1> QED
  BY <1>1, SkipInit, SkipNext, PTL DEF Spec

-----------------------------------------------------------------------------
(* The failures: what a validator last gave in a task is in the baseline   *)
(* when the next gate reads it, newer than any pass.                       *)
Memory == IF phase = "ended" THEN Remember(Collected(lasts)) ELSE seen.last

FeltInv ==
  /\ Listed
  /\ DOMAIN seen = {"runs", "skipped", "now", "last", "trail", "answers"}
  /\ profile.goOn =>
       /\ phase \in {"idle", "venv", "making", "install"} => lasts = <<>>
       /\ \A v \in DOMAIN Memory : ~ Memory[v] => Felt(baseline, v)

LEMMA FeltInit == Init => FeltInv
<1> SUFFICES ASSUME Init
             PROVE  FeltInv
  OBVIOUS
<1>1. baseline = <<>> /\ <<>> \in Seq({})
  BY DEF Init
<1> QED
  BY <1>1 DEF Init, FeltInv, Listed, Memory

(* A recorded failure is felt, and an older one as long as it is kept.     *)
LEMMA FailureRecorded ==
  ASSUME NEW S, NEW b, NEW runs \in Seq(S), NEW entry, Extends(S, b, runs, entry), NEW v,
         IF v \in DOMAIN entry THEN ~ entry[v] ELSE Felt(runs, v)
  PROVE  Felt(b, v)
<1> DEFINE off == Len(runs) + 1 - Len(b)
<1>1. /\ b \in Seq(S \cup {entry}) /\ Len(b) \in Nat \ {0} /\ off \in Nat /\ b[Len(b)] = entry
      /\ \A i \in Ran(b, v) : i + off \in Ran(runs, v) \/ (i = Len(b) /\ v \in DOMAIN entry)
      /\ v \in DOMAIN entry => Len(b) \in Ran(b, v)
      /\ \A j \in Ran(runs, v) : j > off => j - off \in Ran(b, v) /\ b[j - off] = runs[j]
  BY DEF Extends
<1>2. DOMAIN b = 1..Len(b) /\ DOMAIN runs = 1..Len(runs) /\ Len(runs) \in Nat
  BY <1>1
<1> HIDE DEF off
<1> SUFFICES ASSUME NEW i \in Ran(b, v)
             PROVE  \E j \in Ran(b, v) : i <= j /\ ~ b[j][v]
  BY DEF Felt
<1>3. i \in 1..Len(b)
  BY <1>2 DEF Ran
<1>4. CASE v \in DOMAIN entry
  <2>1. Len(b) \in Ran(b, v) /\ i <= Len(b) /\ ~ b[Len(b)][v]
    BY <1>1, <1>3, <1>4
  <2> QED
    BY <2>1
<1>5. CASE v \notin DOMAIN entry
  <2>1. i + off \in Ran(runs, v)
    BY <1>1, <1>5
  <2>2. PICK j \in Ran(runs, v) : i + off <= j /\ ~ runs[j][v]
    BY <1>5, <2>1 DEF Felt
  <2>3. j \in 1..Len(runs)
    BY <1>2 DEF Ran
  <2>4. j > off /\ i <= j - off
    BY <1>1, <1>3, <2>2, <2>3
  <2>5. j - off \in Ran(b, v) /\ b[j - off] = runs[j]
    BY <1>1, <2>4
  <2> QED
    BY <2>2, <2>4, <2>5
<1> QED
  BY <1>4, <1>5

LEMMA FeltRecorded ==
  ASSUME FeltInv, RunEnds
  PROVE  FeltInv'
<1> DEFINE entry == Collected(lasts)
<1>1. PICK S : baseline \in Seq(S)
  BY DEF FeltInv, Listed
<1>2. profile \in Profiles /\ profile.rolling \in Nat \ {0}
  BY ProfileAssumption DEF FeltInv, Listed
<1>3. /\ phase = "final" /\ phase' = "ended" /\ UNCHANGED <<profile, cur, lasts>>
      /\ baseline' = Recent(Append(baseline, entry), profile.rolling)
      /\ seen'.last = seen.last /\ DOMAIN seen' = DOMAIN seen
  BY DEF RunEnds, Record, FeltInv
<1>4. Memory' = [v \in DOMAIN entry \cup DOMAIN seen.last |->
                   IF v \in DOMAIN entry THEN entry[v] ELSE seen.last[v]]
  BY <1>3 DEF Memory, Remember, Collected
<1> HIDE DEF entry
<1>5. Extends(S, baseline', baseline, entry)
  BY <1>1, <1>2, <1>3, Recorded
<1>6. Listed'
  <2>1. baseline' \in Seq(S \cup {entry})
    BY <1>5 DEF Extends
  <2> QED
    BY <1>3, <2>1 DEF FeltInv, Listed
<1>7. ASSUME profile.goOn, NEW v \in DOMAIN Memory', ~ Memory'[v]
      PROVE  Felt(baseline', v)
  <2>1. v \notin DOMAIN entry => v \in DOMAIN seen.last /\ ~ seen.last[v]
    BY <1>4, <1>7
  <2>2. v \in DOMAIN entry => ~ entry[v]
    BY <1>4, <1>7
  <2>3. v \notin DOMAIN entry => Felt(baseline, v)
    BY <1>3, <1>7, <2>1 DEF FeltInv, Memory
  <2> QED
    BY <1>1, <1>5, <2>2, <2>3, FailureRecorded
<1> QED
  BY <1>3, <1>6, <1>7 DEF FeltInv

LEMMA FeltKept ==
  ASSUME FeltInv, UNCHANGED <<profile, baseline>>, cur' \in Nat \ {0}, phase # "ended", phase' # "ended",
         DOMAIN seen' = DOMAIN seen, seen'.last = seen.last,
         profile.goOn /\ phase' \in {"idle", "venv", "making", "install"} => lasts' = <<>>
  PROVE  FeltInv'
BY DEF FeltInv, Listed, Memory

LEMMA FeltNext == FeltInv /\ [Next]_vars => FeltInv'
<1> SUFFICES ASSUME FeltInv, [Next]_vars
             PROVE  FeltInv'
  OBVIOUS
<1>0. /\ cur \in Nat \ {0} /\ DOMAIN seen = {"runs", "skipped", "now", "last", "trail", "answers"}
      /\ profile.goOn /\ phase \in {"idle", "venv", "making", "install"} => lasts = <<>>
  BY DEF FeltInv, Listed
<1>1. CASE RunBegins
  BY <1>0, <1>1, FeltKept DEF RunBegins, work
<1>2. CASE EnsureVenv \/ VenvMade \/ AlreadyInstalled \/ PipInstalls \/ WriteStamp \/ Edit
  <2>1. /\ UNCHANGED <<profile, baseline, seen, cur, lasts>> /\ phase # "ended" /\ phase' # "ended"
        /\ phase' \in {"idle", "venv", "making", "install"} => phase \in {"idle", "venv", "making", "install"}
    BY <1>2 DEF EnsureVenv, VenvMade, AlreadyInstalled, PipInstalls, WriteStamp, Edit, work
  <2> QED
    BY <1>0, <2>1, FeltKept
<1>3. CASE Implement
  <2>1. /\ UNCHANGED <<profile, baseline, cur>> /\ phase = "tasks" /\ phase' = "validate"
        /\ \E s, t : seen' = [seen EXCEPT !.now = s, !.trail = t]
    BY <1>3 DEF Implement
  <2> QED
    BY <1>0, <2>1, FeltKept
<1>4. CASE Validate
  <2>1. /\ UNCHANGED <<profile, baseline>> /\ cur' \in {cur, cur + 1}
        /\ phase = "validate" /\ phase' \in {"tasks", "failed"}
        /\ \E t : seen' = [seen EXCEPT !.trail = t]
    BY <1>4 DEF Validate, Ended
  <2> QED
    BY <1>0, <2>1, FeltKept
<1>5. CASE TaskFails
  <2>1. /\ UNCHANGED <<profile, baseline, seen>> /\ cur' = cur + 1 /\ phase = "failed"
        /\ phase' = IF profile.goOn THEN "tasks" ELSE "idle"
    BY <1>5 DEF TaskFails, Ended
  <2> QED
    BY <1>0, <2>1, FeltKept
<1>6. CASE AskFixer \/ FinalValidation \/ PerfRepair
  <2>1. /\ UNCHANGED <<profile, baseline, seen, cur>> /\ phase \in {"failed", "tasks", "final"}
        /\ phase' \in {"asked", "final"}
    BY <1>6 DEF AskFixer, FinalValidation, PerfRepair
  <2> QED
    BY <1>0, <2>1, FeltKept
<1>7. CASE FixersAnswer \/ ApplyFix
  <2>1. /\ UNCHANGED <<profile, baseline, cur>> /\ phase \in {"asked", "fixed"}
        /\ phase' \in {"asked", "fixed", "validate"}
        /\ seen' = seen \/ \E s : seen' = [seen EXCEPT !.answers = s]
    BY <1>7 DEF FixersAnswer, ApplyFix
  <2> QED
    BY <1>0, <2>1, FeltKept
<1>8. CASE RunEnds
  BY <1>8, FeltRecorded
<1>9. CASE Leave
  <2>1. /\ UNCHANGED <<profile, baseline>> /\ cur' = 1 /\ phase' = "idle" /\ lasts' = <<>>
        /\ phase = "ended" \/ (phase = "idle" /\ lasts # <<>>)
        /\ DOMAIN seen' = DOMAIN seen /\ seen'.last = Remember(Collected(lasts))
    BY <1>0, <1>9 DEF Leave, Cleared
  <2>2. profile.goOn => phase = "ended"
    BY <1>0, <2>1
  <2> QED
    BY <2>1, <2>2 DEF FeltInv, Listed, Memory
<1>10. CASE Crash
  <2>1. /\ UNCHANGED <<profile, baseline>> /\ cur' = 1 /\ phase' = "idle" /\ lasts' = <<>>
        /\ phase # "ended" /\ DOMAIN seen' = DOMAIN seen /\ seen'.last = seen.last
    BY <1>0, <1>10 DEF Crash, Cleared
  <2> QED
    BY <2>1, FeltKept
<1>11. CASE UNCHANGED vars
  BY <1>11 DEF vars, FeltInv, Listed, Memory, Remember
<1> QED
  BY <1>1, <1>2, <1>3, <1>4, <1>5, <1>6, <1>7, <1>8, <1>9, <1>10, <1>11 DEF Next

(* What a validator failed in the last task that ran it, the next gate     *)
(* neither skips nor makes soft.                                           *)
THEOREM FailuresFelt == Spec => []FailureIsFelt
<1>1. FeltInv => FailureIsFelt
  <2> SUFFICES ASSUME FeltInv, phase = "tasks", cur <= Len(profile.tasks), profile.goOn,
                      NEW v \in DOMAIN seen.last, ~ seen.last[v],
                      v \in Selected.promoted \cup GateSkips
               PROVE  FALSE
    BY DEF FailureIsFelt
  <2>1. PICK S : baseline \in Seq(S)
    BY DEF FeltInv, Listed
  <2>2. profile.gate.window \in Nat \ {0} /\ profile.gate.threshold \in Nat \ {0}
    BY ProfileAssumption DEF FeltInv, Listed
  <2>3. Felt(baseline, v)
    BY DEF FeltInv, Memory
  <2>4. Steady(profile.gate, Stats(baseline, profile.gate.window), v)
    <3>1. v \in GateSkips \cup Selected.promoted
      OBVIOUS
    <3>2. Listed
      BY DEF FeltInv
    <3> HIDE DEF GateSkips, Selected
    <3> QED
      BY <3>1, <3>2, GateIsSteady DEF stats
  <2> QED
    BY <2>1, <2>2, <2>3, <2>4, SteadyIsNotFelt
<1> QED
  BY <1>1, FeltInit, FeltNext, PTL DEF Spec

-----------------------------------------------------------------------------
(* What is done step after step: the sequence of the results exists, and   *)
(* what the first has and every step keeps, all have.                      *)
LEMMA Iterated ==
  ASSUME NEW X, NEW base \in X, NEW N \in Nat, NEW step \in [1..N -> [X -> X]]
  PROVE  \E f \in [0..N -> X] : f[0] = base /\ \A n \in 1..N : f[n] = step[n][f[n - 1]]
<1> DEFINE good(m) == \E f \in [0..N -> X] : f[0] = base /\ \A n \in 1..m : f[n] = step[n][f[n - 1]]
           bad == {m \in 0..N : ~ good(m)}
<1>1. good(0)
  <2> DEFINE f == [n \in 0..N |-> base]
  <2>1. f \in [0..N -> X] /\ f[0] = base /\ 1..0 = {}
    OBVIOUS
  <2> HIDE DEF f
  <2> QED
    BY <2>1
<1>2. ASSUME NEW m \in 1..N, good(m - 1)
      PROVE  good(m)
  <2>1. PICK f \in [0..N -> X] : f[0] = base /\ \A n \in 1..m - 1 : f[n] = step[n][f[n - 1]]
    BY <1>2
  <2> DEFINE x == step[m][f[m - 1]]
             g == [n \in 0..N |-> IF n = m THEN x ELSE f[n]]
  <2>2. m - 1 \in 0..N /\ f[m - 1] \in X
    BY <2>1
  <2>3. x \in X
    BY <2>2
  <2> HIDE DEF x
  <2>4. g \in [0..N -> X] /\ g[m] = x /\ \A n \in 0..N : n # m => g[n] = f[n]
    BY <2>1, <2>3
  <2> HIDE DEF g
  <2>5. g[0] = base
    BY <2>1, <2>4
  <2>6. ASSUME NEW n \in 1..m
        PROVE  g[n] = step[n][g[n - 1]]
    <3>1. g[n - 1] = f[n - 1] /\ n - 1 \in 0..N
      BY <2>4
    <3>2. CASE n = m
      BY <2>4, <3>1, <3>2 DEF x
    <3>3. CASE n # m
      <4>1. n \in 1..m - 1 /\ g[n] = f[n]
        BY <2>4, <3>3
      <4> QED
        BY <2>1, <3>1, <4>1
    <3> QED
      BY <3>2, <3>3
  <2> QED
    BY <2>4, <2>5, <2>6
<1> HIDE DEF good
<1>3. bad = {}
  <2> SUFFICES ASSUME bad # {}
               PROVE  FALSE
    OBVIOUS
  <2>1. PICK m \in bad : \A k \in bad : m <= k
    <3>1. bad \in SUBSET Nat
      OBVIOUS
    <3> HIDE DEF bad
    <3> QED
      BY <3>1, LeastNumber
  <2>2. m \in 1..N
    BY <1>1, <2>1
  <2>3. m - 1 \in 0..N /\ m - 1 \notin bad
    BY <2>1, <2>2
  <2> QED
    BY <1>2, <2>1, <2>2, <2>3
<1>4. good(N)
  BY <1>3
<1> QED
  BY <1>4 DEF good

LEMMA Preserved ==
  ASSUME NEW N \in Nat, NEW f, NEW Inv, f[0] \in Inv[0],
         \A n \in 1..N : f[n - 1] \in Inv[n - 1] => f[n] \in Inv[n]
  PROVE  \A n \in 0..N : f[n] \in Inv[n]
<1> DEFINE bad == {n \in 0..N : f[n] \notin Inv[n]}
<1> SUFFICES ASSUME bad # {}
             PROVE  FALSE
  OBVIOUS
<1>1. PICK m \in bad : \A k \in bad : m <= k
  <2>1. bad \in SUBSET Nat
    OBVIOUS
  <2> HIDE DEF bad
  <2> QED
    BY <2>1, LeastNumber
<1>2. m \in 1..N
  BY <1>1
<1>3. m - 1 \in 0..N /\ m - 1 \notin bad
  BY <1>1, <1>2
<1> QED
  BY <1>1, <1>2, <1>3

(* Distinct elements that are as many as a set are all of it.              *)
LEMMA AllMet ==
  ASSUME NEW S, NEW s \in Seq(S), IsInjective(s), NEW T, IsFiniteSet(T),
         Cardinality({i \in DOMAIN s : s[i] \in T}) = Cardinality(T)
  PROVE  T \subseteq Range(s)
<1> DEFINE K == {i \in DOMAIN s : s[i] \in T}
           f == [i \in K |-> s[i]]
<1>1. IsFiniteSet(K)
  <2>1. DOMAIN s = 1..Len(s) /\ Len(s) \in Nat
    OBVIOUS
  <2>2. IsFiniteSet(1..Len(s)) /\ K \in SUBSET (1..Len(s))
    BY <2>1, FS_Interval
  <2> QED
    BY <2>2, FS_Subset
<1>2. f \in Injection(K, T)
  <2>1. f \in [K -> T] /\ \A i \in K : f[i] = s[i]
    OBVIOUS
  <2>2. \A i, j \in K : s[i] = s[j] => i = j
    BY DEF IsInjective
  <2> HIDE DEF f, K
  <2>3. \A i, j \in K : f[i] = f[j] => i = j
    BY <2>1, <2>2
  <2> QED
    BY <2>1, <2>3, Fun_IsInj
<1> HIDE DEF f
<1>3. f \in Surjection(K, T)
  <2> HIDE DEF K
  <2> QED
    BY <1>1, <1>2, FS_Injection, Cardinality(K) = Cardinality(T) DEF K
<1>4. \A x \in T : \E i \in K : f[i] = x
  BY <1>3 DEF Surjection
<1> QED
  BY <1>4 DEF Range, f

LEMMA SequenceAsSet ==
  ASSUME NEW S, NEW s \in Seq(S), IsInjective(s)
  PROVE  IsFiniteSet(Range(s)) /\ Cardinality(Range(s)) = Len(s)
<1> DEFINE R == Range(s)
           n == Len(s)
<1>1. /\ n \in Nat /\ DOMAIN s = 1..n
      /\ IsFiniteSet(1..n) /\ Cardinality(1..n) = n
  <2>1. n \in Nat /\ DOMAIN s = 1..n
    OBVIOUS
  <2> HIDE DEF n
  <2> QED
    BY <2>1, FS_Interval
<1>2. s \in [1..n -> R] /\ \A x \in R : \E i \in 1..n : s[i] = x
  BY <1>1 DEF Range
<1>3. s \in Surjection(1..n, R)
  <2> HIDE DEF n, R
  <2> QED
    BY <1>2 DEF Surjection
<1>4. s \in Injection(1..n, R)
  <2> HIDE DEF n, R
  <2>1. \A i, j \in 1..n : s[i] = s[j] => i = j
    BY <1>1 DEF IsInjective
  <2> QED
    BY <1>2, <2>1, Fun_IsInj
<1> HIDE DEF n, R
<1>5. IsFiniteSet(R) /\ Cardinality(R) <= n
  BY <1>1, <1>3, FS_Surjection
<1>6. n <= Cardinality(R)
  BY <1>1, <1>4, <1>5, FS_Injection
<1>7. Cardinality(R) \in Nat
  BY <1>5, FS_CardinalityType
<1> QED
  BY <1>1, <1>5, <1>6, <1>7 DEF n, R

LEMMA AsLong ==
  ASSUME NEW S, NEW s \in Seq(S), NEW t \in Seq(S), IsInjective(s), IsInjective(t),
         Range(s) \subseteq Range(t), Len(s) = Len(t)
  PROVE  Range(s) = Range(t)
<1>1. {i \in DOMAIN s : s[i] \in Range(t)} = DOMAIN s
  BY DEF Range
<1>2. DOMAIN s = 1..Len(s) /\ Len(s) \in Nat
  OBVIOUS
<1>3. Cardinality(DOMAIN s) = Len(s)
  <2> DEFINE n == Len(s)
  <2>1. DOMAIN s = 1..n /\ n \in Nat
    BY <1>2
  <2> HIDE DEF n
  <2>2. Cardinality(1..n) = n
    BY <2>1, FS_Interval
  <2> QED
    BY <2>1, <2>2 DEF n
<1>4. IsFiniteSet(Range(t)) /\ Cardinality(Range(t)) = Len(s)
  BY SequenceAsSet
<1> DEFINE T == Range(t)
<1>5. T \subseteq Range(s)
  <2>1. Cardinality({i \in DOMAIN s : s[i] \in T}) = Cardinality(T) /\ IsFiniteSet(T)
    BY <1>1, <1>3, <1>4
  <2> HIDE DEF T
  <2> QED
    BY <2>1, AllMet
<1> QED
  BY <1>5

(* A finite set as a sequence has each element once.                       *)
LEMMA SetListed ==
  ASSUME NEW T, IsFiniteSet(T)
  PROVE  SetToSeq(T) \in Seq(T) /\ IsInjective(SetToSeq(T)) /\ Range(SetToSeq(T)) = T
<1> DEFINE n == Cardinality(T)
           t == SetToSeq(T)
<1>1. n \in Nat /\ ExistsBijection(1..n, T)
  BY FS_CardinalityType
<1>2. t = CHOOSE f \in [1..n -> T] : IsInjective(f)
  BY DEF SetToSeq
<1> HIDE DEF n, t
<1>3. PICK f \in Bijection(1..n, T) : TRUE
  BY <1>1 DEF ExistsBijection
<1>4. f \in [1..n -> T] /\ IsInjective(f)
  BY <1>3 DEF Bijection, Injection, IsInjective
<1>5. t \in [1..n -> T] /\ IsInjective(t)
  BY <1>2, <1>4
<1>6. t \in Seq(T) /\ Len(t) = n /\ DOMAIN t = 1..n
  BY <1>1, <1>5
<1>7. T \subseteq Range(t)
  <2>1. {i \in DOMAIN t : t[i] \in T} = DOMAIN t
    BY <1>5, <1>6
  <2>2. Cardinality(DOMAIN t) = n
    BY <1>1, <1>6, FS_Interval
  <2> QED
    BY <1>5, <1>6, <2>1, <2>2, AllMet DEF n
<1>8. Range(t) \subseteq T
  BY <1>5 DEF Range
<1> QED
  BY <1>5, <1>6, <1>7, <1>8 DEF t

(* Two sequences of distinct elements without one in common.               *)
LEMMA Joined ==
  ASSUME NEW S, NEW s \in Seq(S), NEW t \in Seq(S), IsInjective(s), IsInjective(t),
         Range(s) \cap Range(t) = {}
  PROVE  s \o t \in Seq(S) /\ IsInjective(s \o t) /\ Range(s \o t) = Range(s) \cup Range(t)
<1> DEFINE m == Len(s)
           n == Len(t)
           u == s \o t
<1>1. /\ m \in Nat /\ n \in Nat /\ DOMAIN s = 1..m /\ DOMAIN t = 1..n
      /\ u \in Seq(S) /\ DOMAIN u = 1..m + n
      /\ \A i \in 1..m : u[i] = s[i]
      /\ \A i \in m + 1..m + n : u[i] = t[i - m]
  OBVIOUS
<1>2. /\ \A i, j \in 1..m : s[i] = s[j] => i = j
      /\ \A i, j \in 1..n : t[i] = t[j] => i = j
      /\ \A i \in 1..m, j \in 1..n : s[i] # t[j]
  <2>1. \A i \in 1..m : s[i] \in Range(s)
    BY <1>1 DEF Range
  <2>2. \A j \in 1..n : t[j] \in Range(t)
    BY <1>1 DEF Range
  <2>3. /\ \A i, j \in 1..m : s[i] = s[j] => i = j
        /\ \A i, j \in 1..n : t[i] = t[j] => i = j
    BY <1>1 DEF IsInjective
  <2> QED
    BY <2>1, <2>2, <2>3
<1> HIDE DEF m, n, u
<1>3. \A i \in 1..m + n : i \in 1..m \/ (i \in m + 1..m + n /\ i - m \in 1..n)
  BY <1>1
<1>4. \A i, j \in 1..m + n : u[i] = u[j] => i = j
  <2> SUFFICES ASSUME NEW i \in 1..m + n, NEW j \in 1..m + n, u[i] = u[j]
               PROVE  i = j
    OBVIOUS
  <2>1. CASE i \in 1..m /\ j \in 1..m
    BY <1>1, <1>2, <2>1
  <2>2. CASE i \notin 1..m /\ j \notin 1..m
    <3>1. i - m = j - m
      BY <1>1, <1>2, <1>3, <2>2
    <3> QED
      BY <1>1, <3>1
  <2>3. CASE i \in 1..m /\ j \notin 1..m
    BY <1>1, <1>2, <1>3, <2>3
  <2>4. CASE i \notin 1..m /\ j \in 1..m
    BY <1>1, <1>2, <1>3, <2>4
  <2> QED
    BY <2>1, <2>2, <2>3, <2>4
<1>5. Range(u) \subseteq Range(s) \cup Range(t)
  BY <1>1, <1>3 DEF Range
<1>6. Range(s) \subseteq Range(u)
  BY <1>1 DEF Range
<1>7. Range(t) \subseteq Range(u)
  <2>1. \A k \in 1..n : k + m \in 1..m + n /\ u[k + m] = t[k]
    BY <1>1
  <2> QED
    BY SMTT(60), <1>1, <2>1 DEF Range
<1> QED
  BY <1>1, <1>4, <1>5, <1>6, <1>7 DEF IsInjective, u

(* What depends on something, each once.                                   *)
LEMMA DependentsListed ==
  ASSUME NEW graph, IsFiniteSet(DOMAIN graph.edges)
  PROVE  (\E S : Dependents(graph) \in Seq(S)) /\ IsInjective(Dependents(graph))
<1> DEFINE own == <<"mypy", "pytest", "bandit">>
           E == SetToSeq(DOMAIN graph.edges)
           K == {i \in DOMAIN E : E[i] \notin DOMAIN StaticEdges}
           more == Kept(E, K)
           S == DOMAIN graph.edges \cup {"mypy", "pytest", "bandit"}
<1>1. Dependents(graph) = own \o more
  BY DEF Dependents, Those
<1>2. E \in Seq(DOMAIN graph.edges) /\ IsInjective(E)
  BY SetListed
<1>3. /\ more \in Seq(DOMAIN graph.edges) /\ IsInjective(more)
      /\ \A i \in DOMAIN more : more[i] \notin DOMAIN StaticEdges
  <2>1. K \in SUBSET DOMAIN E /\ \A k \in K : E[k] \notin DOMAIN StaticEdges
    OBVIOUS
  <2> HIDE DEF K, E
  <2> QED
    BY <1>2, <2>1, KeptThose, KeptOnce
<1>4. DOMAIN StaticEdges = {"mypy", "pytest", "bandit"}
  BY DEF StaticEdges
<1>5. own \in Seq(S) /\ IsInjective(own) /\ Range(own) = {"mypy", "pytest", "bandit"}
  BY DEF IsInjective, Range
<1> HIDE DEF own, more
<1>6. more \in Seq(S) /\ Range(own) \cap Range(more) = {}
  <2>1. more \in Seq(S)
    BY <1>3
  <2>2. \A x \in Range(more) : x \notin DOMAIN StaticEdges
    BY <1>3 DEF Range
  <2> QED
    BY <1>4, <1>5, <2>1, <2>2
<1> HIDE DEF S
<1> QED
  BY <1>1, <1>3, <1>5, <1>6, Joined

-----------------------------------------------------------------------------
(* Kahn's algorithm: what is queued or done is there once, and all it      *)
(* waits for is done; so an order as long as the list is all of it.        *)
KahnInv(V, graph, run, k) ==
  /\ k.queue \in Seq(V) /\ k.done \in Seq(V)
  /\ IsInjective(k.queue) /\ IsInjective(k.done) /\ Range(k.queue) \cap Range(k.done) = {}
  /\ \A v \in Range(k.queue) \cup Range(k.done) :
       v \in Range(run) /\ Needs(graph, run, v) \subseteq Range(k.done)

LEMMA HeadAndTail ==
  ASSUME NEW S, NEW s \in Seq(S), IsInjective(s), s # <<>>
  PROVE  /\ Head(s) \in Range(s) /\ Tail(s) \in Seq(S) /\ IsInjective(Tail(s))
         /\ Range(Tail(s)) = Range(s) \ {Head(s)}
<1> DEFINE n == Len(s)
           t == Tail(s)
<1>1. /\ n \in Nat \ {0} /\ DOMAIN s = 1..n /\ Head(s) = s[1] /\ t \in Seq(S)
      /\ DOMAIN t = 1..n - 1 /\ \A i \in 1..n - 1 : t[i] = s[i + 1]
  OBVIOUS
<1>2. \A i, j \in 1..n : s[i] = s[j] => i = j
  BY <1>1 DEF IsInjective
<1> HIDE DEF n, t
<1>3. IsInjective(t)
  BY <1>1, <1>2 DEF IsInjective
<1>4. Range(t) \subseteq Range(s) \ {s[1]}
  BY SMTT(30), <1>1, <1>2 DEF Range
<1>5. Range(s) \ {s[1]} \subseteq Range(t)
  <2>1. \A i \in 2..n : i - 1 \in 1..n - 1 /\ t[i - 1] = s[i]
    BY <1>1
  <2>2. \A i \in 1..n : i = 1 \/ i \in 2..n
    BY <1>1
  <2>3. ASSUME NEW x \in Range(s) \ {s[1]}
        PROVE  \E j \in 1..n - 1 : t[j] = x
    <3>1. PICK i \in 1..n : s[i] = x
      BY <1>1 DEF Range
    <3> QED
      BY <2>1, <2>2, <3>1
  <2> QED
    BY <1>1, <2>3 DEF Range
<1>6. s[1] \in Range(s)
  BY <1>1 DEF Range
<1> QED
  BY <1>1, <1>3, <1>4, <1>5, <1>6 DEF t

LEMMA OneMore ==
  ASSUME NEW S, NEW s \in Seq(S), IsInjective(s), NEW v \in S, v \notin Range(s)
  PROVE  /\ Append(s, v) \in Seq(S) /\ IsInjective(Append(s, v))
         /\ Range(Append(s, v)) = Range(s) \cup {v}
<1> DEFINE n == Len(s)
           t == Append(s, v)
<1>1. /\ n \in Nat /\ DOMAIN s = 1..n /\ t \in Seq(S) /\ DOMAIN t = 1..n + 1
      /\ \A i \in 1..n : t[i] = s[i]
      /\ t[n + 1] = v
  OBVIOUS
<1>2. \A i, j \in 1..n : s[i] = s[j] => i = j
  BY <1>1 DEF IsInjective
<1>3. \A i \in 1..n : s[i] # v
  BY <1>1 DEF Range
<1> HIDE DEF n, t
<1>4. \A i \in 1..n + 1 : i \in 1..n \/ i = n + 1
  BY <1>1
<1>5. IsInjective(t)
  BY <1>1, <1>2, <1>3, <1>4 DEF IsInjective
<1>6. Range(t) = Range(s) \cup {v}
  BY <1>1, <1>4 DEF Range
<1> QED
  BY <1>1, <1>5, <1>6 DEF t

LEMMA KahnKeeps ==
  ASSUME NEW V, NEW run \in Seq(V), IsInjective(run), NEW st, \A v \in V : Time(st, v) \in Nat,
         NEW graph, IsFiniteSet(DOMAIN graph.edges), NEW k, KahnInv(V, graph, run, k)
  PROVE  KahnInv(V, graph, run, KahnStep(graph, st, run, k))
<1>1. CASE k.queue = <<>>
  BY <1>1 DEF KahnStep
<1>2. CASE k.queue # <<>>
  <2> DEFINE v == Head(k.queue)
             done == Append(k.done, v)
             needs(d) == Needs(graph, run, d)
             freed(d) == d \in Range(run) /\ v \in needs(d) /\ needs(d) \subseteq Range(done)
             deps == Dependents(graph)
             K == {i \in DOMAIN deps : freed(deps[i])}
             more == Kept(deps, K)
             rest == Tail(k.queue)
             queue == ByTime(rest \o more, st)
  <2>1. KahnStep(graph, st, run, k) = [queue |-> queue, done |-> done]
    BY <1>2 DEF KahnStep, Those
  <2>2. /\ k.queue \in Seq(V) /\ k.done \in Seq(V)
        /\ IsInjective(k.queue) /\ IsInjective(k.done) /\ Range(k.queue) \cap Range(k.done) = {}
        /\ \A d \in Range(k.queue) \cup Range(k.done) :
             d \in Range(run) /\ needs(d) \subseteq Range(k.done)
    BY DEF KahnInv
  <2>3. /\ v \in Range(k.queue) /\ rest \in Seq(V) /\ IsInjective(rest)
        /\ Range(rest) = Range(k.queue) \ {v} /\ v \in V
    BY <1>2, <2>2, HeadAndTail
  <2>4. done \in Seq(V) /\ IsInjective(done) /\ Range(done) = Range(k.done) \cup {v}
    <3> HIDE DEF v
    <3>1. v \notin Range(k.done)
      BY <2>2, <2>3
    <3> QED
      BY <2>2, <2>3, <3>1, OneMore
  <2>5. PICK S : deps \in Seq(S) /\ IsInjective(deps)
    BY DependentsListed
  <2> HIDE DEF v, done, rest, deps
  <2>6. \A d \in Range(run) : d \in V
    BY DEF Range
  <2>7. ASSUME NEW d, freed(d)
        PROVE  d \in V /\ d \in Range(run) /\ needs(d) \subseteq Range(done) /\ d \notin Range(k.queue) \cup Range(k.done)
    <3>1. v \in needs(d) /\ d \in Range(run) /\ needs(d) \subseteq Range(done)
      BY <2>7
    <3>2. v \notin Range(k.done)
      BY <2>2, <2>3
    <3> HIDE DEF needs
    <3> QED
      BY <2>2, <2>6, <3>1, <3>2
  <2> HIDE DEF freed
  <2>8. /\ more \in Seq(V) /\ IsInjective(more) /\ \A d \in Range(more) : freed(d)
    <3>1. K \in SUBSET DOMAIN deps /\ \A i \in K : freed(deps[i]) /\ deps[i] \in V
      BY <2>7
    <3> HIDE DEF K
    <3>2. more \in Seq(V) /\ Range(more) = {deps[i] : i \in K}
      BY <2>5, <3>1, ThoseAmong
    <3>3. IsInjective(more)
      BY <2>5, <3>1, KeptOnce
    <3> QED
      BY <3>1, <3>2, <3>3
  <2> HIDE DEF more, needs
  <2>9. Range(rest) \cap Range(more) = {}
    BY <2>3, <2>7, <2>8
  <2>10. /\ rest \o more \in Seq(V) /\ IsInjective(rest \o more)
         /\ Range(rest \o more) = Range(rest) \cup Range(more)
    BY <2>3, <2>8, <2>9, Joined
  <2>11. queue \in Seq(V) /\ IsInjective(queue) /\ Range(queue) = Range(rest) \cup Range(more)
    <3> DEFINE both == rest \o more
    <3>1. both \in Seq(V) /\ IsInjective(both) /\ Range(both) = Range(rest) \cup Range(more)
      BY <2>10
    <3> HIDE DEF both
    <3>2. ByTime(both, st) \in Seq(V) /\ Range(ByTime(both, st)) = Range(both) /\ IsInjective(ByTime(both, st))
      BY <3>1, TimesPermute
    <3> QED
      BY <3>1, <3>2 DEF both
  <2> HIDE DEF queue
  <2>12. Range(queue) \cap Range(done) = {}
    BY <2>2, <2>3, <2>4, <2>7, <2>8, <2>11
  <2>13. ASSUME NEW d \in Range(queue) \cup Range(done)
         PROVE  d \in Range(run) /\ needs(d) \subseteq Range(done)
    BY <2>2, <2>3, <2>4, <2>7, <2>8, <2>11, <2>13
  <2> DEFINE new == [queue |-> queue, done |-> done]
  <2>14. new.queue = queue /\ new.done = done
    OBVIOUS
  <2> HIDE DEF new
  <2>15. KahnInv(V, graph, run, new)
    BY <2>4, <2>11, <2>12, <2>13, <2>14 DEF KahnInv, needs
  <2> QED
    BY <2>1, <2>15 DEF new
<1> QED
  BY <1>1, <1>2

LEMMA OrderIsWhole ==
  ASSUME NEW V, NEW run \in Seq(V), IsInjective(run), NEW st, \A v \in V : Time(st, v) \in Nat,
         NEW graph, IsFiniteSet(DOMAIN graph.edges)
  PROVE  LET order == ExecutionOrder(graph, st, run)
         IN order \in Seq(V) /\ IsInjective(order) /\ Range(order) = Range(run)
<1> DEFINE N == Len(run)
           K == {i \in DOMAIN run : Needs(graph, run, run[i]) = {}}
           base == [queue |-> ByTime(Kept(run, K), st), done |-> <<>>]
           X == {k \in [queue : Seq(V), done : Seq(V)] : KahnInv(V, graph, run, k)}
           kahn == CHOOSE f : f = [n \in 0..N |-> IF n = 0 THEN base ELSE KahnStep(graph, st, run, f[n - 1])]
<1>1. ExecutionOrder(graph, st, run) =
        IF graph.mode = "off" \/ N <= 1 THEN run
        ELSE IF Len(kahn[N].done) # N THEN run ELSE kahn[N].done
  BY DEF ExecutionOrder, Those
<1>2. base \in X
  <2> DEFINE first == Kept(run, K)
  <2>1. first \in Seq(V) /\ IsInjective(first) /\ Range(first) = {run[i] : i \in K}
    <3>1. K \in SUBSET DOMAIN run /\ \A i \in K : run[i] \in V
      OBVIOUS
    <3> HIDE DEF K
    <3>2. first \in Seq(V) /\ Range(first) = {run[i] : i \in K}
      BY <3>1, ThoseAmong
    <3>3. IsInjective(first)
      BY <3>1, KeptOnce
    <3> QED
      BY <3>2, <3>3
  <2>2. \A v \in Range(first) : v \in Range(run) /\ Needs(graph, run, v) = {}
    BY <2>1 DEF Range
  <2> DEFINE queue == ByTime(first, st)
  <2> HIDE DEF first, K
  <2>3. queue \in Seq(V) /\ IsInjective(queue) /\ Range(queue) = Range(first)
    BY <2>1, TimesPermute
  <2>4. <<>> \in Seq(V) /\ IsInjective(<<>>) /\ Range(<<>>) = {}
    BY DEF IsInjective, Range
  <2>5. base.queue = queue /\ base.done = <<>> /\ base \in [queue : Seq(V), done : Seq(V)]
    BY <2>3, <2>4 DEF first
  <2> HIDE DEF queue, base
  <2>6. KahnInv(V, graph, run, base)
    BY <2>2, <2>3, <2>4, <2>5 DEF KahnInv
  <2> QED
    BY <2>5, <2>6
<1>3. \A k \in X : KahnStep(graph, st, run, k) \in X
  <2> TAKE k \in X
  <2>1. KahnInv(V, graph, run, KahnStep(graph, st, run, k))
    BY KahnKeeps
  <2>2. \/ KahnStep(graph, st, run, k) = k
        \/ \E q, d : KahnStep(graph, st, run, k) = [queue |-> q, done |-> d]
    BY DEF KahnStep
  <2>3. KahnStep(graph, st, run, k) \in [queue : Seq(V), done : Seq(V)]
    BY <2>1, <2>2 DEF KahnInv
  <2> QED
    BY <2>1, <2>3
<1> HIDE DEF base, X
<1>4. N \in Nat
  OBVIOUS
<1> HIDE DEF N
<1>5. kahn[N] \in X
  <2> DEFINE step == [n \in 1..N |-> [k \in X |-> KahnStep(graph, st, run, k)]]
  <2>1. step \in [1..N -> [X -> X]]
    BY <1>3
  <2>2. \A n \in 1..N, k \in X : step[n][k] = KahnStep(graph, st, run, k)
    OBVIOUS
  <2> HIDE DEF step
  <2>3. PICK f \in [0..N -> X] : f[0] = base /\ \A n \in 1..N : f[n] = step[n][f[n - 1]]
    BY ONLY <1>2, <1>4, <2>1, Iterated
  <2>4. \A n \in 1..N : f[n] = KahnStep(graph, st, run, f[n - 1])
    <3>1. \A n \in 1..N : f[n - 1] \in X
      BY <1>4, <2>3
    <3> QED
      BY <2>2, <2>3, <3>1
  <2>5. f = [n \in 0..N |-> IF n = 0 THEN base ELSE KahnStep(graph, st, run, f[n - 1])]
    <3>1. f = [n \in 0..N |-> f[n]]
      BY <2>3
    <3>2. \A n \in 0..N : f[n] = IF n = 0 THEN base ELSE KahnStep(graph, st, run, f[n - 1])
      <4>1. \A n \in 0..N : n = 0 \/ n \in 1..N
        BY <1>4
      <4> QED
        BY <2>3, <2>4, <4>1
    <3> QED
      BY <3>1, <3>2
  <2>6. kahn = [n \in 0..N |-> IF n = 0 THEN base ELSE KahnStep(graph, st, run, kahn[n - 1])]
    BY <2>5
  <2> HIDE DEF kahn
  <2>7. kahn[0] = base
    BY <1>4, <2>6
  <2>8. \A n \in 1..N : kahn[n] = KahnStep(graph, st, run, kahn[n - 1])
    BY <1>4, <2>6
  <2> DEFINE Inv == [n \in 0..N |-> X]
  <2>9. \A n \in 0..N : Inv[n] = X
    OBVIOUS
  <2>10. 0 \in 0..N /\ N \in 0..N /\ \A n \in 1..N : n \in 0..N /\ n - 1 \in 0..N
    BY <1>4
  <2> HIDE DEF Inv
  <2>11. \A n \in 0..N : kahn[n] \in Inv[n]
    <3>1. kahn[0] \in Inv[0]
      BY <1>2, <2>7, <2>9, <2>10
    <3>2. \A n \in 1..N : kahn[n - 1] \in Inv[n - 1] => kahn[n] \in Inv[n]
      BY <1>3, <2>8, <2>9, <2>10
    <3> QED
      BY <1>4, <3>1, <3>2, Preserved
  <2> QED
    BY <2>9, <2>10, <2>11
<1> DEFINE k == kahn[N]
<1> HIDE DEF kahn
<1>6. KahnInv(V, graph, run, k) /\ k.done \in Seq(V) /\ IsInjective(k.done) /\ Range(k.done) \subseteq Range(run)
  BY <1>5 DEF X, KahnInv
<1>7. CASE Len(k.done) = N
  <2>1. Range(k.done) = Range(run)
    BY <1>6, <1>7, AsLong DEF N
  <2> QED
    BY <1>1, <1>6, <2>1
<1>8. CASE Len(k.done) # N
  BY <1>1, <1>8
<1> QED
  BY <1>7, <1>8

-----------------------------------------------------------------------------
(* The rows made in an order: each is decided by those before it.          *)
LEMMA RowNamed ==
  ASSUME NEW rows, NEW v \in Names(rows)
  PROVE  \E i \in DOMAIN rows : rows[i].name = v /\ ByName(rows)[v] = rows[i]
<1>1. \E i \in DOMAIN rows : rows[i].name = v
  BY DEF Names
<1> QED
  BY <1>1 DEF ByName

Follows(rows, known, order) ==
  /\ Len(rows) = Len(order)
  /\ \A i \in 1..Len(order) : rows[i] = NextRow(SubSeq(rows, 1, i - 1), known, order[i])

LEMMA RowsOfOrder ==
  ASSUME NEW V, NEW names, NEW known, ExecutionOrder(profile.graph, stats, names) \in Seq(V)
  PROVE  /\ \E S : InOrder(names, known) \in Seq(S)
         /\ Follows(InOrder(names, known), known, ExecutionOrder(profile.graph, stats, names))
<1> DEFINE order == ExecutionOrder(profile.graph, stats, names)
           N == Len(order)
           next(rows, n) == NextRow(rows, known, order[n])
           S == {Skipped(v) : v \in V} \cup {RunOne(v, tool[v]) : v \in V}
           made == CHOOSE f : f = [n \in 0..N |-> IF n = 0 THEN <<>> ELSE Append(f[n - 1], next(f[n - 1], n))]
           X == Seq(S)
<1>1. InOrder(names, known) = made[N]
  BY DEF InOrder
<1>2. order \in Seq(V) /\ N \in Nat /\ \A n \in 1..N : order[n] \in V
  OBVIOUS
<1> HIDE DEF order
<1>3. \A n \in 1..N : \A rows : next(rows, n) \in S
  <2>1. ASSUME NEW v \in V, NEW rows
        PROVE  NextRow(rows, known, v) \in S
    BY DEF NextRow
  <2> QED
    BY <1>2, <2>1
<1> HIDE DEF N, S, next
<1>4. \A n \in 1..N, rows \in X : Append(rows, next(rows, n)) \in X
  BY <1>3
<1>5. made = [n \in 0..N |-> IF n = 0 THEN <<>> ELSE Append(made[n - 1], next(made[n - 1], n))]
  <2> DEFINE step == [n \in 1..N |-> [rows \in X |-> Append(rows, next(rows, n))]]
  <2> DEFINE none == <<>>
  <2>1. step \in [1..N -> [X -> X]] /\ none \in X
    BY <1>4
  <2>2. \A n \in 1..N, rows \in X : step[n][rows] = Append(rows, next(rows, n))
    OBVIOUS
  <2> HIDE DEF step, X, none
  <2>0. N \in Nat
    BY <1>2
  <2>3. PICK f \in [0..N -> X] : f[0] = none /\ \A n \in 1..N : f[n] = step[n][f[n - 1]]
    BY ONLY <2>0, <2>1, Iterated
  <2>4. \A n \in 1..N : f[n] = Append(f[n - 1], next(f[n - 1], n))
    <3>1. \A n \in 1..N : f[n - 1] \in X
      BY <1>2, <2>3
    <3> QED
      BY <2>2, <2>3, <3>1
  <2>5. f = [n \in 0..N |-> IF n = 0 THEN none ELSE Append(f[n - 1], next(f[n - 1], n))]
    <3>1. f = [n \in 0..N |-> f[n]]
      BY <2>3
    <3>2. \A n \in 0..N : f[n] = IF n = 0 THEN none ELSE Append(f[n - 1], next(f[n - 1], n))
      <4>1. \A n \in 0..N : n = 0 \/ n \in 1..N
        BY <1>2
      <4> QED
        BY <2>3, <2>4, <4>1
    <3> QED
      BY <3>1, <3>2
  <2> QED
    BY <2>5 DEF none
<1> HIDE DEF made
<1> DEFINE whole(n, rows) == Len(rows) = n /\ \A i \in 1..n : rows[i] = next(SubSeq(rows, 1, i - 1), i)
           Inv == [n \in 0..N |-> {rows \in X : whole(n, rows)}]
<1>6. \A n \in 0..N : \A rows : rows \in Inv[n] <=> rows \in X /\ whole(n, rows)
  OBVIOUS
<1>7. made[N] \in Inv[N]
  <2>1. 0 \in 0..N /\ N \in 0..N /\ \A n \in 1..N : n \in 0..N /\ n - 1 \in 0..N
    BY <1>2
  <2>2. made[0] = <<>> /\ \A n \in 1..N : made[n] = Append(made[n - 1], next(made[n - 1], n))
    <3>1. \A n \in 0..N : made[n] = IF n = 0 THEN <<>> ELSE Append(made[n - 1], next(made[n - 1], n))
      BY <1>5
    <3>2. \A n \in 1..N : n # 0
      BY <1>2
    <3> QED
      BY <2>1, <3>1, <3>2
  <2> HIDE DEF Inv
  <2>3. made[0] \in Inv[0]
    <3>1. <<>> \in X /\ whole(0, <<>>)
      OBVIOUS
    <3> HIDE DEF whole
    <3> QED
      BY <1>6, <2>1, <2>2, <3>1
  <2>4. ASSUME NEW n \in 1..N, made[n - 1] \in Inv[n - 1]
        PROVE  made[n] \in Inv[n]
    <3> DEFINE old == made[n - 1]
               new == Append(old, next(old, n))
    <3>1. made[n] = new
      BY <2>2
    <3>2. old \in Seq(S) /\ Len(old) = n - 1 /\ \A i \in 1..n - 1 : old[i] = next(SubSeq(old, 1, i - 1), i)
      BY <1>6, <2>1, <2>4
    <3> HIDE DEF old
    <3>3. new \in Seq(S) /\ Len(new) = n /\ new[n] = next(old, n) /\ \A i \in 1..n - 1 : new[i] = old[i]
      BY <1>3, <1>2, <3>2
    <3>4. \A i \in 1..n : SubSeq(new, 1, i - 1) = SubSeq(old, 1, i - 1)
      <4> TAKE i \in 1..n
      <4>1. i - 1 \in 0..n - 1 /\ n \in Nat
        BY <1>2
      <4> HIDE DEF new
      <4>2. SubSeq(new, 1, i - 1) = [k \in 1..i - 1 |-> new[k]] /\ SubSeq(old, 1, i - 1) = [k \in 1..i - 1 |-> old[k]]
        BY <1>2, <3>2, <3>3, <4>1
      <4>3. \A k \in 1..i - 1 : new[k] = old[k]
        BY <1>2, <3>3
      <4> QED
        BY <4>2, <4>3
    <3>5. SubSeq(old, 1, n - 1) = old
      BY <1>2, <3>2
    <3> HIDE DEF new
    <3>6. \A i \in 1..n : new[i] = next(SubSeq(new, 1, i - 1), i)
      <4> TAKE i \in 1..n
      <4>1. CASE i = n
        BY <3>3, <3>4, <3>5, <4>1
      <4>2. CASE i # n
        <5>1. i \in 1..n - 1
          BY <1>2, <4>2
        <5> QED
          BY <3>2, <3>3, <3>4, <5>1
      <4> QED
        BY <4>1, <4>2
    <3> QED
      BY <1>6, <2>1, <3>1, <3>3, <3>6
  <2>5. \A n \in 0..N : made[n] \in Inv[n]
    BY ONLY <1>2, <2>3, <2>4, Preserved
  <2> QED
    BY <2>1, <2>5
<1>8. made[N] \in Seq(S) /\ whole(N, made[N])
  BY <1>2, <1>6, <1>7
<1> QED
  BY <1>1, <1>8 DEF Follows, N, order, next

(* Where no row blocks, none is skipped behind a failure: the first hard   *)
(* one that is would be skipped behind an earlier one, or behind a row     *)
(* that had passed.                                                        *)
LEMMA NothingHidden ==
  ASSUME ~ profile.graph.soft,
         NEW V, NEW order \in Seq(V), NEW T, NEW known \in Seq(T), \A i \in DOMAIN known : known[i].ok,
         NEW S, NEW rows \in Seq(S), Follows(rows, known, order),
         \A i \in DOMAIN rows : ~ Blocks(rows[i], job.soft)
  PROVE  \A i \in DOMAIN order : order[i] \notin job.soft => rows[i].ok
<1> DEFINE N == Len(order)
           bad == {i \in 1..N : order[i] \notin job.soft /\ ~ rows[i].ok}
<1>0. N \in Nat /\ DOMAIN order = 1..N /\ DOMAIN rows = 1..N /\ Len(rows) = N
  BY DEF Follows
<1>1. \A i \in 1..N : rows[i] = NextRow(SubSeq(rows, 1, i - 1), known, order[i])
  BY DEF Follows
<1>2. \A i \in 1..N : rows[i].name = order[i]
  <2>1. \A v : Skipped(v).name = v /\ RunOne(v, tool[v]).name = v
    BY RowOfOne DEF Skipped
  <2>2. \A r, v : NextRow(r, known, v).name = v
    BY <2>1 DEF NextRow
  <2> QED
    BY <1>1, <2>2
<1> SUFFICES ASSUME bad # {}
             PROVE  FALSE
  BY <1>0
<1>3. PICK i \in bad : \A k \in bad : i <= k
  <2>1. bad \in SUBSET Nat
    OBVIOUS
  <2> HIDE DEF bad
  <2> QED
    BY <2>1, LeastNumber
<1> DEFINE v == order[i]
           before == SubSeq(rows, 1, i - 1)
           done == [x \in Names(before) \cup Names(known) |->
                      IF x \in Names(before) THEN ByName(before)[x] ELSE ByName(known)[x]]
<1>4. i \in 1..N /\ v \notin job.soft /\ ~ rows[i].ok /\ rows[i].name = v
  BY <1>2, <1>3
<1>5. rows[i].status = "skipped_dependency"
  BY <1>0, <1>4 DEF Blocks
<1>6. ShouldSkip(profile.graph, v, done, job.soft)
  <2>1. rows[i] = IF ShouldSkip(profile.graph, v, done, job.soft) THEN Skipped(v) ELSE RunOne(v, tool[v])
    BY <1>1, <1>4 DEF NextRow
  <2> QED
    BY <1>5, <2>1, RowOfOne
<1>7. before \in Seq(S) /\ Len(before) = i - 1 /\ \A j \in 1..i - 1 : before[j] = rows[j] /\ j \in 1..N
  BY <1>0, <1>4
<1> HIDE DEF v, before, bad
<1>8. PICK p \in DOMAIN done : ~ done[p].ok /\ p \notin job.soft
  <2> HIDE DEF done
  <2> QED
    BY <1>6 DEF ShouldSkip
<1>9. CASE p \in Names(before)
  <2>1. PICK j \in DOMAIN before : before[j].name = p /\ ByName(before)[p] = before[j]
    BY <1>7, <1>9, RowNamed
  <2>2. done[p] = before[j]
    BY <1>8, <1>9, <2>1
  <2>3. j \in 1..i - 1 /\ before[j] = rows[j] /\ j \in 1..N /\ order[j] = p
    <3>1. j \in 1..i - 1
      BY <1>7, <2>1
    <3> QED
      BY <1>2, <1>7, <2>1, <3>1
  <2>4. j \in bad
    BY <1>8, <2>2, <2>3 DEF bad
  <2>5. j < i
    BY <1>4, <2>3
  <2> QED
    BY <1>3, <1>4, <2>3, <2>4, <2>5
<1>10. CASE p \notin Names(before)
  <2>1. p \in Names(known) /\ done[p] = ByName(known)[p]
    BY <1>8, <1>10
  <2>2. PICK j \in DOMAIN known : ByName(known)[p] = known[j]
    BY <2>1, RowNamed
  <2> QED
    BY <1>8, <2>1, <2>2
<1> QED
  BY <1>9, <1>10

-----------------------------------------------------------------------------
(* A task: its validators are asked once each, its rows are of all of      *)
(* them, and a repair keeps the rows of those that had passed.             *)
Askable == Range(profile.enabled) \cup profile.scope.always

PassInv ==
  /\ \E S : lasts \in Seq(S)
  /\ DOMAIN job = DOMAIN NoJob
  /\ job.run \in Seq(Askable) /\ IsInjective(job.run)
  /\ \E S : job.rows \in Seq(S)
  /\ job.rows # <<>> => Range(job.run) \subseteq Names(job.rows)

LEMMA BaseOnce ==
  ASSUME Listed, cur <= Len(profile.tasks)
  PROVE  IsInjective(Base)
<1> DEFINE enabled == profile.enabled
           focus == OrderedUnique(Task.focus)
           F == {i \in DOMAIN focus : Contains(enabled, focus[i])}
           G == {i \in DOMAIN FALLBACK : Contains(enabled, FALLBACK[i])}
           f == Kept(focus, F)
           g == Kept(FALLBACK, G)
<1>1. IsInjective(enabled)
  BY ProfileAssumption DEF Listed
<1>2. PICK S : focus \in Seq(S) /\ IsInjective(focus)
  <2>1. profile.tasks \in Seq(Range(profile.tasks))
    BY ProfileAssumption DEF Listed
  <2>2. cur \in DOMAIN profile.tasks
    BY <2>1 DEF Listed
  <2>3. Task \in Range(profile.tasks)
    BY <2>2 DEF Task, Range
  <2>4. Task.focus \in Seq(Range(Task.focus))
    BY <2>3, ProfileAssumption DEF Listed
  <2> QED
    BY <2>4, UniqueOnce
<1>3. FALLBACK \in Seq(Range(FALLBACK)) /\ IsInjective(FALLBACK)
  BY FallbackListed
<1>4. F \in SUBSET DOMAIN focus /\ G \in SUBSET DOMAIN FALLBACK
  OBVIOUS
<1>5. Base = IF f # <<>> THEN f ELSE IF g # <<>> THEN g ELSE enabled
  BY DEF Base, Resolved, Those
<1> HIDE DEF enabled, focus, F, G
<1>6. IsInjective(f) /\ IsInjective(g)
  BY <1>2, <1>3, <1>4, KeptOnce
<1> QED
  BY <1>1, <1>5, <1>6

LEMMA SelectedOnce ==
  ASSUME Listed, cur <= Len(profile.tasks)
  PROVE  Selected.run \in Seq(Range(profile.enabled)) /\ IsInjective(Selected.run)
<1> DEFINE gate == profile.gate
           base == Base
           kept(v) == (Task.files = {} \/ Relevant(v, Task.files)) /\ ~ (gate.mode = "aggressive" /\ Steady(gate, stats, v))
           K == {i \in DOMAIN base : kept(base[i])}
           some == Kept(base, K)
           least == IF Contains(base, "ruff") THEN <<"ruff">> ELSE Kept(base, {1} \cap DOMAIN base)
           R == Range(profile.enabled)
<1>1. base \in Seq(R) /\ IsInjective(base) /\ \A v \in R : Signal(stats, v) \in Signals
  BY BaseEnabled, BaseOnce, SignalsTyped
<1>2. Selected.run =
        IF gate.mode = "off" THEN base
        ELSE IF Task.focus # <<>> THEN PrioritySorted(base, stats)
        ELSE PrioritySorted(IF some # <<>> THEN some ELSE least, stats)
  BY DEF Selected, SelectValidators, Those
<1>3. some \in Seq(R) /\ IsInjective(some)
  <2>1. K \in SUBSET DOMAIN base
    OBVIOUS
  <2> HIDE DEF K, base, R
  <2> QED
    BY <1>1, <2>1, KeptOnce
<1> HIDE DEF some, base, R, gate
<1>4. least \in Seq(R) /\ IsInjective(least)
  <2>1. CASE Contains(base, "ruff")
    <3>1. "ruff" \in R
      BY <1>1, <2>1 DEF Contains
    <3> QED
      BY <2>1, <3>1 DEF IsInjective
  <2>2. Kept(base, {1} \cap DOMAIN base) \in Seq(R) /\ IsInjective(Kept(base, {1} \cap DOMAIN base))
    BY <1>1, KeptOnce
  <2> QED
    BY <2>1, <2>2
<1> DEFINE few == IF some # <<>> THEN some ELSE least
<1>5. few \in Seq(R) /\ IsInjective(few)
  BY <1>3, <1>4
<1>6. Selected.run \in {base, PrioritySorted(base, stats), PrioritySorted(few, stats)}
  BY <1>2
<1> HIDE DEF few, least
<1>7. \A s \in {base, few} : PrioritySorted(s, stats) \in Seq(R) /\ IsInjective(PrioritySorted(s, stats))
  BY <1>1, <1>5, SortPermutes
<1> QED
  BY <1>1, <1>6, <1>7 DEF R

LEMMA RunListed ==
  ASSUME Listed, cur <= Len(profile.tasks), NEW files
  PROVE  LET run == Scoped(profile.scope, Selected.run, files)
         IN run \in Seq(Askable) /\ IsInjective(run)
<1> DEFINE scope == profile.scope
           run == Selected.run
           all == files \cup IF scope.mapping THEN UNION {Paired(f) : f \in files} ELSE {}
           keep(v) == v \in scope.always \/ Relevant(v, all)
           K == {i \in DOMAIN run : keep(run[i])}
           narrow == Kept(run, K)
           extra == SetToSeq(scope.always)
           M == {i \in DOMAIN extra : ~ Contains(run, extra[i])}
           more == Kept(extra, M)
<1>1. Scoped(scope, run, files) =
        CASE scope.mode = "off" \/ files = {} -> run
          [] scope.mode = "conservative" -> run \o more
          [] OTHER -> IF narrow # <<>> THEN narrow ELSE run
  BY DEF Scoped, Those
<1>2. run \in Seq(Askable) /\ IsInjective(run)
  <2>1. run \in Seq(Range(profile.enabled)) /\ IsInjective(run)
    BY SelectedOnce
  <2> HIDE DEF run
  <2>2. \A v \in Range(profile.enabled) : v \in Askable
    BY DEF Askable
  <2> QED
    BY <2>1, <2>2
<1>3. narrow \in Seq(Askable) /\ IsInjective(narrow)
  <2>1. K \in SUBSET DOMAIN run
    OBVIOUS
  <2> HIDE DEF K, run
  <2> QED
    BY <1>2, <2>1, KeptOnce
<1>4. extra \in Seq(scope.always) /\ IsInjective(extra)
  BY SetListed, ProfileAssumption DEF Listed
<1>5. more \in Seq(Askable) /\ IsInjective(more) /\ Range(more) \cap Range(run) = {}
  <2>1. M \in SUBSET DOMAIN extra /\ \A i \in M : extra[i] \in Askable /\ ~ Contains(run, extra[i])
    BY <1>4 DEF Askable
  <2> HIDE DEF M, extra, run
  <2>2. more \in Seq(Askable) /\ Range(more) = {extra[i] : i \in M}
    BY <1>4, <2>1, ThoseAmong
  <2>3. IsInjective(more)
    BY <1>4, <2>1, KeptOnce
  <2>4. \A v \in Range(run) : Contains(run, v)
    BY <1>2 DEF Range, Contains
  <2> QED
    BY <2>1, <2>2, <2>3, <2>4
<1> HIDE DEF more, narrow, run, scope
<1>6. run \o more \in Seq(Askable) /\ IsInjective(run \o more)
  BY <1>2, <1>5, Joined
<1> QED
  BY <1>1, <1>2, <1>3, <1>6 DEF run, scope

LEMMA OrderOf ==
  ASSUME Listed, NEW names \in Seq(Askable), IsInjective(names)
  PROVE  LET order == ExecutionOrder(profile.graph, stats, names)
         IN order \in Seq(Askable) /\ IsInjective(order) /\ Range(order) = Range(names)
<1>1. \A v \in Askable : Time(stats, v) \in Nat
  BY ProfileAssumption DEF Listed, Askable, Time
<1>2. IsFiniteSet(DOMAIN profile.graph.edges)
  BY ProfileAssumption DEF Listed
<1> QED
  BY <1>1, <1>2, OrderIsWhole

LEMMA RerunListed ==
  ASSUME job.run \in Seq(Askable), IsInjective(job.run)
  PROVE  /\ Rerun \in Seq(Askable) /\ IsInjective(Rerun) /\ Range(Rerun) \subseteq Range(job.run)
         /\ \A v \in Range(job.run) \ Range(Rerun) :
              \A i \in DOMAIN job.rows : job.rows[i].name = v => job.rows[i].ok
<1> DEFINE run == job.run
           failed(v) == \E i \in DOMAIN job.rows : /\ job.rows[i].name = v /\ ~ job.rows[i].ok
                                                     /\ job.rows[i].status # "skipped_dependency"
           K == {i \in DOMAIN run : failed(run[i])}
           some == Kept(run, K)
           skips == \E i \in DOMAIN job.rows : job.rows[i].status = "skipped_dependency"
<1>1. Rerun = IF skips \/ some = <<>> THEN run ELSE some
  BY DEF Rerun, Those
<1>2. some \in Seq(Askable) /\ IsInjective(some) /\ Range(some) = {run[k] : k \in K}
  <2>1. K \in SUBSET DOMAIN run /\ \A k \in K : run[k] \in Askable
    OBVIOUS
  <2> HIDE DEF K, run
  <2>2. some \in Seq(Askable) /\ Range(some) = {run[k] : k \in K}
    BY <2>1, ThoseAmong DEF run
  <2>3. IsInjective(some)
    BY <2>1, KeptOnce DEF run
  <2> QED
    BY <2>2, <2>3
<1>3. Range(some) \subseteq Range(run)
  BY <1>2 DEF Range
<1> HIDE DEF some
<1>4. ASSUME NEW v \in Range(run) \ Range(Rerun), NEW i \in DOMAIN job.rows, job.rows[i].name = v
      PROVE  job.rows[i].ok
  <2>1. ~ skips /\ Rerun = some
    BY <1>1, <1>4
  <2>2. ~ failed(v)
    <3>1. PICK k \in DOMAIN run : run[k] = v
      BY DEF Range
    <3> QED
      BY <1>2, <1>4, <2>1, <3>1
  <2> QED
    BY <1>4, <2>1, <2>2
<1> QED
  BY <1>1, <1>2, <1>3, <1>4

(* The rows of a repair: one of each validator asked again, and where none *)
(* of them blocks, those of the hard ones pass.                            *)
Rows(rows, names) ==
  /\ \E S : rows \in Seq(S)
  /\ Names(rows) = Range(names)
  /\ ~ profile.graph.soft /\ (\A v \in Range(names) : ~ Blocks(ByName(rows)[v], job.soft)) =>
       \A v \in Range(names) \ job.soft : ByName(rows)[v].ok

LEMMA MadeInOrder ==
  ASSUME Listed, NEW names \in Seq(Askable), IsInjective(names),
         NEW T, NEW known \in Seq(T), \A i \in DOMAIN known : known[i].ok
  PROVE  Rows(InOrder(names, known), names)
<1> DEFINE order == ExecutionOrder(profile.graph, stats, names)
           rows == InOrder(names, known)
<1>1. order \in Seq(Askable) /\ IsInjective(order) /\ Range(order) = Range(names)
  BY OrderOf
<1>2. (\E S : rows \in Seq(S)) /\ Follows(rows, known, order)
  BY <1>1, RowsOfOrder
<1> HIDE DEF order, rows
<1>3. DOMAIN rows = DOMAIN order
  BY <1>1, <1>2 DEF Follows
<1>4. \A i \in DOMAIN order : rows[i].name = order[i]
  <2>1. \A v : Skipped(v).name = v /\ RunOne(v, tool[v]).name = v
    BY RowOfOne DEF Skipped
  <2>2. \A r, v : NextRow(r, known, v).name = v
    BY <2>1 DEF NextRow
  <2>3. DOMAIN order = 1..Len(order)
    BY <1>1
  <2> QED
    BY <1>2, <2>2, <2>3 DEF Follows
<1>5. Names(rows) = Range(names)
  BY ZenonT(60), <1>1, <1>3, <1>4 DEF Names, Range
<1>6. \A i \in DOMAIN order : ByName(rows)[order[i]] = rows[i]
  <2> TAKE i \in DOMAIN order
  <2>1. order[i] \in Names(rows)
    BY <1>3, <1>4 DEF Names
  <2>2. PICK j \in DOMAIN rows : rows[j].name = order[i] /\ ByName(rows)[order[i]] = rows[j]
    BY <2>1, RowNamed
  <2>3. order[j] = order[i]
    BY <1>3, <1>4, <2>2
  <2>4. i = j
    BY <1>1, <1>3, <2>2, <2>3 DEF IsInjective
  <2> QED
    BY <2>2, <2>4
<1>7. ASSUME ~ profile.graph.soft, \A v \in Range(names) : ~ Blocks(ByName(rows)[v], job.soft),
             NEW v \in Range(names) \ job.soft
      PROVE  ByName(rows)[v].ok
  <2>1. \A i \in DOMAIN rows : ~ Blocks(rows[i], job.soft)
    <3>1. \A i \in DOMAIN order : order[i] \in Range(names)
      BY <1>1 DEF Range
    <3> QED
      BY <1>3, <1>6, <1>7, <3>1
  <2>2. \A i \in DOMAIN order : order[i] \notin job.soft => rows[i].ok
    BY <1>1, <1>2, <1>7, <2>1, NothingHidden
  <2>3. PICK i \in DOMAIN order : order[i] = v
    BY <1>1 DEF Range
  <2> QED
    BY <1>6, <2>2, <2>3
<1> QED
  BY <1>2, <1>5, <1>7 DEF Rows, rows

LEMMA FreshRows ==
  ASSUME Listed, PassInv
  PROVE  Rows(Fresh, Rerun)
<1>1. Rerun \in Seq(Askable) /\ IsInjective(Rerun)
  BY RerunListed DEF PassInv
<1>2. CASE profile.graph.mode # "off"
  <2> DEFINE rows == job.rows
             K == {i \in DOMAIN rows : rows[i].ok}
             known == Kept(rows, K)
  <2>1. PICK S : rows \in Seq(S)
    BY DEF PassInv
  <2> DEFINE R == {r \in S : r.ok}
  <2>2. known \in Seq(R)
    <3>1. K \in SUBSET DOMAIN rows /\ \A k \in K : rows[k] \in R
      BY <2>1
    <3> HIDE DEF K, R, rows
    <3> QED
      BY <2>1, <3>1, ThoseAmong
  <2>3. \A i \in DOMAIN known : known[i].ok
    <3> HIDE DEF known
    <3>1. \A i \in DOMAIN known : known[i] \in R
      BY <2>2
    <3> QED
      BY <3>1
  <2>4. Fresh = InOrder(Rerun, known)
    BY <1>2 DEF Fresh, OkRows, Those
  <2> HIDE DEF known, R
  <2> QED
    BY <1>1, <2>2, <2>3, <2>4, MadeInOrder
<1>3. CASE profile.graph.mode = "off"
  <2> DEFINE names == Rerun
             row(v) == RunOne(v, tool[v])
             S == {row(v) : v \in Askable}
  <2>1. Fresh = [i \in DOMAIN names |-> row(names[i])]
    BY <1>3 DEF Fresh
  <2>2. \A v : row(v).name = v /\ row(v).status # "skipped_dependency"
    BY RowOfOne
  <2> HIDE DEF names, row
  <2>3. names \in Seq(Askable) /\ DOMAIN names = 1..Len(names) /\ Len(names) \in Nat
    BY <1>1 DEF names
  <2>4. Fresh \in Seq(S) /\ DOMAIN Fresh = DOMAIN names /\ \A i \in DOMAIN names : Fresh[i] = row(names[i])
    <3>1. \A i \in 1..Len(names) : row(names[i]) \in S
      BY <2>3
    <3> HIDE DEF S
    <3>2. Fresh \in [1..Len(names) -> S]
      BY <2>1, <2>3, <3>1
    <3> QED
      BY <2>1, <2>3, <3>2
  <2>5. Names(Fresh) = Range(names)
    BY <2>2, <2>4 DEF Names, Range
  <2>6. ASSUME NEW v \in Range(names) \ job.soft, ~ Blocks(ByName(Fresh)[v], job.soft)
        PROVE  ByName(Fresh)[v].ok
    <3>1. PICK i \in DOMAIN Fresh : Fresh[i].name = v /\ ByName(Fresh)[v] = Fresh[i]
      BY <2>5, RowNamed
    <3> QED
      BY <2>2, <2>4, <2>6, <3>1 DEF Blocks
  <2> HIDE DEF S
  <2>7. \E T : Fresh \in Seq(T)
    BY <2>4
  <2> QED
    BY <2>5, <2>6, <2>7 DEF Rows, names
<1> QED
  BY <1>2, <1>3

(* What the rows of an attempt say of the validators of a task.            *)
Told(rows) ==
  /\ \E S : rows \in Seq(S)
  /\ Range(job.run) \subseteq Names(rows)
  /\ ValidationsOk(rows, job.soft) /\ ~ profile.graph.soft =>
       \A v \in Range(job.run) \ job.soft : \E r \in Range(rows) : r.name = v /\ r.ok

LEMMA FirstTold ==
  ASSUME Listed, PassInv
  PROVE  Told(FirstRows)
<1>0. job.run \in Seq(Askable) /\ IsInjective(job.run)
  BY DEF PassInv
<1>1. CASE profile.graph.mode # "off"
  <2> DEFINE none == <<>>
             rows == InOrder(job.run, none)
  <2>1. none \in Seq({}) /\ DOMAIN none = {}
    OBVIOUS
  <2>2. FirstRows = rows
    BY <1>1 DEF FirstRows
  <2> HIDE DEF none
  <2>3. Rows(rows, job.run)
    BY <1>0, <2>1, MadeInOrder
  <2> HIDE DEF rows
  <2>4. ASSUME ValidationsOk(rows, job.soft), NEW v \in Range(job.run)
        PROVE  ~ Blocks(ByName(rows)[v], job.soft) /\ ByName(rows)[v] \in Range(rows) /\ ByName(rows)[v].name = v
    <3>1. PICK i \in DOMAIN rows : rows[i].name = v /\ ByName(rows)[v] = rows[i]
      BY <2>3, RowNamed DEF Rows
    <3> QED
      BY <2>4, <3>1 DEF ValidationsOk, Range
  <2> QED
    BY <2>2, <2>3, <2>4 DEF Told, Rows
<1>2. CASE profile.graph.mode = "off"
  <2> DEFINE rows == RunAll(job.run, job.soft, tool)
  <2>1. FirstRows = rows
    BY <1>2 DEF FirstRows
  <2>2. \E S : rows \in Seq(S)
    <3> DEFINE H == {i \in DOMAIN job.run : job.run[i] \notin job.soft}
               F == {i \in DOMAIN job.run : job.run[i] \in job.soft}
               h == Kept(job.run, H)
               f == Kept(job.run, F)
               order == h \o f
               S == {RunOne(v, tool[v]) : v \in Askable}
    <3>1. rows = [i \in DOMAIN order |-> RunOne(order[i], tool[order[i]])]
      BY DEF RunAll, Those
    <3>2. h \in Seq(Askable) /\ f \in Seq(Askable)
      <4>1. H \in SUBSET DOMAIN job.run /\ F \in SUBSET DOMAIN job.run
        OBVIOUS
      <4> HIDE DEF H, F
      <4> QED
        BY <1>0, <4>1, KeptThose
    <3> HIDE DEF h, f
    <3>3. order \in Seq(Askable)
      BY <3>2
    <3> HIDE DEF order
    <3>4. \A i \in 1..Len(order) : RunOne(order[i], tool[order[i]]) \in S
      BY <3>3
    <3> HIDE DEF S, rows
    <3>5. rows \in Seq(S)
      BY <3>1, <3>3, <3>4
    <3> QED
      BY <3>5
  <2>3. \A v \in Range(job.run) : \E i \in DOMAIN rows : rows[i] = RunOne(v, tool[v])
    BY <1>0, AllRun
  <2> HIDE DEF rows
  <2>4. Range(job.run) \subseteq Names(rows)
    BY <2>3, RowOfOne DEF Names
  <2>5. ASSUME ValidationsOk(rows, job.soft), NEW v \in Range(job.run) \ job.soft
        PROVE  \E r \in Range(rows) : r.name = v /\ r.ok
    <3>1. PICK i \in DOMAIN rows : rows[i] = RunOne(v, tool[v])
      BY <2>3
    <3>2. rows[i].name = v /\ rows[i].status # "skipped_dependency" /\ rows[i] \in Range(rows)
      BY <3>1, RowOfOne DEF Range
    <3> QED
      BY <2>5, <3>2 DEF ValidationsOk, Blocks
  <2> QED
    BY <2>1, <2>2, <2>4, <2>5 DEF Told
<1> QED
  BY <1>1, <1>2

LEMMA MergedTold ==
  ASSUME Listed, PassInv, job.rows # <<>>
  PROVE  Told(Merge(job.rows, Fresh))
<1> DEFINE old == job.rows
           fresh == Fresh
           K == {i \in DOMAIN job.run : job.run[i] \in Names(old) \cup Names(fresh)}
           order == Kept(job.run, K)
           row(v) == IF v \in Names(fresh) THEN ByName(fresh)[v] ELSE ByName(old)[v]
           rows == Merge(old, fresh)
           S == {row(v) : v \in Askable}
<1>1. /\ job.run \in Seq(Askable) /\ IsInjective(job.run)
      /\ Range(job.run) \subseteq Names(old)
  BY DEF PassInv
<1>2. rows = [i \in DOMAIN order |-> row(order[i])]
  BY DEF Merge, Those
<1>3. /\ Rows(fresh, Rerun) /\ Range(Rerun) \subseteq Range(job.run)
      /\ \A v \in Range(job.run) \ Range(Rerun) : \A i \in DOMAIN old : old[i].name = v => old[i].ok
  BY <1>1, FreshRows, RerunListed
<1>4. order \in Seq(Askable) /\ Range(order) = Range(job.run)
  <2>1. K \in SUBSET DOMAIN job.run /\ \A i \in K : job.run[i] \in Askable
    BY <1>1
  <2>2. K = DOMAIN job.run
    BY <1>1 DEF Range
  <2> HIDE DEF K
  <2>3. order \in Seq(Askable) /\ Range(order) = {job.run[i] : i \in K}
    BY <1>1, <2>1, ThoseAmong
  <2> QED
    BY <2>2, <2>3 DEF Range
<1> HIDE DEF order, rows, row
<1>5. rows \in Seq(S) /\ DOMAIN rows = DOMAIN order /\ \A i \in DOMAIN order : rows[i] = row(order[i])
  <2>1. DOMAIN order = 1..Len(order) /\ Len(order) \in Nat /\ \A i \in 1..Len(order) : row(order[i]) \in S
    BY <1>4
  <2> HIDE DEF S
  <2>2. rows \in [1..Len(order) -> S]
    BY <1>2, <2>1
  <2> QED
    BY <1>2, <2>1, <2>2
<1>6. \A v \in Range(job.run) : row(v).name = v /\ row(v) \in Range(rows)
  <2> TAKE v \in Range(job.run)
  <2>1. PICK i \in DOMAIN order : order[i] = v
    BY <1>4 DEF Range
  <2>2. row(v) \in Range(rows)
    BY <1>5, <2>1 DEF Range
  <2>3. CASE v \in Names(fresh)
    BY <2>2, <2>3, RowNamed DEF row
  <2>4. CASE v \notin Names(fresh)
    <3>1. v \in Names(old)
      BY <1>1
    <3> HIDE DEF old
    <3> QED
      BY <2>2, <2>4, <3>1, RowNamed DEF row
  <2> QED
    BY <2>3, <2>4
<1>7. Range(job.run) \subseteq Names(rows)
  BY <1>6 DEF Names, Range
<1>8. ASSUME ValidationsOk(rows, job.soft), ~ profile.graph.soft, NEW v \in Range(job.run) \ job.soft
      PROVE  \E r \in Range(rows) : r.name = v /\ r.ok
  <2>1. \A x \in Range(job.run) : ~ Blocks(row(x), job.soft)
    BY <1>6, <1>8 DEF ValidationsOk, Range
  <2>2. CASE v \in Names(fresh)
    <3>1. Names(fresh) = Range(Rerun)
      BY <1>3 DEF Rows
    <3>2. \A x \in Range(Rerun) : ~ Blocks(ByName(fresh)[x], job.soft)
      BY <1>3, <2>1, <3>1 DEF row
    <3>3. ByName(fresh)[v].ok
      BY <1>3, <1>8, <2>2, <3>1, <3>2 DEF Rows
    <3> QED
      BY <1>6, <2>2, <3>3 DEF row
  <2>3. CASE v \notin Names(fresh)
    <3>1. v \in Range(job.run) \ Range(Rerun) /\ v \in Names(old)
      BY <1>1, <1>3, <2>3 DEF Rows
    <3>2. PICK i \in DOMAIN old : old[i].name = v /\ ByName(old)[v] = old[i]
      <4> HIDE DEF old
      <4> QED
        BY <3>1, RowNamed
    <3>3. row(v).ok
      BY <1>3, <2>3, <3>1, <3>2 DEF row
    <3> QED
      BY <1>6, <3>3
  <2> QED
    BY <2>2, <2>3
<1> HIDE DEF S
<1> QED
  BY <1>5, <1>7, <1>8 DEF Told, rows

LEMMA RowsTell ==
  ASSUME Listed, PassInv
  PROVE  Told(NewRows)
BY FirstTold, MergedTold DEF NewRows

LEMMA PassInit == Init => PassInv
<1> SUFFICES ASSUME Init
             PROVE  PassInv
  OBVIOUS
<1>1. lasts = <<>> /\ job = NoJob /\ NoJob.run = <<>> /\ NoJob.rows = <<>>
  BY DEF Init, NoJob
<1> DEFINE none == <<>>
<1>2. none \in Seq({}) /\ none \in Seq(Askable) /\ IsInjective(none)
  BY DEF IsInjective
<1> QED
  BY <1>1, <1>2 DEF PassInv

LEMMA PassKept ==
  ASSUME PassInv, UNCHANGED profile,
         lasts' = lasts \/ lasts' = <<>> \/ \E rows : lasts' = Append(lasts, rows),
         \/ DOMAIN job' = DOMAIN job /\ job'.run = job.run /\ job'.rows = job.rows
         \/ job' = NoJob
  PROVE  PassInv'
<1>1. Askable' = Askable
  BY DEF Askable
<1>2. \E S : lasts' \in Seq(S)
  <2>1. PICK S : lasts \in Seq(S)
    BY DEF PassInv
  <2>2. CASE \E rows : lasts' = Append(lasts, rows)
    <3>1. PICK rows : lasts' = Append(lasts, rows)
      BY <2>2
    <3> DEFINE T == S \cup {rows}
    <3>2. lasts \in Seq(T) /\ rows \in T
      BY <2>1
    <3> HIDE DEF T
    <3>3. lasts' \in Seq(T)
      BY <3>1, <3>2
    <3> QED
      BY <3>3
  <2>3. CASE lasts' = <<>>
    <3>1. lasts' \in Seq({})
      BY <2>3
    <3> QED
      BY <3>1
  <2> QED
    BY <2>1, <2>2, <2>3
<1>3. CASE job' = NoJob
  <2>1. NoJob.run = <<>> /\ NoJob.rows = <<>>
    BY DEF NoJob
  <2> DEFINE none == <<>>
  <2>2. none \in Seq({}) /\ none \in Seq(Askable) /\ IsInjective(none)
    BY DEF IsInjective
  <2> QED
    BY <1>1, <1>2, <1>3, <2>1, <2>2 DEF PassInv
<1>4. CASE DOMAIN job' = DOMAIN job /\ job'.run = job.run /\ job'.rows = job.rows
  <2>1. DOMAIN NoJob' = DOMAIN NoJob
    BY DEF NoJob
  <2>2. Names(job'.rows) = Names(job.rows)
    BY <1>4
  <2> QED
    BY <1>1, <1>2, <1>4, <2>1, <2>2 DEF PassInv
<1> QED
  BY <1>3, <1>4

LEMMA PassNext == Listed /\ PassInv /\ [Next]_vars => PassInv'
<1> SUFFICES ASSUME Listed, PassInv, [Next]_vars
             PROVE  PassInv'
  OBVIOUS
<1>1. CASE RunBegins \/ EnsureVenv \/ VenvMade \/ AlreadyInstalled \/ PipInstalls \/ WriteStamp \/ Edit
  <2>1. UNCHANGED <<profile, lasts, job>>
    BY <1>1 DEF RunBegins, EnsureVenv, VenvMade, AlreadyInstalled, PipInstalls, WriteStamp, Edit, work
  <2> QED
    BY <2>1, PassKept
<1>2. CASE Implement
  <2>1. UNCHANGED <<profile, lasts>> /\ cur <= Len(profile.tasks)
    BY <1>2 DEF Implement
  <2> DEFINE scoped(files) == Scoped(profile.scope, Selected.run, files)
             soft == profile.taskSoft \cup Selected.promoted
             begun(files) == job' = [NoJob EXCEPT !.run = scoped(files), !.soft = soft]
  <2>2. PICK files : begun(files)
    <3>1. \E files \in profile.changes : Changed(files) /\ begun(files)
      BY ONLY <1>2, Zenon DEF Implement
    <3> HIDE DEF begun
    <3> QED
      BY <3>1
  <2> DEFINE run == scoped(files)
  <2>3. run \in Seq(Askable) /\ IsInjective(run)
    BY <2>1, RunListed
  <2>4. job'.run = run /\ job'.rows = <<>> /\ DOMAIN job' = DOMAIN NoJob
    BY <2>2 DEF NoJob
  <2> HIDE DEF run
  <2>5. Askable' = Askable /\ DOMAIN NoJob' = DOMAIN NoJob
    BY <2>1 DEF Askable, NoJob
  <2> DEFINE none == <<>>
  <2>6. none \in Seq({})
    OBVIOUS
  <2> QED
    BY <2>1, <2>3, <2>4, <2>5, <2>6 DEF PassInv
<1>3. CASE Validate
  <2>1. UNCHANGED profile /\ UNCHANGED tool
    BY <1>3 DEF Validate
  <2>2. CASE ValidationsOk(NewRows, job.soft)
    <3>1. lasts' = Append(lasts, NewRows) /\ job' = NoJob
      BY <1>3, <2>2 DEF Validate, Ended
    <3> QED
      BY <2>1, <3>1, PassKept
  <2>3. CASE ~ ValidationsOk(NewRows, job.soft)
    <3> DEFINE rows == NewRows
    <3>1. lasts' = lasts /\ job' = [job EXCEPT !.rows = rows]
      BY <1>3, <2>3 DEF Validate
    <3>2. Told(rows)
      BY RowsTell
    <3> HIDE DEF rows
    <3>3. "rows" \in DOMAIN NoJob /\ DOMAIN NoJob' = DOMAIN NoJob
      BY DEF NoJob
    <3>4. DOMAIN job' = DOMAIN job /\ job'.rows = rows /\ job'.run = job.run
      BY <3>1, <3>3 DEF PassInv
    <3>5. Askable' = Askable
      BY <2>1 DEF Askable
    <3> QED
      BY <3>1, <3>2, <3>3, <3>4, <3>5 DEF PassInv, Told
  <2> QED
    BY <2>2, <2>3
<1>4. CASE TaskFails
  <2>1. UNCHANGED profile /\ lasts' = Append(lasts, job.rows) /\ job' = NoJob
    BY <1>4 DEF TaskFails, Ended
  <2> QED
    BY <2>1, PassKept
<1>5. CASE AskFixer
  <2> DEFINE signature == Signature(job.rows)
             same == signature # <<>> /\ signature = job.signature
             repeat == Repeats(signature)
             strikes == Strikes(job.strikes, AllPrints(job.rows))
             e == Escalation(profile.guard, repeat, strikes, same, job.used)
             level == e.level
             used == job.used \/ e.mode # "normal"
             told == [strategy |-> Strategy(job.rows), hints |-> Hints(repairs, job.rows)]
             asked == AskedGroups(profile.fixers, job.rows)
             loops == job.loops + 1
  <2>1. UNCHANGED <<profile, lasts>>
    BY <1>5 DEF AskFixer
  <2>2. job' = [job EXCEPT !.loops = loops, !.signature = signature, !.repeat = repeat,
                           !.strikes = strikes, !.level = level, !.used = used, !.told = told,
                           !.asked = asked]
    BY <1>5 DEF AskFixer
  <2>3. "run" \in DOMAIN job /\ "rows" \in DOMAIN job
    BY DEF PassInv, NoJob
  <2> HIDE DEF signature, same, repeat, strikes, e, level, used, told, asked, loops
  <2> DEFINE first == [job EXCEPT !.loops = loops, !.signature = signature, !.repeat = repeat,
                                  !.strikes = strikes]
  <2>4. DOMAIN first = DOMAIN job /\ first.run = job.run /\ first.rows = job.rows
    BY <2>3
  <2>5. job' = [first EXCEPT !.level = level, !.used = used, !.told = told, !.asked = asked]
    BY <2>2
  <2> HIDE DEF first
  <2>6. DOMAIN job' = DOMAIN job /\ job'.run = job.run /\ job'.rows = job.rows
    BY <2>3, <2>4, <2>5
  <2> QED
    BY <2>1, <2>6, PassKept
<1>6. CASE FixersAnswer
  <2> DEFINE given(reply) == [k \in {k \in DOMAIN reply : reply[k] # <<>>} |->
                                [category |-> job.asked[k].category, changes |-> reply[k]]]
             merged(reply) == Merged(given(reply))
             none == <<>>
  <2>1. UNCHANGED <<profile, lasts>>
    BY <1>6 DEF FixersAnswer
  <2>2. PICK reply \in [DOMAIN job.asked -> Lists \cup {<<>>}] :
          job' = [job EXCEPT !.asked = none] \/ job' = [job EXCEPT !.fix = merged(reply)]
    BY <1>6 DEF FixersAnswer
  <2>3. "run" \in DOMAIN job /\ "rows" \in DOMAIN job
    BY DEF PassInv, NoJob
  <2> DEFINE fix == merged(reply)
  <2>5. job' = [job EXCEPT !.asked = none] \/ job' = [job EXCEPT !.fix = fix]
    BY <2>2
  <2> HIDE DEF fix, none
  <2>4. DOMAIN job' = DOMAIN job /\ job'.run = job.run /\ job'.rows = job.rows
    BY <2>3, <2>5
  <2> QED
    BY <2>1, <2>4, PassKept
<1>7. CASE ApplyFix
  <2>1. UNCHANGED <<profile, lasts>> /\ DOMAIN job' = DOMAIN job /\ job'.run = job.run /\ job'.rows = job.rows
    BY <1>7 DEF ApplyFix
  <2> QED
    BY <2>1, PassKept
<1>8. CASE FinalValidation \/ PerfRepair \/ RunEnds
  <2>1. UNCHANGED <<profile, lasts, job>>
    BY <1>8 DEF FinalValidation, PerfRepair, RunEnds
  <2> QED
    BY <2>1, PassKept
<1>9. CASE Leave \/ Crash
  <2>1. UNCHANGED profile /\ lasts' = <<>> /\ job' = NoJob
    BY <1>9 DEF Leave, Crash, Cleared
  <2> QED
    BY <2>1, PassKept
<1>10. CASE UNCHANGED vars
  BY <1>10, PassKept DEF vars
<1> QED
  BY <1>1, <1>2, <1>3, <1>4, <1>5, <1>6, <1>7, <1>8, <1>9, <1>10 DEF Next

(* A task passes only when every hard validator of its run set has a       *)
(* passed row, whatever was skipped behind a failure, rerun or kept.       *)
THEOREM PassesEarned == Spec => PassIsEarned
<1>1. ASSUME Listed, PassInv, [Next]_vars, phase = "validate", phase' = "tasks", ~ profile.graph.soft,
             NEW v \in Range(job.run) \ job.soft
      PROVE  \E r \in Range(Last(lasts')) : r.name = v /\ r.ok
  <2>1. Validate
    BY <1>1 DEF Next, RunBegins, EnsureVenv, VenvMade, AlreadyInstalled, PipInstalls, WriteStamp, Implement,
                TaskFails, AskFixer, FixersAnswer, ApplyFix, FinalValidation, PerfRepair, RunEnds, Leave,
                Crash, Edit, vars
  <2> DEFINE rows == NewRows
  <2>2. ValidationsOk(rows, job.soft) /\ lasts' = Append(lasts, rows)
    BY <1>1, <2>1 DEF Validate, Ended
  <2>3. Told(rows)
    BY <1>1, RowsTell
  <2> HIDE DEF rows
  <2>4. Last(lasts') = rows
    <3>1. PICK S : lasts \in Seq(S)
      BY <1>1 DEF PassInv
    <3>2. Last(Append(lasts, rows)) = Append(lasts, rows)[Len(lasts) + 1]
      BY <3>1 DEF Last
    <3> QED
      BY <2>2, <3>1, <3>2
  <2> QED
    BY <1>1, <2>2, <2>3, <2>4 DEF Told
<1>2. Listed /\ PassInv /\ [Next]_vars =>
        (phase = "validate" /\ phase' = "tasks" /\ ~ profile.graph.soft =>
           \A v \in Range(job.run) \ job.soft : \E r \in Range(Last(lasts')) : r.name = v /\ r.ok)
  BY <1>1
<1>3. Spec => []Listed
  <2>1. SkipInv => Listed
    BY DEF SkipInv
  <2> QED
    BY <2>1, SkipInit, SkipNext, PTL DEF Spec
<1>4. Spec => []PassInv
  BY <1>3, PassInit, PassNext, PTL DEF Spec
<1> QED
  BY <1>2, <1>3, <1>4, PTL DEF Spec, PassIsEarned
=============================================================================
