-------------------------- MODULE LLMClientProofs --------------------------
(***************************************************************************)
(* Theorems about LLMClient, for any number of calls, endpoints, retries   *)
(* and tokens.                                                             *)
(***************************************************************************)
EXTENDS LLMClient, FiniteSetTheorems, TLAPS

(* The calls at one of the places of S. *)
At(S) == {c \in Calls : pc[c] \in S}

(* The places of a call whose chat has neither returned nor failed. *)
Open == InFlight \cup {"cancelled"}

(* A chat under way has an endpoint. *)
Addressed == \A c \in Calls : pc[c] \in InFlight => endpoint[c] # None

IInv == TypeOK /\ Addressed /\ BudgetCaps /\ ChatsAccounted

(* When one call moves, a set of places gains it, loses it or keeps its    *)
(* number of calls (the assignments of pc).                                *)
LEMMA OneMoves ==
  ASSUME pc \in [Calls -> PC], NEW c \in Calls, NEW v \in PC, NEW S \in SUBSET PC,
         pc' = [pc EXCEPT ![c] = v]
  PROVE  /\ Cardinality(At(S)) \in Nat /\ Cardinality(At(S)') \in Nat
         /\ v \in S /\ pc[c] \notin S => Cardinality(At(S)') = Cardinality(At(S)) + 1
         /\ v \notin S /\ pc[c] \in S => Cardinality(At(S)') = Cardinality(At(S)) - 1
         /\ (v \in S <=> pc[c] \in S) => Cardinality(At(S)') = Cardinality(At(S))
<1>1. IsFiniteSet(At(S)) /\ IsFiniteSet(At(S)')
  BY FS_Subset, LimitAssumption DEF At
<1>2. Cardinality(At(S)) \in Nat /\ Cardinality(At(S)') \in Nat
  BY <1>1, FS_CardinalityType
<1>3. ASSUME v \in S, pc[c] \notin S
      PROVE  Cardinality(At(S)') = Cardinality(At(S)) + 1
  <2>1. At(S)' = At(S) \cup {c} /\ c \notin At(S)
    BY <1>3 DEF At
  <2>. QED
    BY <1>1, <2>1, FS_AddElement
<1>4. ASSUME v \notin S, pc[c] \in S
      PROVE  Cardinality(At(S)') = Cardinality(At(S)) - 1
  <2>1. At(S)' = At(S) \ {c} /\ c \in At(S)
    BY <1>4 DEF At
  <2>. QED
    BY <1>1, <2>1, FS_RemoveElement
<1>5. ASSUME v \in S <=> pc[c] \in S
      PROVE  Cardinality(At(S)') = Cardinality(At(S))
  <2>1. At(S)' = At(S)
    BY <1>5 DEF At
  <2>. QED
    BY <2>1
<1>. QED
  BY <1>2, <1>3, <1>4, <1>5

----------------------------------------------------------------------------

(* ModelRouter.resolve always finds an endpoint. *)
LEMMA StartInRange ==
  ASSUME NEW c \in Calls
  PROVE  StartOf(c) \in DOMAIN Endpoints
<1>1. 1 \in DOMAIN Endpoints
  BY RouterAssumption
<1>. QED
  BY <1>1 DEF StartOf

(* Every variable keeps its type, and a chat under way its endpoint. *)
LEMMA TypeStep ==
  TypeOK /\ Addressed /\ [Next]_vars => TypeOK' /\ Addressed'
<1>. SUFFICES ASSUME TypeOK, Addressed, Next PROVE TypeOK' /\ Addressed'
  BY DEF TypeOK, Addressed, vars, counters, history
<1>. PICK c \in Calls : Step(c) \/ Cancelled(c)
  BY DEF Next
<1>. USE LimitAssumption, NoneAssumption DEF TypeOK, Addressed, PC, InFlight, Ended
<1>1. CASE ChatBegins(c)
  <2>1. Endpoints[StartOf(c)] \in {Endpoints[i] : i \in DOMAIN Endpoints}
    BY StartInRange
  <2>. QED
    BY <1>1, <2>1 DEF ChatBegins
<1>2. CASE Answered(c)
  BY <1>2 DEF Answered, Counted, counters
<1>3. CASE BudgetExceeded(c)
  BY <1>3 DEF BudgetExceeded, ChatFails, history
<1>4. CASE NotText(c)
  BY <1>4 DEF NotText, Counted, ChatFails, history
<1>5. CASE RetryableError(c)
  <2>1. PICK f \in {Endpoints[i] : i \in DOMAIN Endpoints} : endpoint' = [endpoint EXCEPT ![c] = f]
    BY <1>5 DEF RetryableError
  <2>2. CASE GivesUp(c)
    BY <1>5, <2>1, <2>2 DEF RetryableError, ChatFails, history
  <2>3. CASE ~ GivesUp(c)
    BY <1>5, <2>1, <2>3 DEF RetryableError, GivesUp, history
  <2>. QED
    BY <2>2, <2>3
<1>6. CASE FatalError(c)
  BY <1>6 DEF FatalError, ChatFails, history
<1>7. CASE BackoffEnds(c)
  <2>1. endpoint[c] \in {Endpoints[i] : i \in DOMAIN Endpoints}
    BY <1>7 DEF BackoffEnds
  <2>. QED
    BY <1>7, <2>1 DEF BackoffEnds, counters
<1>8. CASE Cancelled(c)
  BY <1>8 DEF Cancelled, counters, history
<1>. QED
  BY <1>1, <1>2, <1>3, <1>4, <1>5, <1>6, <1>7, <1>8 DEF Step

(* The token count stays within the budget plus one answer for every call  *)
(* that was refused: an answer that passes the budget refuses its call.    *)
LEMMA BudgetStep ==
  TypeOK /\ BudgetCaps /\ [Next]_vars => BudgetCaps'
<1>. DEFINE refused == At({"refused"})
<1>1. /\ BudgetCaps <=> tokens <= MaxTokens + MaxUsage * Cardinality(refused)
      /\ BudgetCaps' <=> tokens' <= MaxTokens + MaxUsage * Cardinality(refused')
  <2>1. refused = {c \in Calls : pc[c] = "refused"} /\ refused' = {c \in Calls : pc'[c] = "refused"}
    BY DEF At
  <2>. HIDE DEF refused
  <2>. QED
    BY <2>1 DEF BudgetCaps
<1>2. ASSUME UNCHANGED <<tokens, pc>>
      PROVE  BudgetCaps => BudgetCaps'
  BY <1>2 DEF BudgetCaps
<1>. SUFFICES ASSUME TypeOK, BudgetCaps, Next PROVE BudgetCaps'
  BY <1>2 DEF vars
<1>. PICK c \in Calls : Step(c) \/ Cancelled(c)
  BY DEF Next
<1>3. pc \in [Calls -> PC] /\ tokens \in Nat
  BY DEF TypeOK
<1>4. IsFiniteSet(refused) /\ Cardinality(refused) \in Nat
  BY LimitAssumption, FS_Subset, FS_CardinalityType DEF At
<1>5. ASSUME NEW v \in PC, v # "refused", pc[c] # "refused", pc' = [pc EXCEPT ![c] = v],
             tokens' \in Nat, tokens' <= MaxTokens \/ tokens' = tokens
      PROVE  BudgetCaps'
  <2>1. Cardinality(refused') = Cardinality(refused)
    <3>1. v \notin {"refused"} /\ pc[c] \notin {"refused"} /\ {"refused"} \in SUBSET PC
      BY <1>5 DEF PC, Ended
    <3>. QED
      BY <1>3, <1>5, <3>1, OneMoves
  <2>2. MaxUsage * Cardinality(refused) \in Nat
    BY <1>4, LimitAssumption
  <2>. HIDE DEF refused
  <2>. QED
    BY <1>1, <1>3, <1>5, <2>1, <2>2, LimitAssumption
<1>6. ASSUME pc[c] # "refused", pc' = [pc EXCEPT ![c] = "refused"],
             tokens' \in Nat, NEW u \in 0..MaxUsage, tokens' <= tokens + u
      PROVE  BudgetCaps'
  <2>1. Cardinality(refused') = Cardinality(refused) + 1
    BY <1>3, <1>6, OneMoves DEF PC, Ended
  <2>. DEFINE n == Cardinality(refused)
  <2>2. MaxUsage * (n + 1) = MaxUsage * n + MaxUsage /\ MaxUsage * n \in Nat
    BY <1>4, LimitAssumption
  <2>3. tokens <= MaxTokens + MaxUsage * n
    BY <1>1
  <2>4. tokens + u <= MaxTokens + (MaxUsage * n + MaxUsage)
    <3>. HIDE DEF n
    <3>. QED
      BY <1>3, <1>6, <2>2, <2>3, LimitAssumption
  <2>5. Cardinality(refused') = n + 1
    BY <2>1
  <2>6. MaxUsage * Cardinality(refused') = MaxUsage * n + MaxUsage
    BY <2>2, <2>5
  <2>7. tokens' <= MaxTokens + (MaxUsage * n + MaxUsage)
    <3>. HIDE DEF n
    <3>. QED
      BY <1>3, <1>6, <2>2, <2>4, LimitAssumption
  <2>. QED
    BY <1>1, <2>6, <2>7
<1>. USE LimitAssumption DEF PC, Ended
<1>7. CASE ChatBegins(c)
  BY <1>3, <1>5, <1>7 DEF ChatBegins, InFlight
<1>8. CASE Answered(c)
  <2>1. PICK v \in PC : v # "refused" /\ pc' = [pc EXCEPT ![c] = v]
    BY <1>8 DEF Answered
  <2>2. tokens' \in Nat
    BY <1>3, <1>8 DEF Answered, Counted
  <2>3. tokens' <= MaxTokens \/ tokens' = tokens
    BY <1>3, <1>8 DEF Answered, Counted, OverBudget
  <2>. QED
    BY <1>5, <1>8, <2>1, <2>2, <2>3 DEF Answered
<1>9. CASE BudgetExceeded(c)
  BY <1>3, <1>6, <1>9 DEF BudgetExceeded, ChatFails
<1>10. CASE NotText(c)
  BY <1>3, <1>6, <1>10 DEF NotText, Counted, ChatFails
<1>11. CASE RetryableError(c)
  <2>1. PICK v \in PC : v # "refused" /\ pc' = [pc EXCEPT ![c] = v]
    BY <1>11 DEF RetryableError, ChatFails, InFlight
  <2>. QED
    BY <1>3, <1>5, <1>11, <2>1 DEF RetryableError
<1>12. CASE FatalError(c)
  BY <1>3, <1>6, <1>12 DEF FatalError, ChatFails
<1>13. CASE BackoffEnds(c)
  BY <1>3, <1>5, <1>13 DEF BackoffEnds, InFlight
<1>14. CASE Cancelled(c)
  BY <1>3, <1>5, <1>14 DEF Cancelled, InFlight
<1>. QED
  BY <1>7, <1>8, <1>9, <1>10, <1>11, <1>12, <1>13, <1>14 DEF Step

(* chat_calls counts a chat when it is sent and failed_chat_calls when it  *)
(* raises; in between it is open, and a cancelled one stays so.            *)
LEMMA CountStep ==
  TypeOK /\ ChatsAccounted /\ [Next]_vars => ChatsAccounted'
<1>. DEFINE n == Cardinality(At(Open))
<1>1. /\ ChatsAccounted <=> chats = answered + failedChats + n
      /\ ChatsAccounted' <=> chats' = answered' + failedChats' + n'
  <2>1. /\ At(Open) = {c \in Calls : pc[c] \in InFlight \cup {"cancelled"}}
        /\ At(Open)' = {c \in Calls : pc'[c] \in InFlight \cup {"cancelled"}}
    BY DEF At, Open
  <2>. QED
    BY <2>1 DEF ChatsAccounted
<1>2. ASSUME UNCHANGED vars
      PROVE  ChatsAccounted => ChatsAccounted'
  BY <1>2 DEF ChatsAccounted, vars, counters, history
<1>. SUFFICES ASSUME TypeOK, ChatsAccounted, Next PROVE ChatsAccounted'
  BY <1>2
<1>. PICK c \in Calls : Step(c) \/ Cancelled(c)
  BY DEF Next
<1>3. /\ pc \in [Calls -> PC]
      /\ chats \in Nat /\ failedChats \in Nat /\ answered \in Nat
      /\ Open \in SUBSET PC
  BY DEF TypeOK, Open, PC, InFlight, Ended
(* A chat is sent. *)
<1>4. ASSUME NEW v \in PC, v \in Open, pc[c] \notin Open, pc' = [pc EXCEPT ![c] = v],
             chats' = chats + 1, UNCHANGED <<failedChats, answered>>
      PROVE  ChatsAccounted'
  <2>1. n' = n + 1 /\ n \in Nat
    BY <1>3, <1>4, OneMoves
  <2>. HIDE DEF n
  <2>. QED
    BY <1>1, <1>3, <1>4, <2>1
(* A chat returns or raises. *)
<1>5. ASSUME NEW v \in PC, v \notin Open, pc[c] \in Open, pc' = [pc EXCEPT ![c] = v],
             chats' = chats,
             \/ answered' = answered + 1 /\ failedChats' = failedChats
             \/ answered' = answered /\ failedChats' = failedChats + 1
      PROVE  ChatsAccounted'
  <2>1. n' = n - 1 /\ n \in Nat
    BY <1>3, <1>5, OneMoves
  <2>. HIDE DEF n
  <2>. QED
    BY <1>1, <1>3, <1>5, <2>1
(* A chat stays open. *)
<1>6. ASSUME NEW v \in PC, v \in Open, pc[c] \in Open, pc' = [pc EXCEPT ![c] = v],
             UNCHANGED <<chats, failedChats, answered>>
      PROVE  ChatsAccounted'
  <2>1. n' = n
    BY <1>3, <1>6, OneMoves
  <2>. HIDE DEF n
  <2>. QED
    BY <1>1, <1>6, <2>1
<1>7. /\ "posted" \in Open /\ "waiting" \in Open /\ "cancelled" \in Open
      /\ \A v \in {"ready", "done", "malformed", "exhausted", "refused"} : v \in PC /\ v \notin Open
      /\ "posted" \in PC /\ "waiting" \in PC /\ "cancelled" \in PC
  BY DEF Open, InFlight, PC, Ended
<1>8. CASE ChatBegins(c)
  BY <1>4, <1>7, <1>8 DEF ChatBegins
<1>9. CASE Answered(c)
  <2>1. PICK v \in {"done", "ready", "malformed"} : pc' = [pc EXCEPT ![c] = v]
    BY <1>9 DEF Answered
  <2>. QED
    BY <1>3, <1>5, <1>7, <1>9, <2>1 DEF Answered, counters
<1>10. CASE BudgetExceeded(c)
  BY <1>3, <1>5, <1>7, <1>10 DEF BudgetExceeded, ChatFails, history
<1>11. CASE NotText(c)
  BY <1>3, <1>5, <1>7, <1>11 DEF NotText, ChatFails, history
<1>12. CASE RetryableError(c)
  <2>1. CASE GivesUp(c)
    BY <1>3, <1>5, <1>7, <1>12, <2>1 DEF RetryableError, ChatFails, history
  <2>2. CASE ~ GivesUp(c)
    BY <1>6, <1>7, <1>12, <2>2 DEF RetryableError, history
  <2>. QED
    BY <2>1, <2>2
<1>13. CASE FatalError(c)
  BY <1>3, <1>5, <1>7, <1>13 DEF FatalError, ChatFails, history
<1>14. CASE BackoffEnds(c)
  BY <1>6, <1>7, <1>14 DEF BackoffEnds, counters
<1>15. CASE Cancelled(c)
  BY <1>6, <1>7, <1>15 DEF Cancelled, Open, counters, history
<1>. QED
  BY <1>8, <1>9, <1>10, <1>11, <1>12, <1>13, <1>14, <1>15 DEF Step

(* No call has begun. *)
LEMMA InitIInv == Init => IInv
<1>. SUFFICES ASSUME Init PROVE IInv
  OBVIOUS
<1>1. TypeOK /\ Addressed
  BY LimitAssumption DEF Init, TypeOK, Addressed, PC, InFlight, Ended
<1>2. BudgetCaps
  <2>1. {c \in Calls : pc[c] = "refused"} = {}
    BY DEF Init
  <2>2. Cardinality({}) = 0
    BY FS_EmptySet
  <2>. QED
    BY <2>1, <2>2, LimitAssumption DEF Init, BudgetCaps
<1>3. ChatsAccounted
  <2>1. {c \in Calls : pc[c] \in InFlight \cup {"cancelled"}} = {}
    BY DEF Init, InFlight
  <2>2. Cardinality({}) = 0
    BY FS_EmptySet
  <2>. QED
    BY <2>1, <2>2 DEF Init, ChatsAccounted
<1>. QED
  BY <1>1, <1>2, <1>3 DEF IInv

(* The strengthened invariant holds of every step of the client. *)
THEOREM Invariance == Spec => []IInv
<1>1. IInv /\ [Next]_vars => IInv'
  BY TypeStep, BudgetStep, CountStep DEF IInv
<1>. QED
  BY InitIInv, <1>1, PTL DEF Spec

(* Type correctness of the client. *)
THEOREM TypeCorrect == Spec => []TypeOK
<1>1. IInv => TypeOK
  BY DEF IInv
<1>. QED
  BY Invariance, <1>1, PTL

(* However many calls share the client, each spends at most one answer     *)
(* beyond the token budget (_update_usage).                                *)
THEOREM BudgetCapped == Spec => []BudgetCaps
<1>1. IInv => BudgetCaps
  BY DEF IInv
<1>. QED
  BY Invariance, <1>1, PTL

(* The counters of usage_summary add up at every moment.                   *)
THEOREM ChatsCounted == Spec => []ChatsAccounted
<1>1. IInv => ChatsAccounted
  BY DEF IInv
<1>. QED
  BY Invariance, <1>1, PTL

----------------------------------------------------------------------------

(* No endpoint is listed twice. *)
Distinct == \A i, j \in DOMAIN Endpoints : Endpoints[i] = Endpoints[j] => i = j

(* The place a chat of c posts to after k retries. *)
PlaceOf(c, k) == IF StartOf(c) + k <= Len(Endpoints) THEN StartOf(c) + k ELSE Len(Endpoints)

(* A chat moves one endpoint further with every retry and stays at the last. *)
Walks == \A c \in Calls : pc[c] \in InFlight => endpoint[c] = Endpoints[PlaceOf(c, attempt[c])]

(* It has posted to the endpoints it passed. *)
Passed ==
  \A c \in Calls : pc[c] \in InFlight \cup {"exhausted"} =>
    \A i \in DOMAIN Endpoints :
      /\ StartOf(c) <= i
      /\ IF pc[c] = "waiting" THEN i < StartOf(c) + attempt[c] ELSE i <= StartOf(c) + attempt[c]
      => Endpoints[i] \in tried[c]

(* A chat waits only after a retry was counted and gives up after the last. *)
Counting ==
  \A c \in Calls : /\ pc[c] = "waiting" => attempt[c] >= 1
                   /\ pc[c] = "exhausted" => attempt[c] = MaxRetries

ChainInv == TypeOK /\ Addressed /\ Walks /\ Passed /\ Counting

(* The fallback of an endpoint listed once is the next place of the list   *)
(* (ModelRouter.fallback_for).                                             *)
LEMMA FallbackMoves ==
  ASSUME Distinct, NEW p \in DOMAIN Endpoints, NEW f, Fallback(Endpoints[p], f)
  PROVE  f = Endpoints[IF p < Len(Endpoints) THEN p + 1 ELSE p]
BY DEF Distinct, Fallback, IsIndex

(* A retry takes the chat from one place to the next. *)
LEMMA NextPlace ==
  ASSUME NEW c \in Calls, NEW k \in Nat
  PROVE  /\ PlaceOf(c, k) \in DOMAIN Endpoints
         /\ PlaceOf(c, k + 1) = IF PlaceOf(c, k) < Len(Endpoints)
                                THEN PlaceOf(c, k) + 1 ELSE PlaceOf(c, k)
<1>1. StartOf(c) \in 1..Len(Endpoints) /\ Len(Endpoints) \in Nat
  BY StartInRange, RouterAssumption
<1>. QED
  BY <1>1, RouterAssumption DEF PlaceOf

(* Every step of a call keeps its place in the chain. *)
LEMMA ChainStep ==
  ASSUME Distinct
  PROVE  ChainInv /\ [Next]_vars => ChainInv'
<1>. SUFFICES ASSUME ChainInv, [Next]_vars PROVE ChainInv'
  OBVIOUS
<1>1. TypeOK' /\ Addressed'
  BY TypeStep DEF ChainInv
<1>2. CASE UNCHANGED vars
  BY <1>1, <1>2 DEF ChainInv, Walks, Passed, Counting, vars, counters, history
<1>. SUFFICES ASSUME Next PROVE Walks' /\ Passed' /\ Counting'
  BY <1>1, <1>2 DEF ChainInv
<1>. PICK c \in Calls : Step(c) \/ Cancelled(c)
  BY DEF Next
<1>. USE DEF ChainInv
<1>3. /\ pc \in [Calls -> PC] /\ attempt \in [Calls -> 0..MaxRetries]
      /\ DOMAIN endpoint = Calls /\ DOMAIN tried = Calls
      /\ StartOf(c) \in 1..Len(Endpoints) /\ DOMAIN Endpoints = 1..Len(Endpoints)
      /\ MaxRetries \in Nat /\ Len(Endpoints) \in Nat
  BY StartInRange, RouterAssumption, LimitAssumption DEF TypeOK
(* A step that ends a chat without exhausting it. *)
<1>4. ASSUME NEW v \in PC, v \notin InFlight \cup {"exhausted"}, pc' = [pc EXCEPT ![c] = v],
             UNCHANGED <<endpoint, attempt, tried>>
      PROVE  Walks' /\ Passed' /\ Counting'
  <2>1. v # "waiting" /\ v # "exhausted"
    BY <1>4 DEF InFlight
  <2>. QED
    BY <1>3, <1>4, <2>1 DEF Walks, Passed, Counting
<1>5. CASE ChatBegins(c)
  <2>1. /\ pc' = [pc EXCEPT ![c] = "posted"] /\ attempt' = [attempt EXCEPT ![c] = 0]
        /\ endpoint' = [endpoint EXCEPT ![c] = Endpoints[StartOf(c)]]
        /\ tried' = [tried EXCEPT ![c] = {Endpoints[StartOf(c)]}]
    BY <1>3, <1>5 DEF ChatBegins
  <2>2. PlaceOf(c, 0) = StartOf(c)
    BY <1>3 DEF PlaceOf
  <2>3. Walks'
    BY <1>3, <2>1, <2>2 DEF Walks
  <2>4. Passed'
    BY <1>3, <2>1 DEF Passed
  <2>5. Counting'
    BY <1>3, <2>1 DEF Counting
  <2>. QED
    BY <2>3, <2>4, <2>5
<1>6. CASE Answered(c)
  BY <1>4, <1>6 DEF Answered, PC, InFlight, Ended
<1>7. CASE BudgetExceeded(c)
  BY <1>4, <1>7 DEF BudgetExceeded, ChatFails, PC, InFlight, Ended, history
<1>8. CASE NotText(c)
  BY <1>4, <1>8 DEF NotText, ChatFails, PC, InFlight, Ended, history
<1>9. CASE FatalError(c)
  BY <1>4, <1>9 DEF FatalError, ChatFails, PC, InFlight, Ended, history
<1>10. CASE Cancelled(c)
  BY <1>4, <1>10 DEF Cancelled, PC, Ended, InFlight, history
<1>11. CASE RetryableError(c)
  <2>1. PICK f : Fallback(endpoint[c], f) /\ endpoint' = [endpoint EXCEPT ![c] = f]
    BY <1>11 DEF RetryableError
  <2>2. pc[c] = "posted" /\ UNCHANGED tried
    BY <1>11 DEF RetryableError, history
  <2>3. f = Endpoints[PlaceOf(c, attempt[c] + 1)]
    <3>1. endpoint[c] = Endpoints[PlaceOf(c, attempt[c])] /\ attempt[c] \in Nat
      BY <1>3, <2>2 DEF Walks, InFlight
    <3>. QED
      BY <2>1, <3>1, FallbackMoves, NextPlace
  <2>4. CASE GivesUp(c)
    <3>1. pc' = [pc EXCEPT ![c] = "exhausted"] /\ UNCHANGED attempt
      BY <1>11, <2>4 DEF RetryableError, ChatFails
    <3>2. attempt[c] = MaxRetries
      BY <1>3, <2>4 DEF GivesUp
    <3>3. Walks'
      BY <1>3, <2>1, <3>1 DEF Walks, InFlight
    <3>4. Passed'
      BY <1>3, <2>2, <3>1 DEF Passed, InFlight
    <3>5. Counting'
      BY <1>3, <3>1, <3>2 DEF Counting
    <3>. QED
      BY <3>3, <3>4, <3>5
  <2>5. CASE ~ GivesUp(c)
    <3>1. /\ pc' = [pc EXCEPT ![c] = "waiting"]
          /\ attempt' = [attempt EXCEPT ![c] = attempt[c] + 1]
      BY <1>11, <2>5 DEF RetryableError
    <3>2. Walks'
      BY <1>3, <2>1, <2>3, <3>1 DEF Walks
    <3>3. Passed'
      BY <1>3, <2>2, <3>1 DEF Passed, InFlight
    <3>4. Counting'
      BY <1>3, <3>1 DEF Counting
    <3>. QED
      BY <3>2, <3>3, <3>4
  <2>. QED
    BY <2>4, <2>5
<1>12. CASE BackoffEnds(c)
  <2>1. /\ pc[c] = "waiting" /\ pc' = [pc EXCEPT ![c] = "posted"]
        /\ tried' = [tried EXCEPT ![c] = tried[c] \cup {endpoint[c]}]
        /\ UNCHANGED <<endpoint, attempt>>
    BY <1>12 DEF BackoffEnds
  <2>2. endpoint[c] = Endpoints[PlaceOf(c, attempt[c])]
    BY <2>1 DEF Walks, InFlight
  <2>3. Walks'
    BY <1>3, <2>1, <2>2 DEF Walks
  <2>4. Passed'
    <3>1. ASSUME NEW i \in DOMAIN Endpoints, StartOf(c) <= i, i <= StartOf(c) + attempt[c]
          PROVE  Endpoints[i] \in tried'[c]
      <4>1. CASE i < StartOf(c) + attempt[c]
        BY <1>3, <2>1, <3>1, <4>1 DEF Passed, InFlight
      <4>2. CASE i = StartOf(c) + attempt[c]
        <5>1. PlaceOf(c, attempt[c]) = i
          BY <1>3, <3>1, <4>2 DEF PlaceOf
        <5>. QED
          BY <1>3, <2>1, <2>2, <5>1
      <4>. QED
        BY SMTT(30), <1>3, <3>1, <4>1, <4>2
    <3>2. ASSUME NEW d \in Calls, d # c
          PROVE  pc'[d] = pc[d] /\ tried'[d] = tried[d] /\ attempt'[d] = attempt[d]
      BY <1>3, <2>1, <3>2
    <3>3. pc'[c] = "posted" /\ attempt'[c] = attempt[c]
      BY <1>3, <2>1
    <3>. QED
      BY <3>1, <3>2, <3>3 DEF Passed
  <2>5. Counting'
    BY <1>3, <2>1 DEF Counting
  <2>. QED
    BY <2>3, <2>4, <2>5
<1>. QED
  BY <1>5, <1>6, <1>7, <1>8, <1>9, <1>10, <1>11, <1>12 DEF Step

(* With distinct endpoints a chat that exhausts its retries has posted to  *)
(* every endpoint behind its role's own, as far as the retries reach.      *)
THEOREM ChainFollowed ==
  ASSUME Distinct
  PROVE  Spec => []ChainTried
<1>1. Init => ChainInv
  <2>1. Init => TypeOK /\ Addressed
    BY InitIInv DEF IInv
  <2>. QED
    BY <2>1 DEF Init, ChainInv, Walks, Passed, Counting, InFlight
<1>2. ChainInv /\ [Next]_vars => ChainInv'
  BY ChainStep
<1>3. ChainInv => ChainTried
  <2>. SUFFICES ASSUME ChainInv, NEW c \in Calls, pc[c] = "exhausted",
                       NEW i \in StartOf(c)..StartOf(c) + MaxRetries, i \in DOMAIN Endpoints
                PROVE  Endpoints[i] \in tried[c]
    BY DEF ChainTried
  <2>1. attempt[c] = MaxRetries
    BY DEF ChainInv, Counting
  <2>2. StartOf(c) <= i /\ i <= StartOf(c) + attempt[c]
    BY <2>1, StartInRange, RouterAssumption, LimitAssumption
  <2>. QED
    BY <2>2 DEF ChainInv, Passed
<1>. QED
  BY <1>1, <1>2, <1>3, PTL DEF Spec
============================================================================
