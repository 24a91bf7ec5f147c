----------------------------- MODULE LLMClient -----------------------------
(***************************************************************************)
(* autodev/llm_client.py under loop.py's _llm_json: coroutines that share  *)
(* one client each ask for structured output, repair a malformed answer by *)
(* asking again, retry transport errors with a fallback endpoint, and draw *)
(* on one token budget.                                                    *)
(*                                                                         *)
(* A step is what happens between two awaits.  Prompts, temperatures, the  *)
(* seconds of a backoff and what an answer says are left out: an answer is *)
(* valid, malformed (the schema or the hand-off check refuses it) or not a *)
(* text, and reports some tokens or none.  A client without a router is    *)
(* one with a single endpoint.                                             *)
(*                                                                         *)
(* A definition whose name extends that of the one after it is that        *)
(* definition with a plausible bug; only the mutation runs use it.         *)
(***************************************************************************)
EXTENDS Naturals, Sequences, FiniteSets

CONSTANTS
  Calls,       \* the calls of _llm_json made on the client
  Endpoints,   \* the router's endpoints, in order; a value may be repeated
  Role,        \* Role[c]: the endpoint role_mapping gives the role of c, or 0
  MaxRetries,  \* how many backoffs RETRY_BACKOFF_SECONDS lists
  MaxRepair,   \* max_json_repair
  Usages,      \* the tokens an answer may report
  MaxUsage,    \* bound on the tokens of one answer
  MaxTokens,   \* max_total_tokens
  None         \* "no value"

ASSUME RouterAssumption ==
  /\ Endpoints \in Seq(STRING) /\ Endpoints # <<>>
  /\ Role \in [Calls -> Nat]

ASSUME LimitAssumption ==
  /\ IsFiniteSet(Calls)
  /\ MaxRetries \in Nat /\ MaxRepair \in Nat
  /\ MaxUsage \in Nat /\ MaxTokens \in Nat
  /\ Usages \subseteq 0..MaxUsage

ASSUME NoneAssumption == None \notin {Endpoints[i] : i \in DOMAIN Endpoints}

VARIABLES
  pc,        \* where the call is
  endpoint,  \* endpoint[c]: the endpoint of c's current chat
  attempt,   \* attempt[c]: retries of the current chat
  repairs,   \* repairs[c]: repairs asked for
  tokens,    \* _usage_totals["total_tokens"]
  chats, failedChats, retries,   \* the counters of usage_summary
  (* history, read by the properties only *)
  tried,     \* tried[c]: the endpoints the current chat posted to
  answered   \* chats that returned

counters == <<chats, failedChats, retries>>
history == <<tried, answered>>
vars == <<pc, endpoint, attempt, repairs, tokens, counters, history>>

InFlight == {"posted", "waiting"}
Ended == {"done", "malformed", "exhausted", "refused", "cancelled"}
PC == {"ready"} \cup InFlight \cup Ended

Init ==
  /\ pc = [c \in Calls |-> "ready"]
  /\ endpoint = [c \in Calls |-> None]
  /\ attempt = [c \in Calls |-> 0]
  /\ repairs = [c \in Calls |-> 0]
  /\ tokens = 0
  /\ chats = 0 /\ failedChats = 0 /\ retries = 0
  /\ tried = [c \in Calls |-> {}]
  /\ answered = 0

----------------------------------------------------------------------------
(* ModelRouter.                                                            *)

StartOf(c) == IF Role[c] \in DOMAIN Endpoints THEN Role[c] ELSE 1

(* list.index: the first place of an endpoint. *)
IsIndex(i, e) ==
  /\ i \in DOMAIN Endpoints /\ Endpoints[i] = e
  /\ \A j \in 1..i - 1 : Endpoints[j] # e

(* After a retryable error of e the chat goes on with f: the endpoint      *)
(* behind e, or e itself when it is the last.                              *)
Fallback(e, f) ==
  \E i \in DOMAIN Endpoints :
    IsIndex(i, e) /\ f = Endpoints[IF i < Len(Endpoints) THEN i + 1 ELSE i]

----------------------------------------------------------------------------
(* chat.                                                                   *)

(* _llm_json asks, for the first time or with a repair prompt. *)
ChatBegins(c) ==
  /\ pc[c] = "ready"
  /\ pc' = [pc EXCEPT ![c] = "posted"]
  /\ endpoint' = [endpoint EXCEPT ![c] = Endpoints[StartOf(c)]]
  /\ attempt' = [attempt EXCEPT ![c] = 0]
  /\ chats' = chats + 1
  /\ tried' = [tried EXCEPT ![c] = {endpoint'[c]}]
  /\ UNCHANGED <<repairs, tokens, failedChats, retries, answered>>

ChatFailsUncounted(c, as) ==
  /\ pc' = [pc EXCEPT ![c] = as]
  /\ failedChats' = IF as = "exhausted" THEN failedChats + 1 ELSE failedChats

(* chat raises, and _llm_json with it: only malformed answers are repaired. *)
ChatFails(c, as) ==
  /\ pc' = [pc EXCEPT ![c] = as]
  /\ failedChats' = failedChats + 1

OverBudgetLate(u) == tokens > MaxTokens

(* _update_usage counts the answer, then looks at the budget. *)
OverBudget(u) == tokens + u > MaxTokens

BudgetExceeded(c) ==
  /\ pc[c] = "posted"
  /\ \E u \in Usages : OverBudget(u) /\ tokens' = tokens + u
  /\ ChatFails(c, "refused")
  /\ UNCHANGED <<endpoint, attempt, repairs, chats, retries, history>>

(* An answer within the budget is counted, one without usage is not. *)
Counted ==
  \/ UNCHANGED tokens
  \/ \E u \in Usages : ~ OverBudget(u) /\ tokens' = tokens + u

(* The answer has no choices or its content is not a text. *)
NotText(c) ==
  /\ pc[c] = "posted"
  /\ Counted
  /\ ChatFails(c, "refused")
  /\ UNCHANGED <<endpoint, attempt, repairs, chats, retries, history>>

(* The answer is a text; _llm_json parses it at once. *)
Answered(c) ==
  /\ pc[c] = "posted"
  /\ Counted
  /\ answered' = answered + 1
  /\ \/ pc' = [pc EXCEPT ![c] = "done"] /\ UNCHANGED repairs
     \/ /\ repairs[c] < MaxRepair
        /\ pc' = [pc EXCEPT ![c] = "ready"]
        /\ repairs' = [repairs EXCEPT ![c] = @ + 1]
     \/ /\ repairs[c] = MaxRepair
        /\ pc' = [pc EXCEPT ![c] = "malformed"]
        /\ UNCHANGED repairs
  /\ UNCHANGED <<endpoint, attempt, counters, tried>>

GivesUpLate(c) == attempt[c] > MaxRetries

GivesUp(c) == attempt[c] >= MaxRetries

(* A timeout, a transport error or a status of RETRYABLE_STATUS_CODES. *)
RetryableError(c) ==
  /\ pc[c] = "posted"
  /\ \E f \in {Endpoints[i] : i \in DOMAIN Endpoints} :
       Fallback(endpoint[c], f) /\ endpoint' = [endpoint EXCEPT ![c] = f]
  /\ IF GivesUp(c)
     THEN ChatFails(c, "exhausted") /\ UNCHANGED <<attempt, retries>>
     ELSE /\ pc' = [pc EXCEPT ![c] = "waiting"]
          /\ attempt' = [attempt EXCEPT ![c] = @ + 1]
          /\ retries' = retries + 1
          /\ UNCHANGED failedChats
  /\ UNCHANGED <<repairs, tokens, chats, history>>

(* Any other status, or a body that is not JSON. *)
FatalError(c) ==
  /\ pc[c] = "posted"
  /\ ChatFails(c, "refused")
  /\ UNCHANGED <<endpoint, attempt, repairs, tokens, chats, retries, history>>

(* The backoff of the last attempt is over: the same chat posts again. *)
BackoffEnds(c) ==
  /\ pc[c] = "waiting" /\ attempt[c] \in 1..MaxRetries
  /\ pc' = [pc EXCEPT ![c] = "posted"]
  /\ tried' = [tried EXCEPT ![c] = @ \cup {endpoint[c]}]
  /\ UNCHANGED <<endpoint, attempt, repairs, tokens, counters, answered>>

(* A call that failed ends the run, and with it the calls under way; no    *)
(* handler of chat sees the cancellation.                                  *)
Cancelled(c) ==
  /\ pc[c] \in InFlight
  /\ \E d \in Calls : pc[d] \in Ended \ {"done"}
  /\ pc' = [pc EXCEPT ![c] = "cancelled"]
  /\ UNCHANGED <<endpoint, attempt, repairs, tokens, counters, history>>

Step(c) ==
  \/ ChatBegins(c)
  \/ Answered(c) \/ BudgetExceeded(c) \/ NotText(c)
  \/ RetryableError(c) \/ FatalError(c)
  \/ BackoffEnds(c)

Next == \E c \in Calls : Step(c) \/ Cancelled(c)

Spec == Init /\ [][Next]_vars

(* httpx's timeout ends every post and asyncio.sleep every backoff. *)
FairSpec == Spec /\ \A c \in Calls : WF_vars(Step(c))

----------------------------------------------------------------------------
(* Properties.                                                             *)

(* Every variable has its type. *)
TypeOK ==
  /\ pc \in [Calls -> PC]
  /\ endpoint \in [Calls -> {Endpoints[i] : i \in DOMAIN Endpoints} \cup {None}]
  /\ attempt \in [Calls -> 0..MaxRetries]
  /\ repairs \in [Calls -> 0..MaxRepair]
  /\ tokens \in Nat
  /\ chats \in Nat /\ failedChats \in Nat /\ retries \in Nat
  /\ tried \in [Calls -> SUBSET {Endpoints[i] : i \in DOMAIN Endpoints}]
  /\ answered \in Nat

(* The budget is looked at only after an answer was counted, and by every  *)
(* coroutine on its own.  Still a call spends at most one answer beyond    *)
(* the budget, however many calls are under way when it is reached and     *)
(* however many are started afterwards (_update_usage).                    *)
BudgetCaps == tokens <= MaxTokens + MaxUsage * Cardinality({c \in Calls : pc[c] = "refused"})

(* A chat that runs out of retries has posted to every endpoint behind the *)
(* one its role is mapped to, as far as its retries reach (README:118).    *)
ChainTried ==
  \A c \in Calls : pc[c] = "exhausted" =>
    \A i \in StartOf(c)..StartOf(c) + MaxRetries :
      i \in DOMAIN Endpoints => Endpoints[i] \in tried[c]

(* The counters of usage_summary add up: every chat counted has returned,  *)
(* failed, is under way or was cancelled.                                  *)
ChatsAccounted ==
  chats = answered + failedChats + Cardinality({c \in Calls : pc[c] \in InFlight \cup {"cancelled"}})

(* Every call ends, whatever the endpoints do. *)
CallEnds == \A c \in Calls : pc[c] = "ready" ~> pc[c] \in Ended
============================================================================
