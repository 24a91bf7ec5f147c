---------------------------- MODULE MCLLMClient ----------------------------
(* Two calls on a client with three endpoints. *)
EXTENDS LLMClient

CONSTANTS c1, c2

Chain == <<"strong", "fast", "spare">>

(* c1's role is mapped to the second endpoint, c2's to none. *)
RoleDef == [c \in Calls |-> IF c = c1 THEN 2 ELSE 0]
============================================================================
