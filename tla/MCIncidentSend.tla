--------------------------- MODULE MCIncidentSend ---------------------------
(* Two processes, a printed target, a logged one and a webhook. *)
EXTENDS IncidentSend, TLC

CONSTANTS s1, s2, p1

FanoutsDef == {<<"stdout", "webhook">>, <<"log", "log">>}

Symmetric == Permutations(Senders)
=============================================================================
