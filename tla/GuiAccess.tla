------------------------------ MODULE GuiAccess ------------------------------
(* Whom a request to the GUI server speaks for: the role of its token, its   *)
(* session, its header or the server's environment, in this order, and what  *)
(* the policy of its project and environment leaves of that role.            *)
EXTENDS Integers, Sequences, FiniteSets

CONSTANTS Tokens, Sessions,   \* the principals of the authorisation file, name to role
          Policies,           \* its policies, in order
          DefaultPolicy,      \* the policy when none matches: at most one
          ServerEnv           \* the server's own role, project, environment and mode

READ_ONLY_ROLE == "evaluator"
MUTATING_ROLES == {"operator", "developer"}

\* "" is an absent text throughout.
Given(a, b) == IF a # "" THEN a ELSE b

IsMutationAllowed(role) == role \in MUTATING_ROLES

RequestRole(r) ==
  IF r.role # "" THEN r.role
  ELSE IF ServerEnv.role # "" THEN ServerEnv.role
  ELSE IF ServerEnv.simple THEN "developer" ELSE READ_ONLY_ROLE

Scope(r) == [project     |-> Given(r.project, ServerEnv.project),
             environment |-> Given(r.environment, ServerEnv.environment)]

(* A policy that names values excludes a request that has none; one that     *)
(* names other values only scores lower.                                     *)
Excludes(configured, current) == configured # {} /\ current = ""
Matches(p, s) == ~Excludes(p.projects, s.project) /\ ~Excludes(p.environments, s.environment)
Score(p, s) == (IF s.project \in p.projects THEN 2 ELSE 0)
               + (IF s.environment \in p.environments THEN 1 ELSE 0)

\* The first of the policies with the best score, or the default: at most one.
SelectPolicy(s) ==
  LET matched == {i \in DOMAIN Policies : Matches(Policies[i], s)}
      ahead(i, j) == \/ Score(Policies[i], s) > Score(Policies[j], s)
                     \/ Score(Policies[i], s) = Score(Policies[j], s) /\ i < j
  IN IF matched = {} THEN DefaultPolicy
     ELSE {Policies[i] : i \in {k \in matched : \A j \in matched \ {k} : ahead(k, j)}}

\* The lists of roles that apply: none, or the action's, or the policy's.
AllowedRoles(p, action) ==
  IF action \in DOMAIN p.actions THEN {p.actions[action]} ELSE p.allowed

Scoped(role, action, s) ==
  IF \A p \in SelectPolicy(s) : \A roles \in AllowedRoles(p, action) : role \in roles
  THEN role ELSE READ_ONLY_ROLE

ResolveRequestAuth(r, action) ==
  LET role == IF r.token \in DOMAIN Tokens THEN Tokens[r.token]
              ELSE IF r.session \in DOMAIN Sessions THEN Sessions[r.session]
              ELSE RequestRole(r)
  IN Scoped(role, action, Scope(r))
=============================================================================
