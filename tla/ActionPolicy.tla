---------------------------- MODULE ActionPolicy ----------------------------
(***************************************************************************)
(* The action gate: one proposed action against one resolution head        *)
(* (policy.py).                                                            *)
(*                                                                         *)
(* A policy's rules are a list of [action, allowed_resolution_states,      *)
(* require_scope_containment].                                             *)
(***************************************************************************)
EXTENDS Scope, Naturals

(***************************************************************************)
(* validate_action_policy.                                                 *)
(***************************************************************************)
validate_action_policy(policy) ==
    /\ \A i, j \in DOMAIN policy.rules :
           policy.rules[i].action = policy.rules[j].action => i = j
    /\ \A i \in DOMAIN policy.rules :
           /\ policy.rules[i].allowed_resolution_states # {}
           /\ policy.rules[i].allowed_resolution_states \subseteq
                  {"SURVIVED", "NARROWED", "FAILED", "UNRESOLVED"}
           /\ policy.rules[i].require_scope_containment \in BOOLEAN

(***************************************************************************)
(* A fault: container and contained swapped.                               *)
(***************************************************************************)
ScopeDecisionSwapped(rule, effective_scope, requested_scope, scope_adapters) ==
    LET containment == scope_contains(requested_scope, effective_scope,
                                      scope_adapters)
    IN  IF ~ rule.require_scope_containment \/ containment = "TRUE" THEN "PERMIT"
        ELSE IF containment = "FALSE" THEN "DENY"
        ELSE "HOLD"

(***************************************************************************)
(* The decision of one rule for an authorized resolution, and              *)
(* derive_action_decision.                                                 *)
(***************************************************************************)
ScopeDecision(rule, effective_scope, requested_scope, scope_adapters) ==
    LET containment == scope_contains(effective_scope, requested_scope,
                                      scope_adapters)
    IN  IF ~ rule.require_scope_containment \/ containment = "TRUE" THEN "PERMIT"
        ELSE IF containment = "FALSE" THEN "DENY"
        ELSE "HOLD"

RuleDecision(rule, verdict, requested_scope, scope_adapters) ==
    IF verdict.state = "UNRESOLVED" THEN "HOLD"
    ELSE IF verdict.state \notin rule.allowed_resolution_states THEN "DENY"
    ELSE ScopeDecision(rule, verdict.effective_scope, requested_scope,
                       scope_adapters)

derive_action_decision(action_id, requested_scope, verdict, policy, adapters) ==
    LET matching == {i \in DOMAIN policy.rules :
                         policy.rules[i].action = action_id}
    IN  IF verdict.integrity # "PASS" THEN "HOLD"
        ELSE IF verdict.authority_state = "UNAUTHORIZED" THEN "DENY"
        ELSE IF verdict.authority_state # "AUTHORIZED" THEN "HOLD"
        ELSE IF matching = {} THEN "HOLD"
        ELSE RuleDecision(policy.rules[CHOOSE i \in matching : TRUE], verdict,
                          requested_scope, adapters)
=============================================================================
