--------------------------- MODULE ActionContract ---------------------------
(***************************************************************************)
(* What the action gate promises to those who rely on it, without records, *)
(* lineages or heads: people consent to conclusions, consent is never      *)
(* withdrawn, and a question about an action is answered once, in one      *)
(* step, PERMIT only on a conclusion a quorum has consented to by then.    *)
(*                                                                         *)
(* A conclusion is the body of a record; a question is an action, the      *)
(* scope it asks for and the policy it is judged by (see Gates in          *)
(* Rlp2Lineage).                                                           *)
(***************************************************************************)
EXTENDS Authority, Scope

VARIABLES consents,   \* a set of [did, body]: who has consented to what
          answer      \* None or Some [gate, decision, body]

vars == <<consents, answer>>

Init == consents = {} /\ answer = None

ConsentTo(body) == {c.did : c \in {d \in consents : d.body = body}}

(***************************************************************************)
(* The question's policy has a rule for this action that allows the        *)
(* conclusion's state and, where it asks for containment, the scope.       *)
(***************************************************************************)
Allows(gate, body) ==
    \E i \in DOMAIN gate.policy.rules :
        LET rule == gate.policy.rules[i]
        IN  /\ rule.action = gate.action_id
            /\ body.state \in rule.allowed_resolution_states
            /\ rule.require_scope_containment =>
                   scope_contains(body.effective_scope, gate.requested_scope,
                                  gate.scope_adapters) = "TRUE"

Warranted(gate, body) ==
    /\ Quorate(body.authority_policy, ConsentTo(body), body.verification_results)
    /\ body.state # "UNRESOLVED"
    /\ Allows(gate, body)

Consent ==
    /\ consents \subseteq consents'
    /\ UNCHANGED answer

Answer ==
    /\ answer = None
    /\ answer' # None
    /\ \A a \in answer' : a.decision = "PERMIT" => Warranted(a.gate, a.body)
    /\ UNCHANGED consents

Forget ==
    /\ answer' = None
    /\ UNCHANGED consents

Next == Consent \/ Answer \/ Forget

Spec == Init /\ [][Next]_vars
=============================================================================
