------------------------------ MODULE Authority ------------------------------
(***************************************************************************)
(* RLP-2 resolver authority: policies, approvals over a body, approvals of *)
(* a change of policy, and the state they derive (authority.py).           *)
(*                                                                         *)
(* A policy has mode, principals (a list of DIDs), threshold (None or Some *)
(* number) and external_evidence (a list of evidence ids); the fields that *)
(* may only have one value are left out.  Lists keep their order: it is    *)
(* part of what the policy's digest covers.                                *)
(***************************************************************************)
EXTENDS Envelopes, Integers, Sequences, FiniteSets, Functions

AUTHORITY_APPROVAL_KIND == "rlp2-authority-approval"
TRANSITION_APPROVAL_KIND == "rlp2-policy-transition-approval"
AUTHORITY_MODES == {"EXACT", "ANY_OF", "ALL_OF", "THRESHOLD", "EXTERNAL"}

(***************************************************************************)
(* validate_authority_policy: external_evidence may repeat an id, the      *)
(* principals may not repeat a DID.                                        *)
(***************************************************************************)
ValidThreshold(policy) ==
    IF policy.mode = "THRESHOLD"
    THEN \E m \in 1 .. Len(policy.principals) : policy.threshold = Some(m)
    ELSE policy.threshold = None

validate_authority_policy(policy) ==
    /\ policy.mode \in AUTHORITY_MODES
    /\ policy.principals # <<>>
    /\ IsInjective(policy.principals)
    /\ ValidThreshold(policy)
    /\ policy.mode = "EXACT" => Len(policy.principals) = 1
    /\ policy.mode = "EXTERNAL" <=> policy.external_evidence # <<>>

authority_policy_digest(policy) == hash_object(policy)

-----------------------------------------------------------------------------
(***************************************************************************)
(* derive_authority_state.  The actor, the record's own signer, must be a  *)
(* principal and must approve; then the mode decides.  results maps the    *)
(* ids of the record's evidence to their verification results.             *)
(***************************************************************************)
Principals(policy) == Range(policy.principals)

ExternalState(policy, results) ==
    LET ids == Range(policy.external_evidence)
    IN  IF ~ ids \subseteq DOMAIN results THEN "UNRESOLVED"
        ELSE IF \E e \in ids : results[e].result = "INVALID" THEN "UNAUTHORIZED"
        ELSE IF \A e \in ids : results[e].result = "VERIFIED" THEN "AUTHORIZED"
        ELSE "UNRESOLVED"

(***************************************************************************)
(* A fault: one principal is a quorum.                                     *)
(***************************************************************************)
QuorumOfOne(policy, eligible) == eligible # {}

QuorumMet(policy, eligible) ==
    CASE policy.mode \in {"EXACT", "ANY_OF"} -> TRUE
      [] policy.mode = "ALL_OF"    -> Principals(policy) \subseteq eligible
      [] policy.mode = "THRESHOLD" ->
             \A m \in policy.threshold : Cardinality(eligible) >= m

derive_authority_state(policy, actor, signers, results) ==
    IF actor \notin Principals(policy) THEN "UNAUTHORIZED"
    ELSE IF actor \notin signers THEN "UNRESOLVED"
    ELSE IF policy.mode = "EXTERNAL" THEN ExternalState(policy, results)
    ELSE IF QuorumMet(policy, signers \cap Principals(policy)) THEN "AUTHORIZED"
    ELSE "UNRESOLVED"

-----------------------------------------------------------------------------
(***************************************************************************)
(* Approvals.  Both kinds are lists of envelopes, accepted only as a       *)
(* whole: every one signed, bound to exactly the expected payload, no      *)
(* signer twice.                                                           *)
(***************************************************************************)
approval_payload(body_digest, policy_digest) ==
    [body_digest |-> body_digest, policy_digest |-> policy_digest]

transition_payload(body_digest, from_digest, to_digest) ==
    [body_digest |-> body_digest, from_policy_digest |-> from_digest,
     to_policy_digest |-> to_digest]

(***************************************************************************)
(* A fault: an approval of anything counts as an approval of this.         *)
(***************************************************************************)
BoundToAnything(envelope, kind, expected) == verify_envelope(envelope, kind)

BoundTo(envelope, kind, expected) ==
    /\ verify_envelope(envelope, kind)
    /\ envelope.payload = expected

AcceptableApprovals(approvals, kind, expected) ==
    /\ \A i \in DOMAIN approvals : BoundTo(approvals[i], kind, expected)
    /\ \A i, j \in DOMAIN approvals :
           approvals[i].signer = approvals[j].signer => i = j

Signers(approvals) == {approvals[i].signer : i \in DOMAIN approvals}

(***************************************************************************)
(* sign_authority_approval and sign_transition_approval, for each key of a *)
(* list of keys: nothing stops a key from being listed twice.              *)
(***************************************************************************)
sign_authority_approvals(keys, body_digest, policy_digest) ==
    [i \in DOMAIN keys |->
        sign_envelope(AUTHORITY_APPROVAL_KIND,
                      approval_payload(body_digest, policy_digest), keys[i])]

(***************************************************************************)
(* A fault: the two policy digests in the wrong order.                     *)
(***************************************************************************)
sign_transition_backwards(keys, body_digest, from_digest, to_digest) ==
    [i \in DOMAIN keys |->
        sign_envelope(TRANSITION_APPROVAL_KIND,
                      transition_payload(body_digest, to_digest, from_digest),
                      keys[i])]

sign_transition_approvals(keys, body_digest, from_digest, to_digest) ==
    [i \in DOMAIN keys |->
        sign_envelope(TRANSITION_APPROVAL_KIND,
                      transition_payload(body_digest, from_digest, to_digest),
                      keys[i])]

verify_authority_approvals(approvals, body_digest, policy_digest) ==
    AcceptableApprovals(approvals, AUTHORITY_APPROVAL_KIND,
                        approval_payload(body_digest, policy_digest))

(***************************************************************************)
(* A fault: the new policy judges the approvals of its own arrival.        *)
(***************************************************************************)
AuthorizedByNew(approvals, body_digest, from_policy, to_policy, results) ==
    /\ AcceptableApprovals(approvals, TRANSITION_APPROVAL_KIND,
           transition_payload(body_digest,
                              authority_policy_digest(from_policy),
                              authority_policy_digest(to_policy)))
    /\ \E actor \in Signers(approvals) :
           derive_authority_state(to_policy, actor, Signers(approvals),
                                  results) = "AUTHORIZED"

(***************************************************************************)
(* verify_transition_approvals returns AUTHORIZED: some approving signer   *)
(* can serve as the actor of the old policy.                               *)
(***************************************************************************)
TransitionAuthorized(approvals, body_digest, from_policy, to_policy, results) ==
    /\ validate_authority_policy(from_policy)
    /\ AcceptableApprovals(approvals, TRANSITION_APPROVAL_KIND,
           transition_payload(body_digest,
                              authority_policy_digest(from_policy),
                              authority_policy_digest(to_policy)))
    /\ \E actor \in Signers(approvals) :
           derive_authority_state(from_policy, actor, Signers(approvals),
                                  results) = "AUTHORIZED"

-----------------------------------------------------------------------------
(***************************************************************************)
(* The quorum a policy asks for, said of a set of DIDs: which of its       *)
(* principals must have consented.  Stated for the properties; the code    *)
(* has derive_authority_state instead.                                     *)
(***************************************************************************)
Quorate(policy, dids, results) ==
    LET consenting == dids \cap Principals(policy)
    IN  /\ consenting # {}
        /\ policy.mode = "ALL_OF" => Principals(policy) \subseteq dids
        /\ policy.mode = "THRESHOLD" =>
               \E m \in policy.threshold : Cardinality(consenting) >= m
        /\ policy.mode = "EXTERNAL" =>
               \A e \in Range(policy.external_evidence) :
                   e \in DOMAIN results /\ results[e].result = "VERIFIED"
=============================================================================
