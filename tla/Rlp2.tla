-------------------------------- MODULE Rlp2 --------------------------------
(***************************************************************************)
(* RLP-2 records: how one is built, signed and verified (rlp2.py).  Pure   *)
(* operators; a function that raises ReceiptError is a predicate, true     *)
(* when it returns.                                                        *)
(*                                                                         *)
(* A draft is the arguments of a record: the fields of an RLP-1 draft and  *)
(* original_scope, effective_scope, verification_specs, authority_policy.  *)
(* A body has these fields and those _build_body derives, so a body can    *)
(* stand for its draft.  A predecessor is None or Some envelope.           *)
(***************************************************************************)
EXTENDS Resolution, Authority, Verification, Scope

RLP2_KIND == "policy-bound-resolution"

(***************************************************************************)
(* _previous_profile and _previous_payload.  An RLP-1 predecessor is       *)
(* verified, and must be a first record; of an RLP-2 predecessor only the  *)
(* envelope is.                                                            *)
(***************************************************************************)
_previous_profile(record) ==
    IF record.kind = RESOLUTION_KIND THEN "RLP-1" ELSE "RLP-2"

Rlp1(record) == _previous_profile(record) = "RLP-1"
Rlp2(record) == _previous_profile(record) = "RLP-2"

PreviousReadable(record) ==
    IF Rlp1(record) THEN verify_first(record)
                    ELSE verify_envelope(record, RLP2_KIND)

_previous_payload(record) ==
    IF Rlp1(record) THEN record.payload ELSE record.payload.body

-----------------------------------------------------------------------------
(***************************************************************************)
(* _build_body: when it succeeds, and the body it returns.                 *)
(***************************************************************************)
KernelState(draft) ==
    derive_resolution_state(draft.original_target, draft.effective_target,
                            draft.checks)

ContinuesIdentity(draft, record) ==
    /\ PreviousReadable(record)
    /\ _previous_payload(record).subject = draft.subject
    /\ _previous_payload(record).original_target = draft.original_target

Derivable(draft, results) ==
    /\ _validate_checks(draft.checks, draft.evidence)
    /\ validate_scope_transition(draft.original_scope, draft.effective_scope,
                                 KernelState(draft))
    /\ validate_verification_results(draft.evidence, results,
                                     draft.verification_specs)
    /\ require_verified_check_evidence(draft.checks, results)
    /\ validate_authority_policy(draft.authority_policy)

BodyBuilds(draft, results, previous) ==
    /\ Derivable(draft, results)
    /\ (previous = None) <=> (draft.revision_reason = None)
    /\ \A record \in previous : ContinuesIdentity(draft, record)

_build_body(draft, results, previous) ==
    [subject                 |-> draft.subject,
     original_target         |-> draft.original_target,
     effective_target        |-> draft.effective_target,
     original_scope          |-> draft.original_scope,
     effective_scope         |-> draft.effective_scope,
     evidence                |-> draft.evidence,
     verification_specs      |-> draft.verification_specs,
     verification_results    |-> results,
     authority_policy        |-> draft.authority_policy,
     authority_policy_digest |-> authority_policy_digest(draft.authority_policy),
     checks                  |-> draft.checks,
     state                   |-> KernelState(draft),
     previous                |-> LinkTo(previous),
     previous_profile        |-> {_previous_profile(r) : r \in previous},
     revision_reason         |-> draft.revision_reason]

-----------------------------------------------------------------------------
(***************************************************************************)
(* A fault: the bootstrap restriction forgotten.                           *)
(***************************************************************************)
_unadjusted_authority_state(state, policy, previous) == state

(***************************************************************************)
(* The authority state a record carries: the policy's, but UNRESOLVED for  *)
(* the direct successor of an RLP-1 record whose policy is not EXTERNAL.   *)
(***************************************************************************)
_bootstrap_adjusted_authority_state(state, policy, previous) ==
    IF policy.mode # "EXTERNAL" /\ \E record \in previous : Rlp1(record)
    THEN "UNRESOLVED"
    ELSE state

AuthorityState(body, actor, signers, previous) ==
    _bootstrap_adjusted_authority_state(
        derive_authority_state(body.authority_policy, actor, signers,
                               body.verification_results),
        body.authority_policy, previous)

(***************************************************************************)
(* sign_rlp2_resolution.  Transition approvals are made only when an RLP-2 *)
(* predecessor has another policy digest, and then some key must be given; *)
(* whether the old policy accepts them is left to the verifier.            *)
(***************************************************************************)
ChangesPolicy(body, previous) ==
    \E record \in previous :
        /\ Rlp2(record)
        /\ record.payload.body.authority_policy_digest
               # body.authority_policy_digest

SignedBody(draft, adapters, native, previous) ==
    _build_body(draft,
                verify_evidence_set(draft.evidence, draft.verification_specs,
                                    adapters, native),
                previous)

CanSign(draft, adapters, native, keys, previous, transition_keys) ==
    /\ keys # <<>>
    /\ Verifiable(draft.evidence, draft.verification_specs, adapters, native)
    /\ BodyBuilds(draft,
                  verify_evidence_set(draft.evidence, draft.verification_specs,
                                      adapters, native),
                  previous)
    /\ ChangesPolicy(SignedBody(draft, adapters, native, previous), previous)
           => transition_keys # <<>>

TransitionApprovals(body, previous, transition_keys) ==
    IF ~ ChangesPolicy(body, previous) THEN <<>>
    ELSE LET prior == CHOOSE record \in previous : TRUE
         IN  sign_transition_approvals(transition_keys, hash_object(body),
                 prior.payload.body.authority_policy_digest,
                 body.authority_policy_digest)

sign_rlp2_resolution(draft, adapters, native, keys, previous, transition_keys) ==
    LET body == SignedBody(draft, adapters, native, previous)
        approvals == sign_authority_approvals(keys, hash_object(body),
                                              body.authority_policy_digest)
    IN  sign_envelope(RLP2_KIND,
            [body                 |-> body,
             authority_state      |-> AuthorityState(body, keys[1],
                                          Signers(approvals), previous),
             approvals            |-> approvals,
             transition_approvals |-> TransitionApprovals(body, previous,
                                          transition_keys)],
            keys[1])

-----------------------------------------------------------------------------
(***************************************************************************)
(* verify_rlp2_resolution.  A record that names a predecessor may be given *)
(* without one: then its link is checked for form only.                    *)
(***************************************************************************)
Standalone(body, previous) == previous = None /\ body.previous # None

(***************************************************************************)
(* A fault: the link to the predecessor supplied is not compared.          *)
(***************************************************************************)
BodyIsDerivedUnlinked(body, previous) ==
    /\ BodyBuilds(body, body.verification_results, previous)
    /\ body = [_build_body(body, body.verification_results, previous)
                  EXCEPT !.previous = body.previous]

BodyIsDerived(body, previous) ==
    IF Standalone(body, previous)
    THEN /\ Derivable(body, body.verification_results)
         /\ body.state = KernelState(body)
         /\ body.authority_policy_digest
                = authority_policy_digest(body.authority_policy)
         /\ body.previous_profile \in {Some("RLP-1"), Some("RLP-2")}
         /\ body.revision_reason # None
    ELSE /\ BodyBuilds(body, body.verification_results, previous)
         /\ body = _build_body(body, body.verification_results, previous)

Recomputes(body, verification_adapters, native) ==
    \A adapters \in verification_adapters :
        recompute_verification_results(body.evidence, body.verification_specs,
                                       body.verification_results, adapters,
                                       native)

Approved(envelope) ==
    LET payload == envelope.payload
    IN  /\ verify_authority_approvals(payload.approvals,
               hash_object(payload.body), payload.body.authority_policy_digest)
        /\ envelope.signer \in Signers(payload.approvals)

(***************************************************************************)
(* A fault: a record is judged as if it had no predecessor when none is    *)
(* supplied.                                                               *)
(***************************************************************************)
ExpectedAuthorityAlone(envelope, previous) ==
    AuthorityState(envelope.payload.body, envelope.signer,
                   Signers(envelope.payload.approvals), previous)

ExpectedAuthority(envelope, previous) ==
    LET body == envelope.payload.body
    IN  IF Standalone(body, previous) /\ body.previous_profile = Some("RLP-1")
        THEN "UNRESOLVED"
        ELSE AuthorityState(body, envelope.signer,
                            Signers(envelope.payload.approvals), previous)

TransitionAllowed(payload, record) ==
    IF Rlp1(record) \/ ~ ChangesPolicy(payload.body, Some(record))
    THEN payload.transition_approvals = <<>>
    ELSE TransitionAuthorized(payload.transition_approvals,
             hash_object(payload.body), record.payload.body.authority_policy,
             payload.body.authority_policy,
             record.payload.body.verification_results)

Continues(payload, previous) ==
    IF previous = None
    THEN payload.body.previous = None => payload.transition_approvals = <<>>
    ELSE \A record \in previous : TransitionAllowed(payload, record)

(***************************************************************************)
(* A fault: the claimed authority state is not compared with the computed. *)
(***************************************************************************)
verify_rlp2_unclaimed(envelope, previous, verification_adapters, native) ==
    LET payload == envelope.payload
    IN  /\ verify_envelope(envelope, RLP2_KIND)
        /\ BodyIsDerived(payload.body, previous)
        /\ Recomputes(payload.body, verification_adapters, native)
        /\ Approved(envelope)
        /\ Continues(payload, previous)

verify_rlp2_resolution(envelope, previous, verification_adapters, native) ==
    LET payload == envelope.payload
    IN  /\ verify_envelope(envelope, RLP2_KIND)
        /\ BodyIsDerived(payload.body, previous)
        /\ Recomputes(payload.body, verification_adapters, native)
        /\ Approved(envelope)
        /\ payload.authority_state = ExpectedAuthority(envelope, previous)
        /\ Continues(payload, previous)

(***************************************************************************)
(* What it returns.  The authority state is the one computed, from the     *)
(* predecessor supplied or from none; records is left for the caller that  *)
(* walks a list.                                                           *)
(***************************************************************************)
VerdictOf(envelope, previous, verification_adapters) ==
    LET body == envelope.payload.body
    IN  [integrity        |-> "PASS",
         state            |-> body.state,
         authority_state  |-> ExpectedAuthority(envelope, previous),
         subject          |-> body.subject,
         original_target  |-> body.original_target,
         effective_target |-> body.effective_target,
         effective_scope  |-> body.effective_scope,
         head             |-> hash_object(envelope),
         native_verification |->
             IF verification_adapters = None THEN "DECLARED" ELSE "RECOMPUTED",
         records          |-> None]
=============================================================================
