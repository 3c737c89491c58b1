------------------------------ MODULE Rlp2Proofs ------------------------------
(***************************************************************************)
(* Facts about the operators RLP-2 records are made and verified with, for *)
(* records, policies and approvals of any size: what it takes to be        *)
(* AUTHORIZED, what a verified body says, what a PERMIT rests on.          *)
(***************************************************************************)
EXTENDS Rlp2, ActionPolicy, TLAPS

(***************************************************************************)
(* Authority.                                                              *)
(***************************************************************************)
LEMMA AuthorizedIsQuorate ==
    ASSUME NEW policy, NEW actor, NEW signers, NEW results,
           validate_authority_policy(policy),
           derive_authority_state(policy, actor, signers, results) = "AUTHORIZED"
    PROVE  /\ actor \in signers \cap Principals(policy)
           /\ Quorate(policy, signers, results)
<1>1. actor \in signers \cap Principals(policy)
  BY DEF derive_authority_state
<1>2. policy.mode = "EXTERNAL" =>
          ExternalState(policy, results) = "AUTHORIZED"
  BY DEF derive_authority_state
<1>3. policy.mode # "EXTERNAL" =>
          QuorumMet(policy, signers \cap Principals(policy))
  BY DEF derive_authority_state
<1>4. policy.mode = "ALL_OF" => Principals(policy) \subseteq signers
  BY <1>3 DEF QuorumMet
<1>5. policy.mode = "THRESHOLD" =>
          \E m \in policy.threshold : Cardinality(signers \cap Principals(policy)) >= m
  <2> HAVE policy.mode = "THRESHOLD"
  <2>1. \A m \in policy.threshold : Cardinality(signers \cap Principals(policy)) >= m
    BY <1>3 DEF QuorumMet
  <2>2. \E m \in policy.threshold : TRUE
    BY DEF validate_authority_policy, ValidThreshold, Some
  <2> QED
    BY <2>1, <2>2
<1>6. policy.mode = "EXTERNAL" =>
          \A e \in Range(policy.external_evidence) :
              e \in DOMAIN results /\ results[e].result = "VERIFIED"
  BY <1>2 DEF ExternalState
<1> QED
  BY <1>1, <1>4, <1>5, <1>6 DEF Quorate

LEMMA QuorateIsAuthorized ==
    ASSUME NEW policy, NEW signers, NEW results,
           validate_authority_policy(policy),
           Quorate(policy, signers, results)
    PROVE  \E actor \in signers :
               derive_authority_state(policy, actor, signers, results)
                   = "AUTHORIZED"
<1>1. PICK actor \in signers \cap Principals(policy) : TRUE
  BY DEF Quorate
<1>2. policy.mode = "EXTERNAL" =>
          ExternalState(policy, results) = "AUTHORIZED"
  BY DEF Quorate, ExternalState
<1>3. policy.mode \in {"EXACT", "ANY_OF"} =>
          QuorumMet(policy, signers \cap Principals(policy))
  BY DEF QuorumMet
<1>4. policy.mode = "ALL_OF" =>
          QuorumMet(policy, signers \cap Principals(policy))
  BY DEF QuorumMet, Quorate
<1>5. policy.mode = "THRESHOLD" =>
          QuorumMet(policy, signers \cap Principals(policy))
  <2> HAVE policy.mode = "THRESHOLD"
  <2>1. PICK m : policy.threshold = {m}
    BY DEF validate_authority_policy, ValidThreshold, Some
  <2>2. Cardinality(signers \cap Principals(policy)) >= m
    BY <2>1 DEF Quorate
  <2> QED
    BY <2>1, <2>2 DEF QuorumMet
<1>6. policy.mode \in AUTHORITY_MODES
  BY DEF validate_authority_policy
<1> QED
  BY <1>1, <1>2, <1>3, <1>4, <1>5, <1>6
     DEF derive_authority_state, AUTHORITY_MODES

-----------------------------------------------------------------------------
(***************************************************************************)
(* Records.  What verification says of a record apart from its evidence    *)
(* being recomputed: what it says to a verifier without adapters.          *)
(***************************************************************************)
VerifiesAsStored(record, prior) ==
    verify_rlp2_resolution(record, prior, None, <<>>)

LEMMA RecomputedIsStored ==
    ASSUME NEW record, NEW prior, NEW adapters, NEW native,
           verify_rlp2_resolution(record, prior, adapters, native)
    PROVE  /\ VerifiesAsStored(record, prior)
           /\ Recomputes(record.payload.body, adapters, native)
BY DEF VerifiesAsStored, verify_rlp2_resolution, Recomputes, None

LEMMA StoredVerifies ==
    ASSUME NEW record, NEW prior, NEW native, VerifiesAsStored(record, prior)
    PROVE  verify_rlp2_resolution(record, prior, None, native)
BY DEF VerifiesAsStored, verify_rlp2_resolution, Recomputes, None

(***************************************************************************)
(* A verified body was derived: its state from its checks, its digest from *)
(* its policy, its results fit its evidence.                               *)
(***************************************************************************)
LEMMA StoredIsDerived ==
    ASSUME NEW record, NEW prior, VerifiesAsStored(record, prior)
    PROVE  LET body == record.payload.body
           IN  /\ Derivable(body, body.verification_results)
               /\ body.state = KernelState(body)
               /\ body.authority_policy_digest = hash_object(body.authority_policy)
               /\ body.revision_reason = None => prior = None /\ body.previous = None
<1> DEFINE body == record.payload.body
<1>1. BodyIsDerived(body, prior)
  BY DEF VerifiesAsStored, verify_rlp2_resolution
<1>2. CASE Standalone(body, prior)
  BY <1>1, <1>2 DEF BodyIsDerived, authority_policy_digest
<1>3. CASE ~ Standalone(body, prior)
  <2>1. /\ BodyBuilds(body, body.verification_results, prior)
        /\ body = _build_body(body, body.verification_results, prior)
    BY <1>1, <1>3 DEF BodyIsDerived
  <2>2. /\ body.state = KernelState(body)
        /\ body.authority_policy_digest = hash_object(body.authority_policy)
    BY <2>1 DEF _build_body, authority_policy_digest
  <2>3. body.revision_reason = None => prior = None
    BY <2>1 DEF BodyBuilds
  <2> QED
    BY <2>1, <2>2, <2>3, <1>3 DEF BodyBuilds, Standalone
<1> QED
  BY <1>2, <1>3

(***************************************************************************)
(* A record verified against a predecessor continues it.                   *)
(***************************************************************************)
LEMMA StoredContinues ==
    ASSUME NEW record, NEW prior, VerifiesAsStored(record, Some(prior))
    PROVE  LET body == record.payload.body
           IN  /\ body.previous = Some(hash_object(prior))
               /\ body.previous_profile = Some(_previous_profile(prior))
               /\ body.revision_reason # None
               /\ ContinuesIdentity(body, prior)
               /\ TransitionAllowed(record.payload, prior)
<1> DEFINE body == record.payload.body
<1>1. Some(prior) # None
  BY DEF Some, None
<1>2. /\ BodyBuilds(body, body.verification_results, Some(prior))
      /\ body = _build_body(body, body.verification_results, Some(prior))
  BY <1>1 DEF VerifiesAsStored, verify_rlp2_resolution, BodyIsDerived, Standalone
<1>3. /\ body.previous = LinkTo(Some(prior))
      /\ body.previous_profile = {_previous_profile(r) : r \in Some(prior)}
  BY <1>2 DEF _build_body
<1>4. /\ body.previous = Some(hash_object(prior))
      /\ body.previous_profile = Some(_previous_profile(prior))
  BY <1>3 DEF LinkTo, Some
<1>5. body.revision_reason # None /\ ContinuesIdentity(body, prior)
  BY <1>1, <1>2 DEF BodyBuilds, Some
<1>6. TransitionAllowed(record.payload, prior)
  BY <1>1 DEF VerifiesAsStored, verify_rlp2_resolution, Continues, Some
<1> QED
  BY <1>4, <1>5, <1>6

(***************************************************************************)
(* A record that says AUTHORIZED and verifies is signed by a principal of  *)
(* its policy who approved it together with a quorum.                      *)
(***************************************************************************)
LEMMA StoredAuthority ==
    ASSUME NEW record, NEW prior, VerifiesAsStored(record, prior),
           record.payload.authority_state = "AUTHORIZED"
    PROVE  LET body == record.payload.body
               signers == Signers(record.payload.approvals)
           IN  /\ record.signer \in signers \cap Principals(body.authority_policy)
               /\ Quorate(body.authority_policy, signers, body.verification_results)
               /\ \A r \in prior : Rlp1(r) => body.authority_policy.mode = "EXTERNAL"
<1> DEFINE body == record.payload.body
           signers == Signers(record.payload.approvals)
           state == derive_authority_state(body.authority_policy, record.signer,
                                           signers, body.verification_results)
<1>1. AuthorityState(body, record.signer, signers, prior) = "AUTHORIZED"
  BY DEF VerifiesAsStored, verify_rlp2_resolution, ExpectedAuthority
<1>2. /\ state = "AUTHORIZED"
      /\ \A r \in prior : Rlp1(r) => body.authority_policy.mode = "EXTERNAL"
  BY <1>1 DEF AuthorityState, _bootstrap_adjusted_authority_state
<1>3. validate_authority_policy(body.authority_policy)
  BY StoredIsDerived DEF Derivable
<1> QED
  BY <1>2, <1>3, AuthorizedIsQuorate

(***************************************************************************)
(* A record that names an RLP-1 predecessor carries no authority where it  *)
(* verifies without it.                                                    *)
(***************************************************************************)
LEMMA OrphanIsUnresolved ==
    ASSUME NEW record, VerifiesAsStored(record, None),
           record.payload.body.previous_profile = Some("RLP-1")
    PROVE  record.payload.authority_state = "UNRESOLVED"
<1> DEFINE body == record.payload.body
<1>1. /\ BodyIsDerived(body, None)
      /\ record.payload.authority_state = ExpectedAuthority(record, None)
  BY DEF VerifiesAsStored, verify_rlp2_resolution
<1>2. ASSUME ~ Standalone(body, None)
      PROVE  FALSE
  <2>1. body = _build_body(body, body.verification_results, None)
    BY <1>1, <1>2 DEF BodyIsDerived
  <2>2. _build_body(body, body.verification_results, None).previous_profile = {}
    BY DEF _build_body, None
  <2>3. body.previous_profile = {}
    BY <2>1, <2>2
  <2> QED
    BY <2>3 DEF Some
<1> QED
  BY <1>1, <1>2 DEF ExpectedAuthority

LEMMA StoredIsApproved ==
    ASSUME NEW record, NEW prior, VerifiesAsStored(record, prior)
    PROVE  /\ verify_envelope(record, RLP2_KIND)
           /\ verify_authority_approvals(record.payload.approvals,
                  hash_object(record.payload.body),
                  hash_object(record.payload.body.authority_policy))
BY StoredIsDerived DEF VerifiesAsStored, verify_rlp2_resolution, Approved

-----------------------------------------------------------------------------
(***************************************************************************)
(* The gate.  A PERMIT, and what the scope it was given for lies in.       *)
(***************************************************************************)
LEMMA PermitMeans ==
    ASSUME NEW gate, NEW verdict, validate_action_policy(gate.policy),
           derive_action_decision(gate.action_id, gate.requested_scope, verdict,
                                  gate.policy, gate.scope_adapters) = "PERMIT"
    PROVE  /\ verdict.authority_state = "AUTHORIZED"
           /\ verdict.state # "UNRESOLVED"
           /\ \E i \in DOMAIN gate.policy.rules :
                  LET rule == gate.policy.rules[i]
                  IN  /\ rule.action = gate.action_id
                      /\ verdict.state \in rule.allowed_resolution_states
                      /\ rule.require_scope_containment =>
                             scope_contains(verdict.effective_scope,
                                            gate.requested_scope,
                                            gate.scope_adapters) = "TRUE"
<1> DEFINE matching == {i \in DOMAIN gate.policy.rules :
                            gate.policy.rules[i].action = gate.action_id}
           chosen == CHOOSE i \in matching : TRUE
           rule == gate.policy.rules[chosen]
<1>1. /\ verdict.authority_state = "AUTHORIZED"
      /\ matching # {}
      /\ RuleDecision(rule, verdict, gate.requested_scope, gate.scope_adapters)
             = "PERMIT"
  BY DEF derive_action_decision
<1>2. chosen \in matching
  BY <1>1
<1>3. /\ verdict.state # "UNRESOLVED"
      /\ verdict.state \in rule.allowed_resolution_states
      /\ ScopeDecision(rule, verdict.effective_scope, gate.requested_scope,
                       gate.scope_adapters) = "PERMIT"
  BY <1>1 DEF RuleDecision
<1>4. rule.require_scope_containment =>
          scope_contains(verdict.effective_scope, gate.requested_scope,
                         gate.scope_adapters) = "TRUE"
  BY <1>3 DEF ScopeDecision
<1> QED
  BY <1>1, <1>2, <1>3, <1>4

(***************************************************************************)
(* What lies in an effective scope lies in the original one, if the caller *)
(* does not replace the adapter for sets of strings.                       *)
(***************************************************************************)
LEMMA OriginalContains ==
    ASSUME NEW original, NEW effective, NEW requested, NEW adapters, NEW state,
           validate_scope_transition(original, effective, state),
           scope_contains(effective, requested, adapters) = "TRUE",
           "string-set/v1" \notin DOMAIN adapters
    PROVE  scope_contains(original, requested, adapters) = "TRUE"
<1>1. CASE original = effective
  BY <1>1
<1>2. CASE original # effective
  <2>1. scope_contains(original, effective, NoAdapters) = "TRUE"
    BY <1>2 DEF validate_scope_transition
  <2>2. \/ /\ original.adapter = "exact/v1" /\ effective.adapter = "exact/v1"
           /\ original.value = effective.value
        \/ /\ original.adapter = "string-set/v1"
           /\ effective.adapter = "string-set/v1"
           /\ string_set_scope_adapter(original.value, effective.value) = "TRUE"
    BY <2>1 DEF scope_contains, NoAdapters, exact_scope_adapter
  <2>3. CASE original.adapter = "exact/v1"
    BY <2>2, <2>3 DEF scope_contains
  <2>4. CASE original.adapter = "string-set/v1"
    <3>1. /\ effective.adapter = "string-set/v1"
          /\ requested.adapter = "string-set/v1"
          /\ string_set_scope_adapter(original.value, effective.value) = "TRUE"
          /\ string_set_scope_adapter(effective.value, requested.value) = "TRUE"
      BY <2>2, <2>4 DEF scope_contains
    <3>2. string_set_scope_adapter(original.value, requested.value) = "TRUE"
      BY <3>1 DEF string_set_scope_adapter
    <3> QED
      BY <2>4, <3>1, <3>2 DEF scope_contains
  <2> QED
    BY <2>2, <2>3, <2>4
<1> QED
  BY <1>1, <1>2

-----------------------------------------------------------------------------
(***************************************************************************)
(* Signing.  A body stands for the draft it was built from.                *)
(***************************************************************************)
LEMMA BodyStandsForDraft ==
    ASSUME NEW draft, NEW results, NEW prior, BodyBuilds(draft, results, prior)
    PROVE  LET body == _build_body(draft, results, prior)
           IN  /\ body.verification_results = results
               /\ body.authority_policy = draft.authority_policy
               /\ body.authority_policy_digest = hash_object(draft.authority_policy)
               /\ body.previous = LinkTo(prior)
               /\ BodyBuilds(body, results, prior)
               /\ body = _build_body(body, results, prior)
<1> DEFINE body == _build_body(draft, results, prior)
<1>1. /\ body.subject = draft.subject
      /\ body.original_target = draft.original_target
      /\ body.effective_target = draft.effective_target
      /\ body.original_scope = draft.original_scope
      /\ body.effective_scope = draft.effective_scope
      /\ body.evidence = draft.evidence
      /\ body.verification_specs = draft.verification_specs
      /\ body.verification_results = results
      /\ body.authority_policy = draft.authority_policy
      /\ body.checks = draft.checks
      /\ body.revision_reason = draft.revision_reason
      /\ body.previous = LinkTo(prior)
      /\ body.authority_policy_digest = hash_object(draft.authority_policy)
  BY DEF _build_body, authority_policy_digest
<1>2. KernelState(body) = KernelState(draft)
  BY <1>1 DEF KernelState
<1>3. body = _build_body(body, results, prior)
  BY <1>1, <1>2 DEF _build_body
<1> HIDE DEF body
<1>4. BodyBuilds(body, results, prior)
  BY <1>1, <1>2 DEF BodyBuilds, Derivable, ContinuesIdentity
<1> QED
  BY <1>1, <1>3, <1>4 DEF body

(***************************************************************************)
(* Approvals the library makes, with no key listed twice, are accepted and *)
(* are the keys'.                                                          *)
(***************************************************************************)
LEMMA SignedApprovalsAccepted ==
    ASSUME NEW keys, IsInjective(keys), NEW body_digest, NEW policy_digest
    PROVE  LET approvals == sign_authority_approvals(keys, body_digest, policy_digest)
           IN  /\ verify_authority_approvals(approvals, body_digest, policy_digest)
               /\ Signers(approvals) = {keys[i] : i \in DOMAIN keys}
BY DEF sign_authority_approvals, verify_authority_approvals, AcceptableApprovals,
       BoundTo, verify_envelope, sign_envelope, Signers, IsInjective

LEMMA SignedTransitionAccepted ==
    ASSUME NEW keys, IsInjective(keys), NEW body_digest, NEW from, NEW to,
           NEW results, validate_authority_policy(from),
           Quorate(from, Range(keys), results)
    PROVE  TransitionAuthorized(
               sign_transition_approvals(keys, body_digest, hash_object(from),
                                         hash_object(to)),
               body_digest, from, to, results)
<1> DEFINE approvals == sign_transition_approvals(keys, body_digest,
                            hash_object(from), hash_object(to))
<1>1. AcceptableApprovals(approvals, TRANSITION_APPROVAL_KIND,
          transition_payload(body_digest, authority_policy_digest(from),
                             authority_policy_digest(to)))
  BY DEF sign_transition_approvals, AcceptableApprovals, BoundTo,
         verify_envelope, sign_envelope, IsInjective, authority_policy_digest
<1>2. Signers(approvals) = Range(keys)
  BY DEF sign_transition_approvals, Signers, sign_envelope, Range
<1> HIDE DEF approvals
<1>3. \E actor \in Signers(approvals) :
          derive_authority_state(from, actor, Signers(approvals), results)
              = "AUTHORIZED"
  BY <1>2, QuorateIsAuthorized
<1>4. TransitionAuthorized(approvals, body_digest, from, to, results)
  BY <1>1, <1>3 DEF TransitionAuthorized
<1> QED
  BY <1>4 DEF approvals

(***************************************************************************)
(* A predecessor whose policy can be judged: its digest is of its policy,  *)
(* which is valid.                                                         *)
(***************************************************************************)
Judges(record) ==
    LET body == record.payload.body
    IN  /\ validate_authority_policy(body.authority_policy)
        /\ body.authority_policy_digest = hash_object(body.authority_policy)

(***************************************************************************)
(* What the library signs with sufficient keys, a verifier accepts that is *)
(* given the same predecessor.                                             *)
(***************************************************************************)
LEMMA SignedVerifies ==
    ASSUME NEW draft, NEW adapters, NEW native, NEW S, NEW keys \in Seq(S),
           NEW prior, NEW transition_keys,
           prior = None \/ \E r : prior = Some(r),
           CanSign(draft, adapters, native, keys, prior, transition_keys),
           IsInjective(keys),
           LET body == SignedBody(draft, adapters, native, prior)
           IN  ChangesPolicy(body, prior) =>
                   /\ IsInjective(transition_keys)
                   /\ \A old \in prior :
                          Quorate(old.payload.body.authority_policy,
                                  Range(transition_keys),
                                  old.payload.body.verification_results),
           \A old \in prior : Rlp2(old) => Judges(old)
    PROVE  VerifiesAsStored(
               sign_rlp2_resolution(draft, adapters, native, keys, prior,
                                    transition_keys),
               prior)
<1> DEFINE results == verify_evidence_set(draft.evidence, draft.verification_specs,
                                          adapters, native)
           body == _build_body(draft, results, prior)
           approvals == sign_authority_approvals(keys, hash_object(body),
                                                 body.authority_policy_digest)
           signers == Signers(approvals)
           transitions == TransitionApprovals(body, prior, transition_keys)
           record == sign_rlp2_resolution(draft, adapters, native, keys, prior,
                                          transition_keys)
<1>1. SignedBody(draft, adapters, native, prior) = body
  BY DEF SignedBody
<1>2. BodyBuilds(draft, results, prior)
  BY DEF CanSign
<1>3. /\ body.verification_results = results
      /\ body.authority_policy_digest = hash_object(body.authority_policy)
      /\ body.previous = LinkTo(prior)
      /\ BodyBuilds(body, results, prior)
      /\ body = _build_body(body, results, prior)
  BY <1>2, BodyStandsForDraft
<1>4. /\ record.kind = RLP2_KIND
      /\ record.signed = TRUE
      /\ record.signer = keys[1]
      /\ record.payload.body = body
      /\ record.payload.authority_state = AuthorityState(body, keys[1], signers, prior)
      /\ record.payload.approvals = approvals
      /\ record.payload.transition_approvals = transitions
  BY <1>1 DEF sign_rlp2_resolution, sign_envelope
<1>5. /\ verify_authority_approvals(approvals, hash_object(body),
                                    body.authority_policy_digest)
      /\ keys[1] \in signers
  <2>1. 1 \in DOMAIN keys
    BY DEF CanSign
  <2> HIDE DEF body
  <2> QED
    BY <2>1, SignedApprovalsAccepted
<1>6. ~ Standalone(body, prior)
  BY <1>3 DEF Standalone, LinkTo, None
<1>7. ChangesPolicy(body, prior) =>
          /\ IsInjective(transition_keys)
          /\ \A old \in prior :
                 Quorate(old.payload.body.authority_policy,
                         Range(transition_keys),
                         old.payload.body.verification_results)
  BY <1>1
<1>8. Continues(record.payload, prior)
  <2> HIDE DEF record, body
  <2>1. CASE prior = None
    <3>1. ~ ChangesPolicy(body, prior)
      BY <2>1 DEF ChangesPolicy, None
    <3> QED
      BY <2>1, <3>1, <1>4 DEF Continues, TransitionApprovals
  <2>2. CASE prior # None
    <3>1. PICK old : prior = Some(old)
      BY <2>2
    <3>2. CASE Rlp1(old) \/ ~ ChangesPolicy(body, prior)
      <4>1. ~ ChangesPolicy(body, prior)
        BY <3>1, <3>2 DEF ChangesPolicy, Some, Rlp1, Rlp2
      <4>2. transitions = <<>>
        BY <4>1 DEF TransitionApprovals
      <4> QED
        BY <2>2, <3>1, <3>2, <4>2, <1>4 DEF Continues, Some, TransitionAllowed
    <3>3. CASE ~ Rlp1(old) /\ ChangesPolicy(body, prior)
      <4>1. Rlp2(old)
        BY <3>1, <3>3 DEF ChangesPolicy, Some
      <4>2. /\ validate_authority_policy(old.payload.body.authority_policy)
            /\ old.payload.body.authority_policy_digest
                   = hash_object(old.payload.body.authority_policy)
        BY <3>1, <4>1 DEF Judges, Some
      <4>3. (CHOOSE r \in prior : TRUE) = old
        BY <3>1 DEF Some
      <4>4. transitions = sign_transition_approvals(transition_keys,
                              hash_object(body),
                              hash_object(old.payload.body.authority_policy),
                              hash_object(body.authority_policy))
        BY <3>3, <4>2, <4>3, <1>3 DEF TransitionApprovals
      <4>5. TransitionAuthorized(transitions, hash_object(body),
                old.payload.body.authority_policy, body.authority_policy,
                old.payload.body.verification_results)
        BY <3>1, <3>3, <4>2, <4>4, <1>7, SignedTransitionAccepted DEF Some
      <4> QED
        BY <2>2, <3>1, <3>3, <4>5, <1>4 DEF Continues, Some, TransitionAllowed
    <3> QED
      BY <3>2, <3>3
  <2> QED
    BY <2>1, <2>2
<1> HIDE DEF record, body, results, approvals, transitions
<1>9. BodyIsDerived(body, prior)
  BY <1>3, <1>6 DEF BodyIsDerived
<1>10. /\ Approved(record)
       /\ ExpectedAuthority(record, prior) = record.payload.authority_state
       /\ verify_envelope(record, RLP2_KIND)
  BY <1>4, <1>5, <1>6 DEF Approved, ExpectedAuthority, verify_envelope
<1>11. Recomputes(body, None, <<>>)
  BY DEF Recomputes, None
<1> QED
  BY <1>4, <1>8, <1>9, <1>10, <1>11
     DEF VerifiesAsStored, verify_rlp2_resolution, record
=============================================================================
