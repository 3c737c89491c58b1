----------------------------- MODULE Resolution -----------------------------
(***************************************************************************)
(* RLP-1: the resolution kernel and the verification of one record         *)
(* (resolution.py).  Pure operators; a function of the source that raises  *)
(* ReceiptError is a predicate here, true when it returns.                 *)
(*                                                                         *)
(* A draft is the arguments of a record: a record with the fields subject, *)
(* original_target, effective_target, evidence (the set of evidence ids),  *)
(* checks (a sequence) and revision_reason (None or Some text).  A payload *)
(* has these fields and also state and previous (None or Some digest), so  *)
(* a payload can stand for its draft.                                      *)
(***************************************************************************)
EXTENDS Envelopes, Naturals, Sequences, Functions

RESOLUTION_KIND == "resolution-state"
CHECK_OUTCOMES == {"PASS", "FAIL", "UNRESOLVED"}

(***************************************************************************)
(* _validate_checks.  check.evidence is a list: it may repeat an id.       *)
(***************************************************************************)
CitesEvidence(check, evidence) ==
    /\ IsInjective(check.evidence)
    /\ Range(check.evidence) \subseteq evidence
    /\ check.outcome \in {"PASS", "FAIL"} => check.evidence # <<>>

_validate_checks(checks, evidence) ==
    /\ checks # <<>>
    /\ \A i, j \in DOMAIN checks : checks[i].id = checks[j].id => i = j
    /\ \A i \in DOMAIN checks : /\ checks[i].outcome \in CHECK_OUTCOMES
                                /\ CitesEvidence(checks[i], evidence)
    /\ \E i \in DOMAIN checks : checks[i].required

(***************************************************************************)
(* The outcomes that decide the state, and the state they decide: failure  *)
(* dominates missing evidence, which dominates success.                    *)
(***************************************************************************)
RequiredOutcomes(checks) ==
    {checks[i].outcome : i \in {j \in DOMAIN checks : checks[j].required}}

(***************************************************************************)
(* A fault the runs must notice: missing evidence hides a failure.         *)
(***************************************************************************)
derive_unresolved_first(original_target, effective_target, checks) ==
    IF "UNRESOLVED" \in RequiredOutcomes(checks) THEN "UNRESOLVED"
    ELSE IF "FAIL" \in RequiredOutcomes(checks) THEN "FAILED"
    ELSE IF effective_target # original_target THEN "NARROWED"
    ELSE "SURVIVED"

derive_resolution_state(original_target, effective_target, checks) ==
    IF "FAIL" \in RequiredOutcomes(checks) THEN "FAILED"
    ELSE IF "UNRESOLVED" \in RequiredOutcomes(checks) THEN "UNRESOLVED"
    ELSE IF effective_target # original_target THEN "NARROWED"
    ELSE "SURVIVED"

(***************************************************************************)
(* build_resolution_payload: when it succeeds, and what it returns.        *)
(***************************************************************************)
Buildable(draft, previous) ==
    /\ _validate_checks(draft.checks, draft.evidence)
    /\ (previous = None) <=> (draft.revision_reason = None)

FillPayload(draft, state, previous) ==
    [subject          |-> draft.subject,
     original_target  |-> draft.original_target,
     effective_target |-> draft.effective_target,
     evidence         |-> draft.evidence,
     checks           |-> draft.checks,
     state            |-> state,
     previous         |-> previous,
     revision_reason  |-> draft.revision_reason]

build_resolution_payload(draft, previous) ==
    FillPayload(draft,
                derive_resolution_state(draft.original_target,
                                        draft.effective_target, draft.checks),
                previous)

(***************************************************************************)
(* sign_resolution.  It hashes the predecessor it is given and does not    *)
(* look inside it: a record may be signed that no verifier will link.      *)
(***************************************************************************)
LinkTo(previous) == {hash_object(record) : record \in previous}

sign_resolution(draft, did, previous) ==
    sign_envelope(RESOLUTION_KIND,
                  build_resolution_payload(draft, LinkTo(previous)), did)

(***************************************************************************)
(* A fault: the verifier derives the state from all checks, also those     *)
(* that are not required.                                                  *)
(***************************************************************************)
StateIsDerivedFromAll(payload) ==
    /\ Buildable(payload, payload.previous)
    /\ payload.state = derive_resolution_state(payload.original_target,
           payload.effective_target,
           [i \in DOMAIN payload.checks |->
                [payload.checks[i] EXCEPT !.required = TRUE]])

(***************************************************************************)
(* verify_resolution.  The predecessor is itself verified with no          *)
(* predecessor of its own (line 231), so only a first record passes there. *)
(***************************************************************************)
StateIsDerived(payload) ==
    /\ Buildable(payload, payload.previous)
    /\ payload.state = derive_resolution_state(payload.original_target,
                                 payload.effective_target, payload.checks)

VerifiesAlone(envelope) ==
    /\ verify_envelope(envelope, RESOLUTION_KIND)
    /\ StateIsDerived(envelope.payload)

verify_first(envelope) ==
    /\ VerifiesAlone(envelope)
    /\ envelope.payload.previous = None

(***************************************************************************)
(* Faults: a link that is not compared, a target that may change, a        *)
(* conclusion that may not.                                                *)
(***************************************************************************)
LinksToAny(payload, previous) ==
    /\ payload.previous # None
    /\ payload.subject = previous.payload.subject
    /\ payload.original_target = previous.payload.original_target

LinksToOtherTarget(payload, previous) ==
    /\ payload.previous = Some(hash_object(previous))
    /\ payload.subject = previous.payload.subject

LinksToSameConclusion(payload, previous) ==
    /\ LinksToOtherTarget(payload, previous)
    /\ payload.original_target = previous.payload.original_target
    /\ payload.effective_target = previous.payload.effective_target

LinksTo(payload, previous) ==
    /\ payload.previous = Some(hash_object(previous))
    /\ payload.subject = previous.payload.subject
    /\ payload.original_target = previous.payload.original_target

verify_successor(envelope, previous) ==
    /\ VerifiesAlone(envelope)
    /\ verify_first(previous)
    /\ LinksTo(envelope.payload, previous)

verify_resolution(envelope, previous) ==
    IF previous = None
    THEN verify_first(envelope)
    ELSE \A record \in previous : verify_successor(envelope, record)
=============================================================================
