----------------------------- MODULE Rlp2Lineage -----------------------------
(***************************************************************************)
(* RLP-2 lineages and the integrated action path: verify_rlp2_lineage and  *)
(* verify_and_decide_action (rlp2.py).                                     *)
(*                                                                         *)
(* Signers publish RLP-1 and RLP-2 records; records are also put together  *)
(* from the parts of published ones, as co-signers do who collect each     *)
(* other's approvals.  A verifier, with adapters of its own or none, walks *)
(* a list of published records one record a step, and the gate decides an  *)
(* action on the verdict.  What the native systems answer about a piece of *)
(* evidence may change at any time, also between two steps of the walk.    *)
(***************************************************************************)
EXTENDS Rlp2, ActionPolicy, SequencesExt

CONSTANTS DIDs,             \* the key holders
          Rlp1Drafts,       \* arguments of RLP-1 records
          Drafts,           \* arguments of RLP-2 records
          KeyLists,         \* lists of keys a record is signed with
          TransitionKeys,   \* lists of keys a policy change is approved with
          SignerAdapters,   \* adapter registries signers use
          VerifierAdapters, \* None, or Some registry, a verifier uses
          Evidence,         \* all evidence ids
          Answers,          \* what a native system may answer
          Collectors,       \* who puts records together from parts
          ClaimedStates,    \* authority states such a record may claim
          Gates,            \* actions asked for: [action_id, requested_scope,
                            \*   policy, scope_adapters]
          MaxObjects,       \* bound: how many records are ever published
          MaxLength         \* bound: the longest list handed to the verifier

ASSUME BoundsAssumption == MaxObjects \in Nat /\ MaxLength \in Nat

(***************************************************************************)
(* Keys are given as a list, and a policy names its principals in one.     *)
(***************************************************************************)
ASSUME ListsAssumption ==
    /\ KeyLists \subseteq Seq(DIDs)
    /\ \A draft \in Drafts :
           draft.authority_policy.principals
               \in Seq(Principals(draft.authority_policy))

VARIABLES published,    \* every record that exists
          honest,       \* history: those signed by the library, with keys
                        \*   that suffice (see SignedProperly)
          native,       \* what the native system answers about each id now
          status,       \* what the verifier is doing, or its last verdict
          registry,     \* verification_adapters of the call
          records,      \* the list it was called with
          index,        \* how many of them the loop has passed
          previous,     \* the loop's variable: the record before, or None
          current,      \* the loop's variable: the last verdict, or None
          witnessed,    \* history: <<id, source, state>> the adapters gave
                        \*   during this call
          decision      \* the gate's answer: None or Some [gate, decision,
                        \*   resolution_head]

ledger == <<published, honest>>
call == <<registry, records, index, previous, current, witnessed, decision>>
vars == <<ledger, native, status, call>>

Init ==
    /\ published = {}
    /\ honest = {}
    /\ native \in [Evidence -> Answers]
    /\ status = "idle"
    /\ registry = None
    /\ records = <<>>
    /\ index = 0
    /\ previous = None
    /\ current = None
    /\ witnessed = {}
    /\ decision = None

-----------------------------------------------------------------------------
(***************************************************************************)
(* The signers.                                                            *)
(***************************************************************************)
Room == Cardinality(published) < MaxObjects

Publish(record) ==
    /\ published' = published \cup {record}
    /\ UNCHANGED <<native, status, call>>

SignResolution ==
    /\ Room
    /\ \E draft \in Rlp1Drafts, did \in DIDs, prior \in Optional(published) :
           LET record == sign_resolution(draft, did, prior)
           IN  /\ Buildable(draft, LinkTo(prior))
               /\ Publish(record)
               /\ honest' = honest \cup {record}

(***************************************************************************)
(* sign_rlp2_resolution takes any keys; the record is signed properly if   *)
(* no key is listed twice and, where the policy changes, the transition    *)
(* keys are a quorum of the policy before.                                 *)
(***************************************************************************)
SignedProperly(record, keys, prior, transition_keys) ==
    /\ IsInjective(keys)
    /\ ChangesPolicy(record.payload.body, prior) =>
           /\ IsInjective(transition_keys)
           /\ \A old \in prior :
                  Quorate(old.payload.body.authority_policy,
                          Range(transition_keys),
                          old.payload.body.verification_results)

SignRlp2 ==
    /\ Room
    /\ \E draft \in Drafts, keys \in KeyLists, adapters \in SignerAdapters,
          prior \in Optional(published), transition_keys \in TransitionKeys :
           LET record == sign_rlp2_resolution(draft, adapters, native, keys,
                                              prior, transition_keys)
           IN  /\ CanSign(draft, adapters, native, keys, prior, transition_keys)
               /\ Publish(record)
               /\ honest' =
                      IF SignedProperly(record, keys, prior, transition_keys)
                      THEN honest \cup {record}
                      ELSE honest

(***************************************************************************)
(* A record put together from the body of one and the approvals of one or  *)
(* both, signed by the collector.                                          *)
(***************************************************************************)
Collected(one, other, state, did) ==
    {sign_envelope(RLP2_KIND,
                   [body |-> one.payload.body, authority_state |-> state,
                    approvals |-> approvals,
                    transition_approvals |-> transitions],
                   did) :
         approvals \in {other.payload.approvals,
                        one.payload.approvals \o other.payload.approvals},
         transitions \in {one.payload.transition_approvals,
                          other.payload.transition_approvals}}

Rlp2Records == {record \in published : Rlp2(record)}

CollectApprovals ==
    /\ Room
    /\ \E one \in Rlp2Records, other \in Rlp2Records, state \in ClaimedStates,
          did \in Collectors :
           \E record \in Collected(one, other, state, did) : Publish(record)
    /\ UNCHANGED honest

(***************************************************************************)
(* A signed record rewritten in place, keeping its signature.              *)
(***************************************************************************)
RewriteRecord ==
    /\ Room
    /\ \E record \in Rlp2Records, state \in ClaimedStates :
           /\ state # record.payload.authority_state
           /\ Publish(Edited(record,
                             [record.payload EXCEPT !.authority_state = state]))
    /\ UNCHANGED honest

(***************************************************************************)
(* The native system comes to answer otherwise: a check ends, a payment is *)
(* final, an attestation is revoked, a service is down.                    *)
(***************************************************************************)
NativeChanges ==
    /\ \E e \in Evidence, answer \in Answers :
           native' = [native EXCEPT ![e] = answer]
    /\ UNCHANGED <<ledger, status, call>>

-----------------------------------------------------------------------------
(***************************************************************************)
(* verify_rlp2_lineage.                                                    *)
(***************************************************************************)
StartLineage ==
    /\ status = "idle"
    /\ records' \in BoundedSeq(published, MaxLength)
    /\ registry' \in VerifierAdapters
    /\ status' = IF records' = <<>> THEN "rejected" ELSE "checking"
    /\ UNCHANGED <<ledger, native, index, previous, current, witnessed, decision>>

NextRecord == records[index + 1]

AtRecord == status = "checking" /\ index < Len(records)

(***************************************************************************)
(* A fault: an RLP-1 record anywhere in the lineage.                       *)
(***************************************************************************)
AcceptsAncestorAnywhere == Rlp1(NextRecord) /\ verify_first(NextRecord)

(***************************************************************************)
(* An RLP-1 record may only be the first.  (The code's seen_rlp2 adds      *)
(* nothing: after an RLP-2 record, previous is not None.)                  *)
(***************************************************************************)
AcceptsAncestor == Rlp1(NextRecord) /\ previous = None /\ verify_first(NextRecord)

AcceptsRlp2 ==
    /\ Rlp2(NextRecord)
    /\ verify_rlp2_resolution(NextRecord, previous, registry, native)

PassAncestor ==
    /\ AtRecord
    /\ AcceptsAncestor
    /\ index' = index + 1
    /\ previous' = Some(NextRecord)
    /\ UNCHANGED <<ledger, native, status, registry, records, current,
                   witnessed, decision>>

Observations(body) ==
    UNION {{<<e, source, NormalForm[native[e]]>> :
                source \in adapters[body.verification_specs[e].method]} :
               e \in body.evidence, adapters \in registry}

CheckRecord ==
    /\ AtRecord
    /\ AcceptsRlp2
    /\ index' = index + 1
    /\ previous' = Some(NextRecord)
    /\ current' = Some(VerdictOf(NextRecord, previous, registry))
    /\ witnessed' = witnessed \cup Observations(NextRecord.payload.body)
    /\ UNCHANGED <<ledger, native, status, registry, records, decision>>

(***************************************************************************)
(* A fault: a successor that fails is not refused.                         *)
(***************************************************************************)
RejectFirstRecord ==
    /\ AtRecord
    /\ previous = None
    /\ ~ AcceptsAncestor /\ ~ AcceptsRlp2
    /\ status' = "rejected"
    /\ UNCHANGED <<ledger, native, call>>

RejectRecord ==
    /\ AtRecord
    /\ ~ AcceptsAncestor /\ ~ AcceptsRlp2
    /\ status' = "rejected"
    /\ UNCHANGED <<ledger, native, call>>

(***************************************************************************)
(* After the last record, the verdict on it is returned, with the length   *)
(* of the list; a list of an RLP-1 record alone is refused.                *)
(***************************************************************************)
ReturnLineage ==
    /\ status = "checking"
    /\ index = Len(records)
    /\ status' = IF current = None THEN "rejected" ELSE "verified"
    /\ current' = {[verdict EXCEPT !.records = Some(Len(records))] :
                       verdict \in current}
    /\ UNCHANGED <<ledger, native, registry, records, index, previous,
                   witnessed, decision>>

(***************************************************************************)
(* verify_and_decide_action: the gate, on the verdict and nothing else.    *)
(***************************************************************************)
GateDecision(gate, verdict) ==
    derive_action_decision(gate.action_id, gate.requested_scope, verdict,
                           gate.policy, gate.scope_adapters)

Decide ==
    /\ status = "verified"
    /\ \E gate \in Gates, verdict \in current :
           IF validate_action_policy(gate.policy)
           THEN /\ status' = "decided"
                /\ decision' = Some([gate |-> gate,
                                     decision |-> GateDecision(gate, verdict),
                                     resolution_head |-> Some(verdict.head)])
           ELSE /\ status' = "rejected"
                /\ UNCHANGED decision
    /\ UNCHANGED <<ledger, native, registry, records, index, previous, current,
                   witnessed>>

(***************************************************************************)
(* A fault: the loop's variables outlive the call.                         *)
(***************************************************************************)
EndCallKeepingLoop ==
    /\ status \in {"verified", "decided", "rejected"}
    /\ status' = "idle"
    /\ registry' = None
    /\ records' = <<>>
    /\ index' = 0
    /\ witnessed' = {}
    /\ decision' = None
    /\ UNCHANGED <<ledger, native, previous, current>>

EndCall ==
    /\ status \in {"verified", "decided", "rejected"}
    /\ status' = "idle"
    /\ registry' = None
    /\ records' = <<>>
    /\ index' = 0
    /\ previous' = None
    /\ current' = None
    /\ witnessed' = {}
    /\ decision' = None
    /\ UNCHANGED <<ledger, native>>

Next ==
    \/ SignResolution
    \/ SignRlp2
    \/ CollectApprovals
    \/ RewriteRecord
    \/ NativeChanges
    \/ StartLineage
    \/ PassAncestor
    \/ CheckRecord
    \/ RejectRecord
    \/ ReturnLineage
    \/ Decide
    \/ EndCall

Spec == Init /\ [][Next]_vars

(***************************************************************************)
(* The walk is a loop of one thread: a started call goes on to its end.    *)
(* Nothing is assumed of signers, native systems or callers.               *)
(***************************************************************************)
Walk == PassAncestor \/ CheckRecord \/ RejectRecord \/ ReturnLineage

FairSpec == Spec /\ WF_vars(Walk)

-----------------------------------------------------------------------------
(***************************************************************************)
(* What a walk of a list to its end returns: the verdict on the last       *)
(* record, given the one before it, and how many records there were.       *)
(***************************************************************************)
PriorIn(list, i) == IF i = 1 THEN None ELSE Some(list[i - 1])

VerdictAt(list, i, adapters) == VerdictOf(list[i], PriorIn(list, i), adapters)

LineageVerdict(list, adapters) ==
    [VerdictAt(list, Len(list), adapters) EXCEPT !.records = Some(Len(list))]

(***************************************************************************)
(* Type invariant.  A record holds digests of other records, so no set     *)
(* contains them all; the walk's variables are typed by what it walks.     *)
(***************************************************************************)
TypeOK ==
    /\ honest \subseteq published
    /\ native \in [Evidence -> Answers]
    /\ status \in {"idle", "checking", "rejected", "verified", "decided"}
    /\ registry \in VerifierAdapters \cup {None}
    /\ records \in Seq(published)
    /\ index \in 0 .. Len(records)
    /\ previous = IF index = 0 THEN None ELSE Some(records[index])
    /\ current = IF index = 0 \/ Rlp1(records[index]) THEN None
                 ELSE IF status # "checking" /\ index = Len(records)
                 THEN Some(LineageVerdict(records, registry))
                 ELSE Some(VerdictAt(records, index, registry))
    /\ \A d \in decision : d.gate \in Gates /\ status = "decided"

Verified == status \in {"verified", "decided"}

(***************************************************************************)
(* A verified lineage is one history.  RLP-1 is only ever its first        *)
(* record; every other record names the exact record before it and that    *)
(* record's profile, says why it revises it, and keeps subject and         *)
(* original target.  The first may itself have a predecessor nobody        *)
(* supplied.                                                               *)
(***************************************************************************)
Continuation(record, prior) ==
    LET body == record.payload.body
    IN  /\ body.previous = Some(hash_object(prior))
        /\ body.previous_profile = Some(_previous_profile(prior))
        /\ body.revision_reason # None
        /\ body.subject = _previous_payload(prior).subject
        /\ body.original_target = _previous_payload(prior).original_target

OneHistory(list) ==
    /\ \A i \in DOMAIN list : list[i].signed
    /\ \A i \in 2 .. Len(list) :
           Rlp2(list[i]) /\ Continuation(list[i], list[i - 1])
    /\ Rlp1(list[1]) => list[1].payload.previous = None
    /\ \E i \in DOMAIN list : Rlp2(list[i])

VerifiedIsOneHistory == Verified => OneHistory(records)

(***************************************************************************)
(* Those who have consented to a body, and to a change of policy in it:    *)
(* the signers of genuine approvals that name exactly this body and these  *)
(* policies.                                                               *)
(***************************************************************************)
Consenting(approvals, kind, expected) ==
    {approvals[i].signer : i \in {j \in DOMAIN approvals :
        /\ approvals[j].signed
        /\ approvals[j].kind = kind
        /\ approvals[j].payload = expected}}

BodyConsent(payload) ==
    Consenting(payload.approvals, AUTHORITY_APPROVAL_KIND,
               approval_payload(hash_object(payload.body),
                                hash_object(payload.body.authority_policy)))

TransitionConsent(payload, old_policy) ==
    Consenting(payload.transition_approvals, TRANSITION_APPROVAL_KIND,
               transition_payload(hash_object(payload.body),
                                  hash_object(old_policy),
                                  hash_object(payload.body.authority_policy)))

(***************************************************************************)
(* Authority is earned: no verified record says AUTHORIZED unless its own  *)
(* signer is a principal who approved this very body and a quorum of the   *)
(* policy's principals did, or, for an EXTERNAL policy, all the evidence   *)
(* of authority is recorded VERIFIED.  Approvals lifted from another body  *)
(* or another policy, counted twice, or given by strangers never help.     *)
(***************************************************************************)
EarnedAuthority(record) ==
    LET body == record.payload.body
        consent == BodyConsent(record.payload)
    IN  /\ record.signer \in consent \cap Principals(body.authority_policy)
        /\ Quorate(body.authority_policy, consent, body.verification_results)

AuthorityIsEarned ==
    Verified => \A i \in DOMAIN records :
        Rlp2(records[i]) /\ records[i].payload.authority_state = "AUTHORIZED"
            => EarnedAuthority(records[i])

(***************************************************************************)
(* Policy continuity: where a verified record has another authority policy *)
(* than the RLP-2 record before it, a quorum of the policy before approved *)
(* this change in this body.                                               *)
(***************************************************************************)
PolicyConsented(record, prior) ==
    LET old == prior.payload.body
    IN  old.authority_policy # record.payload.body.authority_policy =>
            Quorate(old.authority_policy,
                    TransitionConsent(record.payload, old.authority_policy),
                    old.verification_results)

PolicyChangesAreConsented ==
    Verified => \A i \in 2 .. Len(records) :
        Rlp2(records[i - 1]) => PolicyConsented(records[i], records[i - 1])

(***************************************************************************)
(* The direct successor of an RLP-1 record has authority only under an     *)
(* EXTERNAL policy: its principals cannot be its own anchor.  Where that   *)
(* predecessor was not supplied, it has none at all, though the policy is  *)
(* EXTERNAL and its evidence verified: it says UNRESOLVED or is refused.   *)
(***************************************************************************)
BootstrapIsExternal ==
    Verified =>
        /\ \A i \in 2 .. Len(records) :
               /\ Rlp1(records[i - 1])
               /\ records[i].payload.authority_state = "AUTHORIZED"
               => records[i].payload.body.authority_policy.mode = "EXTERNAL"
        /\ Rlp2(records[1])
           /\ records[1].payload.body.previous_profile = Some("RLP-1")
           => records[1].payload.authority_state = "UNRESOLVED"

(***************************************************************************)
(* The head names the history: two lists that verify and end in the same   *)
(* record agree on every record both contain.  One may only begin later.   *)
(***************************************************************************)
Chained(list) ==
    \A i \in DOMAIN list :
        IF Rlp1(list[i]) THEN i = 1 /\ verify_first(list[i])
        ELSE verify_rlp2_resolution(list[i], PriorIn(list, i), None, native)

HeadFixesHistory ==
    Verified => \A other \in BoundedSeq(published, MaxLength) :
        /\ other # <<>>
        /\ Last(other) = Last(records)
        /\ Chained(other)
        => IsSuffix(other, records) \/ IsSuffix(records, other)

(***************************************************************************)
(* What the library signed with sufficient keys, a verifier that recomputes*)
(* nothing accepts: no complete lineage of such records is refused.        *)
(***************************************************************************)
HonestLineage(list) ==
    /\ list # <<>>
    /\ \A i \in DOMAIN list : list[i] \in honest
    /\ OneHistory(list)
    /\ Rlp2(list[1]) => list[1].payload.body.previous = None

HonestLineagesVerify ==
    status = "rejected" /\ registry = None /\ index < Len(records) =>
        ~ HonestLineage(records)

(***************************************************************************)
(* The core invariant of the gate.  PERMIT is given only on a lineage that *)
(* is one history, whose head earned its authority, whose state is neither *)
(* unresolved nor outside the rule for this action, whose required checks  *)
(* rest on evidence recorded VERIFIED, and, where the rule asks, for a     *)
(* scope inside the head's effective scope, and inside its original scope  *)
(* unless the caller compares sets of strings in a way of its own.  The    *)
(* decision names that head.                                               *)
(***************************************************************************)
RestsOnVerified(body) ==
    \A i \in DOMAIN body.checks :
        body.checks[i].required =>
            \/ body.state = "FAILED" /\ body.checks[i].outcome = "UNRESOLVED"
            \/ /\ body.checks[i].outcome # "UNRESOLVED"
               /\ body.checks[i].evidence # <<>>
               /\ \A e \in Range(body.checks[i].evidence) :
                      body.verification_results[e].result = "VERIFIED"

Within(gate, scope) ==
    scope_contains(scope, gate.requested_scope, gate.scope_adapters) = "TRUE"

KeepsBuiltIn(gate) == "string-set/v1" \notin DOMAIN gate.scope_adapters

Permits(gate, record) ==
    LET body == record.payload.body
    IN  /\ record.payload.authority_state = "AUTHORIZED"
        /\ EarnedAuthority(record)
        /\ RestsOnVerified(body)
        /\ \E i \in DOMAIN gate.policy.rules :
               LET rule == gate.policy.rules[i]
               IN  /\ rule.action = gate.action_id
                   /\ body.state \in rule.allowed_resolution_states
                   /\ rule.require_scope_containment =>
                          /\ Within(gate, body.effective_scope)
                          /\ KeepsBuiltIn(gate) => Within(gate, body.original_scope)

PermitIsJustified ==
    \A d \in decision :
        d.decision = "PERMIT" =>
            /\ OneHistory(records)
            /\ Permits(d.gate, Last(records))
            /\ d.resolution_head = Some(hash_object(Last(records)))

(***************************************************************************)
(* A verdict called RECOMPUTED was: in this very call, an adapter with the *)
(* source the record names answered VERIFIED for every piece of evidence   *)
(* a resolved check of any verified record cites.                          *)
(***************************************************************************)
Witnessed(body) ==
    \A i \in DOMAIN body.checks :
        body.checks[i].outcome # "UNRESOLVED" =>
            \A e \in Range(body.checks[i].evidence) :
                \E w \in witnessed :
                    /\ w[1] = e
                    /\ hash_object(w[2]) = body.verification_specs[e].method_digest
                    /\ w[3] = "VERIFIED"

EvidenceIsWitnessed ==
    Verified /\ registry # None =>
        \A i \in DOMAIN records :
            Rlp2(records[i]) => Witnessed(records[i].payload.body)

(***************************************************************************)
(* A started verification ends, however often the native answers change    *)
(* between its steps and whatever is published meanwhile.                  *)
(***************************************************************************)
VerificationEnds == status = "checking" ~> status \in {"verified", "rejected"}

-----------------------------------------------------------------------------
(***************************************************************************)
(* The gate keeps ActionContract.  Consent is what genuine approvals in    *)
(* published records say; the answer is the decision, on the body of the   *)
(* last record walked.                                                     *)
(***************************************************************************)
Consents ==
    UNION {{[did |-> did, body |-> record.payload.body] :
                did \in BodyConsent(record.payload)} : record \in Rlp2Records}

Answered ==
    {[gate |-> d.gate, decision |-> d.decision,
      body |-> Last(records).payload.body] : d \in decision}

Contract == INSTANCE ActionContract WITH consents <- Consents, answer <- Answered

GateKeepsContract == Contract!Spec

-----------------------------------------------------------------------------
(***************************************************************************)
(* Statements of the documents that do not hold of the code.               *)
(***************************************************************************)

(***************************************************************************)
(* "Other bootstrap policies remain UNRESOLVED until an externally         *)
(* anchored RLP-2 policy exists and can authorize a later transition"      *)
(* (_bootstrap_adjusted_authority_state): a lineage that starts at RLP-1   *)
(* and never had an EXTERNAL policy carries no authority.                  *)
(***************************************************************************)
BootstrapStaysUnresolved ==
    /\ Verified
    /\ Rlp1(records[1])
    /\ \A i \in 2 .. Len(records) :
           records[i].payload.body.authority_policy.mode # "EXTERNAL"
    => \A i \in 2 .. Len(records) :
           records[i].payload.authority_state # "AUTHORIZED"

(***************************************************************************)
(* "Reality may move the operative conclusion in any evidence-supported    *)
(* direction, including UNRESOLVED -> SURVIVED" and "An independent        *)
(* verifier can recompute those results when it has the same declared      *)
(* adapter" (docs/RLP_2.md): an honest lineage whose head says what the    *)
(* adapters say now is not refused for what an earlier record said then.   *)
(***************************************************************************)
HeadIsCurrent ==
    Recomputes(Last(records).payload.body, registry, native)

RevisedLineageRecomputes ==
    status = "rejected" /\ registry # None /\ HonestLineage(records) =>
        Rlp1(Last(records)) \/ ~ HeadIsCurrent
=============================================================================
