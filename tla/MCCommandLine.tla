--------------------------- MODULE MCCommandLine ---------------------------
(***************************************************************************)
(* Small instances of CommandLine: the scenarios a run goes through.       *)
(***************************************************************************)
EXTENDS CommandLine

Absent == None
File(content) == Some(Whole(content))

Scenario(tree, given, to_post) ==
    [tree |-> tree, commands |-> given, posts |-> to_post]

Keygen(out, did) ==
    [name |-> "keygen", reads |-> <<>>, out |-> Some(out), did |-> did]
Commit(policy, salt, out) ==
    [name |-> "commit-policy", reads |-> <<policy>>, salt |-> salt,
     out |-> Some(out)]
Sign(kind, payload, key, out) ==
    [name |-> "sign", reads |-> <<payload, key>>, kind |-> kind,
     out |-> Some(out)]
Request(room, nonce, body, key, out) ==
    [name |-> "technocore-record-request", reads |-> <<key, key>>,
     room |-> room, nonce |-> nonce, body |-> body, out |-> Some(out)]
VerifyRecord(room, input) ==
    [name |-> "verify-technocore-record", reads |-> <<input>>, room |-> room,
     out |-> None]
PlainRequest(room, nonce, text, key, out) ==
    [name |-> "technocore-request", reads |-> <<key>>, room |-> room,
     nonce |-> nonce, text |-> text, out |-> Some(out)]
VerifyRequest(room, input) ==
    [name |-> "verify-technocore", reads |-> <<input>>, room |-> room,
     out |-> None]
Verify(input, kind) ==
    [name |-> "verify", reads |-> <<input>>, kind |-> kind, out |-> None]
Hash(input) == [name |-> "hash", reads |-> <<input>>, out |-> None]
VerifyBundle ==
    [name |-> "verify-bundle", out |-> None,
     reads |-> <<"manifest", "claim", "verdict", "receipt">>]
Audit(names) ==
    [name |-> "audit", names |-> names, reads |-> names, out |-> None]

(***************************************************************************)
(* Keys: two commands make a key at one path while others sign with it.    *)
(***************************************************************************)
Nonce == TextNonce(7, 0)

KeyScenario ==
    Scenario([key |-> Absent, payload |-> File(Text("note")),
              envelope |-> Absent, request |-> Absent],
             <<Keygen("key", "issuer"), Keygen("key", "worker"),
               Sign("note", "payload", "key", "envelope"),
               Request("room", Nonce, "hello", "key", "request")>>, {})

(***************************************************************************)
(* Commitments: three of them race for one salt, there already or not, and *)
(* for two outputs.                                                        *)
(***************************************************************************)
CommitScenarios ==
    {Scenario([policy |-> File(Text("policy")), salt |-> salt,
               one |-> Absent, two |-> Absent],
              <<Commit("policy", "salt", "one"), Commit("policy", "salt", "two"),
                Commit("policy", "salt", "one")>>, {}) :
         salt \in {Absent, File([salt |-> 0])}}

(***************************************************************************)
(* Retry: a command was killed before while it was filling the salt or the *)
(* output.                                                                 *)
(***************************************************************************)
RetryScenario ==
    Scenario([policy |-> File(Text("policy")), salt |-> Some(Part),
              other_salt |-> Absent, one |-> Some(Part), two |-> Absent],
             <<Commit("policy", "salt", "two"), Commit("policy", "other_salt", "one"),
               Commit("policy", "other_salt", "two")>>, {})

(***************************************************************************)
(* Records: every way a nonce is written and given back, in the right room *)
(* and another, and bodies and nonces that make no request.                *)
(***************************************************************************)
RecordScenarios ==
    {Scenario([key |-> File(Key("worker")), request |-> Absent, record |-> Absent],
              <<Request("room", nonce, body, "key", "request"),
                VerifyRecord(room, "record")>>,
              {[request |-> "request", record |-> "record", form |-> form]}) :
         nonce \in {TextNonce(7, 0), TextNonce(7, 2), TextNonce(20, 0),
                    NumberNonce(7)},
         body \in {"hello", ""}, room \in {"room", "other-room"},
         form \in {"text", "number"}}

(***************************************************************************)
(* Plain requests: verified while they are made, and posted as records     *)
(* that hold no envelope; and envelopes, of any kind and of one.           *)
(***************************************************************************)
PlainScenarios ==
    {Scenario([key |-> File(Key("worker")), request |-> Absent, record |-> Absent],
              <<PlainRequest("room", Nonce, text, "key", "request"),
                VerifyRequest(room, "request"), VerifyRecord("room", "record")>>,
              {[request |-> "request", record |-> "record", form |-> "text"]}) :
         text \in {"hello", ""}, room \in {"room", "other-room"}}

EnvelopeScenarios ==
    {Scenario([key |-> File(Key("worker")), payload |-> File(Text("note")),
               envelope |-> Absent],
              <<Sign("note", "payload", "key", "envelope"),
                Verify("envelope", kind), Hash("envelope")>>, {}) :
         kind \in {None, Some("note"), Some("task-manifest")}}

(***************************************************************************)
(* Files that are no JSON, or that were cut short when a command before    *)
(* was killed.                                                             *)
(***************************************************************************)
BrokenScenarios ==
    {Scenario([policy |-> broken, salt |-> Absent, one |-> Absent,
               payload |-> File(Text("note")), key |-> other, two |-> Absent],
              <<Commit("policy", "salt", "one"),
                Sign("note", "payload", "key", "two"), Hash("key")>>, {}) :
         broken \in {File(Undecodable), Some(Part)},
         other \in {File(Undecodable), Some(Part)}}

(***************************************************************************)
(* Bundles.  Each document as it should be, given those before it.         *)
(***************************************************************************)
Field(value, f) == IF f \in DOMAIN value THEN value[f] ELSE Text("none")

ManifestPayload == [task_id |-> Text("task"), target |-> Text("target")]

ClaimPayload(m) == [task_id |-> Text("task"), manifest_hash |-> hash_object(m)]

VerdictPayload(m, c) ==
    [task_id |-> Text("task"), manifest_hash |-> hash_object(m),
     claim_hash |-> hash_object(c), outcome |-> Text("PASS"),
     test_results |-> Text("all pass"), disagreements |-> Text("none")]

ReceiptPayload(m, c, v) ==
    [task_id |-> Text("task"),
     evidence_hashes |-> [manifest |-> hash_object(m), claim |-> hash_object(c),
                          verdict |-> hash_object(v)],
     certified_exit |-> Field(v.payload, "outcome"),
     original_promise |-> Field(m.payload, "target"),
     test_results |-> Field(v.payload, "test_results"),
     disagreements |-> Field(v.payload, "disagreements")]

SignManifest(payload) == sign_envelope("task-manifest", payload, "issuer")
SignClaim(payload) == sign_envelope("worker-claim", payload, "worker")
SignVerdict(payload) == sign_envelope("verifier-verdict", payload, "verifier")
SignReceipt(payload) == sign_envelope("resolution-receipt", payload, "issuer")

Documents(m, c, v, r) == [manifest |-> m, claim |-> c, verdict |-> v, receipt |-> r]

WithVerdict(m, c, v) == Documents(m, c, v, SignReceipt(ReceiptPayload(m, c, v)))
WithClaim(m, c) == WithVerdict(m, c, SignVerdict(VerdictPayload(m, c)))
WithManifest(m) == WithClaim(m, SignClaim(ClaimPayload(m)))
Honest == WithManifest(SignManifest(ManifestPayload))

(***************************************************************************)
(* What may be wrong with a document: a field too many or missing, another *)
(* value, one that no set can hold, no object at all, another signer, an   *)
(* edit.                                                                   *)
(***************************************************************************)
Without(payload, f) == [g \in DOMAIN payload \ {f} |-> payload[g]]

With(payload, f, value) ==
    [g \in DOMAIN payload \cup {f} |-> IF g = f THEN value ELSE payload[g]]

Changed(payload) ==
    {Text("no object"), With(payload, "note", Text("more"))}
        \cup UNION {{Without(payload, f), [payload EXCEPT ![f] = Text("other")],
                     [payload EXCEPT ![f] = List("other")]} : f \in DOMAIN payload}

Variants(envelope) ==
    {[envelope EXCEPT !.payload = payload] : payload \in Changed(envelope.payload)}
        \cup {[envelope EXCEPT !.signer = did] :
                  did \in {"issuer", "worker", "verifier"}}
        \cup {Edited(envelope, payload) : payload \in Changed(envelope.payload)}
        \cup {[envelope EXCEPT !.kind = "note"]}

(***************************************************************************)
(* One document is wrong, and those after it were made from it or not.     *)
(***************************************************************************)
Bundles(honest) ==
    {WithManifest(m) : m \in Variants(honest.manifest)}
        \cup {WithClaim(honest.manifest, c) : c \in Variants(honest.claim)}
        \cup {WithVerdict(honest.manifest, honest.claim, v) :
                  v \in Variants(honest.verdict)}
        \cup UNION {{[honest EXCEPT ![name] = d] : d \in Variants(honest[name])} :
                        name \in DOMAIN honest}

Tree(documents) == [name \in DOMAIN documents |-> File(documents[name])]

BundleScenarios ==
    {Scenario(Tree(documents), <<VerifyBundle>>, {}) : documents \in Bundles(Honest)}

(***************************************************************************)
(* The last two documents are signed, one of them twice, while the bundle  *)
(* is being verified.                                                      *)
(***************************************************************************)
SigningFrom(honest) ==
    Scenario([manifest |-> File(honest.manifest), claim |-> File(honest.claim),
              verdict |-> Absent, receipt |-> Absent,
              issuer_key |-> File(Key("issuer")),
              verifier_key |-> File(Key("verifier")),
              verdict_payload |-> File(honest.verdict.payload),
              receipt_payload |-> File(honest.receipt.payload)],
             <<Sign("verifier-verdict", "verdict_payload", "verifier_key", "verdict"),
               Sign("resolution-receipt", "receipt_payload", "issuer_key", "receipt"),
               Sign("resolution-receipt", "receipt_payload", "verifier_key", "receipt"),
               VerifyBundle>>, {})
SigningScenario == SigningFrom(Honest)

(***************************************************************************)
(* The release, and copies of it in which one file is another.             *)
(***************************************************************************)
Commitment == policy_commitment(Text("policy"), [salt |-> 0])

First_ ==
    WithManifest(SignManifest(With(ManifestPayload, "policy_commitment", Commitment)))

Attestation(documents, extra) ==
    sign_envelope("release-attestation",
        [task_id |-> Text("task"), repository |-> Text("repository"),
         receipt_hash |-> hash_object(documents.receipt),
         artifact_hashes |-> Hashes(documents), prior_receipt_hash |-> extra],
        "issuer")

Summary(documents) ==
    [bundle_integrity |-> Text("PASS"), certified_exit |-> Text("PASS"),
     receipt_hash |-> hash_object(documents.receipt)]

Publication(first, attestation, value) ==
    technocore_request(ROOM, TextNonce(value, 0),
                       PublicationText(first, attestation), "issuer")

WorkerRequest(body) ==
    technocore_record_request(V2_ROOM, Nonce, body, "worker", "worker")
WorkerEvidence(record) ==
    [write_body |-> Text("ok"), write_sha256 |-> hash_object(Text("ok")),
     read_body |-> <<record>>, read_sha256 |-> hash_object(<<record>>)]
VerifierEvidence == [tamper_tests |-> TRUE]

(***************************************************************************)
(* The second bundle, made like the first, from the first and its own      *)
(* evidence.                                                               *)
(***************************************************************************)
SecondVerdict(m, c, v, prior) ==
    Documents(m, c, v, SignReceipt(With(ReceiptPayload(m, c, v),
                                        "prior_receipt_hash", prior)))
SecondClaim(m, c, prior) ==
    SecondVerdict(m, c, SignVerdict(With(VerdictPayload(m, c), "evidence_hash",
                                         hash_object(VerifierEvidence))), prior)
SecondManifest(m, evidence, prior) ==
    SecondClaim(m, SignClaim(With(ClaimPayload(m), "worker_evidence",
                                  hash_object(evidence))), prior)
SecondBundle(first, evidence, prior) ==
    SecondManifest(SignManifest(With(first.manifest.payload, "prior_finding", prior)),
                   evidence, prior)

Published(first, attestation, second, second_attestation, request, record) ==
    [manifest |-> first.manifest, claim |-> first.claim,
     verdict |-> first.verdict, receipt |-> first.receipt,
     summary |-> Summary(first), commitment |-> Commitment,
     attestation |-> attestation, publication |-> Publication(first, attestation, 1),
     v2_manifest |-> second.manifest, v2_claim |-> second.claim,
     v2_verdict |-> second.verdict, v2_receipt |-> second.receipt,
     v2_summary |-> With(Summary(second), "release_attestation_hash",
                         hash_object(second_attestation)),
     v2_attestation |-> second_attestation,
     v2_request |-> request, v2_record |-> record,
     v2_worker_evidence |-> WorkerEvidence(record),
     v2_verifier_evidence |-> VerifierEvidence]

WithSecond(first, second, prior, request, record) ==
    Published(first, Attestation(first, Text("none")),
              second, Attestation(second, prior), request, record)

WithFirst(first, prior, request, record) ==
    WithSecond(first, SecondBundle(first, WorkerEvidence(record), prior), prior,
               request, record)

Release ==
    WithFirst(First_, hash_object(First_.receipt), WorkerRequest("hello"),
              Stored(WorkerRequest("hello"), "number"))

ReleaseNames ==
    <<"manifest", "claim", "verdict", "receipt", "summary", "commitment",
      "attestation", "publication", "v2_manifest", "v2_claim", "v2_verdict",
      "v2_receipt", "v2_summary", "v2_attestation", "v2_request", "v2_record",
      "v2_worker_evidence", "v2_verifier_evidence">>

Replacements(release, name) ==
    LET original == release[name]
    IN  CASE IsEnvelope(original) ->
                 {[original EXCEPT !.signer = "other"],
                  Edited(original, With(original.payload, "task_id", Text("other"))),
                  [original EXCEPT !.payload.task_id = Text("other")],
                  [original EXCEPT !.payload = With(original.payload, "note", Text("more"))]}
          [] name = "publication" ->
                 {technocore_request(ROOM, TextNonce(2, 0), original.text, "issuer")}
          [] name \in {"summary", "v2_summary"} ->
                 {[original EXCEPT ![f] = Text("other")] : f \in DOMAIN original}
                     \cup {With(original, "note", Text("more"))}
          [] name = "v2_request" -> {WorkerRequest("bye"),
                 [original EXCEPT !.text = Text("bye")]}
          [] name = "v2_record" -> {Stored(WorkerRequest("bye"), "number"),
                 Stored(WorkerRequest("hello"), "text"),
                 [original EXCEPT !.from = "issuer"]}
          [] name = "v2_worker_evidence" -> {[original EXCEPT !.write_body = Text("no")]}
          [] name = "v2_verifier_evidence" -> {[tamper_tests |-> FALSE]}
          [] OTHER -> {[original EXCEPT ![f] = Text("other")] : f \in DOMAIN original}

Releases(release) ==
    {release} \cup UNION {{[release EXCEPT ![name] = other] :
                               other \in Replacements(release, name)} :
                               name \in DOMAIN release}

AuditScenarios ==
    {Scenario(Tree(release), <<Audit(ReleaseNames)>>, {}) : release \in Releases(Release)}

AllScenarios ==
    {KeyScenario, SigningScenario, RetryScenario} \cup CommitScenarios \cup RecordScenarios
        \cup PlainScenarios \cup EnvelopeScenarios \cup BrokenScenarios
        \cup BundleScenarios \cup AuditScenarios
=============================================================================
