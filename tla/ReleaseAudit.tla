---------------------------- MODULE ReleaseAudit ----------------------------
(***************************************************************************)
(* The audit of the published release: main of scripts/audit_release.py.   *)
(*                                                                         *)
(* A release is a record of the loaded files: those of the first receipt,  *)
(* and, with names in v2_, those of the second, which refers to it.  Like  *)
(* the script the audit passes, or ends with some exception; which of the  *)
(* checks fails first is not told apart.  The list of tracked file names,  *)
(* which the script asks git for, is left out.                             *)
(***************************************************************************)
EXTENDS Bundle, Technocore

CONSTANTS ROOM, V2_ROOM     \* the rooms of the two publications

ReleaseFiles ==
    {"manifest", "claim", "verdict", "receipt", "summary", "commitment",
     "attestation", "publication", "v2_manifest", "v2_claim", "v2_verdict",
     "v2_receipt", "v2_summary", "v2_attestation", "v2_request", "v2_record",
     "v2_worker_evidence", "v2_verifier_evidence"}

First(release) ==
    [manifest |-> release.manifest, claim |-> release.claim,
     verdict |-> release.verdict, receipt |-> release.receipt]

Second(release) ==
    [manifest |-> release.v2_manifest, claim |-> release.v2_claim,
     verdict |-> release.v2_verdict, receipt |-> release.v2_receipt]

Hashes(bundle) == [name \in DOMAIN bundle |-> hash_object(bundle[name])]

(***************************************************************************)
(* What both receipts' files are asked.                                    *)
(***************************************************************************)
SummaryFields == {"bundle_integrity", "certified_exit", "receipt_hash"}

SummaryAgrees(summary, bundle) ==
    /\ get(summary, "bundle_integrity") = Some(Text("PASS"))
    /\ get(summary, "certified_exit") = Outcome(bundle)
    /\ get(summary, "receipt_hash") = Some(hash_object(bundle.receipt))

Attests(attestation, bundle) ==
    /\ Verifies(attestation, "release-attestation")
    /\ get(attestation.payload, "receipt_hash") =
           Some(hash_object(bundle.receipt))
    /\ get(attestation.payload, "artifact_hashes") = Some(Hashes(bundle))

Sealed(bundle, commitment) ==
    get(bundle.manifest.payload, "policy_commitment") = Some(commitment)

(***************************************************************************)
(* The first release, published by a Technocore request of its issuer.     *)
(***************************************************************************)
PublicationText(bundle, attestation) ==
    [release |-> <<bundle.manifest.payload.task_id,
                   attestation.payload.repository,
                   hash_object(bundle.receipt), hash_object(attestation)>>]

FirstAudited(release) ==
    LET bundle == First(release)
        attestation == release.attestation
    IN  /\ verify_bundle(bundle)
        /\ SummaryAgrees(release.summary, bundle)
        /\ Sealed(bundle, release.commitment)
        /\ Attests(attestation, bundle)
        /\ attestation.signer = release.receipt.signer
        /\ get(attestation.payload, "task_id") =
               get(release.manifest.payload, "task_id")
        /\ verify_technocore_request(ROOM, release.publication)
        /\ release.publication.did = release.receipt.signer
        /\ "repository" \in DOMAIN attestation.payload
        /\ release.publication.text = PublicationText(bundle, attestation)

(***************************************************************************)
(* The second release refers to the first one's receipt, passed all its    *)
(* tests, and rests on evidence of a record written to Technocore.         *)
(***************************************************************************)
Continues(release) ==
    LET prior == Some(hash_object(release.receipt))
    IN  /\ get(release.v2_manifest.payload, "prior_finding") = prior
        /\ get(release.v2_receipt.payload, "prior_receipt_hash") = prior
        /\ get(release.v2_attestation.payload, "prior_receipt_hash") = prior

(***************************************************************************)
(* A fault: the request is not compared with the record read back.         *)
(***************************************************************************)
RecordedByWorker(request, record, worker) ==
    /\ verify_technocore_request(V2_ROOM, request)
    /\ verify_technocore_record(V2_ROOM, record)
    /\ request.did = record.from
    /\ record.from = worker

Recorded(request, record, worker) ==
    /\ verify_technocore_request(V2_ROOM, request)
    /\ verify_technocore_record(V2_ROOM, record)
    /\ request.did = record.from
    /\ request.nonce = str(record.nonce)
    /\ request.text = record.text
    /\ record.from = worker

Evidenced(release) ==
    LET worker == release.v2_worker_evidence
        verifier == release.v2_verifier_evidence
    IN  /\ get(release.v2_claim.payload, "worker_evidence") =
               Some(hash_object(worker))
        /\ get(release.v2_verdict.payload, "evidence_hash") =
               Some(hash_object(verifier))
        /\ verifier.tamper_tests
        /\ worker.write_sha256 = hash_object(worker.write_body)
        /\ worker.read_sha256 = hash_object(worker.read_body)
        /\ worker.read_body = <<release.v2_record>>

SecondAudited(release) ==
    LET bundle == Second(release)
        attestation == release.v2_attestation
    IN  /\ verify_bundle(bundle)
        /\ Outcome(bundle) = Some(Text("PASS"))
        /\ get(release.v2_verdict.payload, "test_results") = Some(Text("all pass"))
        /\ Sealed(bundle, release.commitment)
        /\ SummaryAgrees(release.v2_summary, bundle)
        /\ get(release.v2_summary, "release_attestation_hash") =
               Some(hash_object(attestation))
        /\ Attests(attestation, bundle)
        /\ Continues(release)
        /\ Recorded(release.v2_request, release.v2_record, release.v2_claim.signer)
        /\ Evidenced(release)

Audited(release) == FirstAudited(release) /\ SecondAudited(release)
=============================================================================
