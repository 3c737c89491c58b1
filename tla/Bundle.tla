------------------------------- MODULE Bundle -------------------------------
(***************************************************************************)
(* The resolution receipt bundle: verify_bundle (core.py).                 *)
(*                                                                         *)
(* Four envelopes, of the manifest, the worker's claim, the verifier's     *)
(* verdict and the receipt.  A bundle here is a record of them.  The call  *)
(* returns, or refuses with ReceiptError, or raises something its callers  *)
(* do not expect: it reads fields of payloads of which it knows only that  *)
(* they are signed.                                                        *)
(***************************************************************************)
EXTENDS JsonValues, Naturals

OUTCOMES == {Text("PASS"), Text("FAIL"), Text("UNRESOLVED")}

AllSigned(bundle) ==
    /\ Verifies(bundle.manifest, "task-manifest")
    /\ Verifies(bundle.claim, "worker-claim")
    /\ Verifies(bundle.verdict, "verifier-verdict")
    /\ Verifies(bundle.receipt, "resolution-receipt")

Named(bundle) ==
    \E id \in get(bundle.manifest.payload, "task_id") :
        "text" \in DOMAIN id /\ id # Text("")

SameTask(bundle, name) ==
    get(bundle[name].payload, "task_id") = get(bundle.manifest.payload, "task_id")

(***************************************************************************)
(* A fault: the receipt's hash of the verdict is not compared.             *)
(***************************************************************************)
ReferencesAllButVerdict(bundle) ==
    LET references == get(bundle.receipt.payload, "evidence_hashes")
    IN  \E hashes \in references :
            /\ DOMAIN hashes = {"manifest", "claim", "verdict"}
            /\ hashes.manifest = hash_object(bundle.manifest)
            /\ hashes.claim = hash_object(bundle.claim)

(***************************************************************************)
(* The receipt references exactly the other three, and they each other.    *)
(***************************************************************************)
ReferencesAll(bundle) ==
    get(bundle.receipt.payload, "evidence_hashes") =
        Some([name \in {"manifest", "claim", "verdict"} |->
                  hash_object(bundle[name])])

Linked(bundle) ==
    LET manifest_hash == Some(hash_object(bundle.manifest))
        claim_hash == Some(hash_object(bundle.claim))
    IN  /\ get(bundle.claim.payload, "manifest_hash") = manifest_hash
        /\ get(bundle.verdict.payload, "manifest_hash") = manifest_hash
        /\ get(bundle.verdict.payload, "claim_hash") = claim_hash

Outcome(bundle) == get(bundle.verdict.payload, "outcome")

(***************************************************************************)
(* The receipt repeats what the manifest promised and the verifier found;  *)
(* fields missing on both sides agree.                                     *)
(***************************************************************************)
Repeats(bundle) ==
    LET receipt == bundle.receipt.payload
        verdict == bundle.verdict.payload
    IN  /\ get(receipt, "certified_exit") = Outcome(bundle)
        /\ get(receipt, "original_promise") =
               get(bundle.manifest.payload, "target")
        /\ get(receipt, "test_results") = get(verdict, "test_results")
        /\ get(receipt, "disagreements") = get(verdict, "disagreements")

Independent(bundle) ==
    /\ bundle.receipt.signer = bundle.manifest.signer
    /\ bundle.receipt.signer \notin {bundle.claim.signer, bundle.verdict.signer}
    /\ bundle.claim.signer # bundle.verdict.signer

verify_bundle(bundle) ==
    /\ AllSigned(bundle)
    /\ \A name \in {"manifest", "claim", "verdict", "receipt"} :
           IsObject(bundle[name].payload)
    /\ Named(bundle)
    /\ \A name \in {"claim", "verdict", "receipt"} : SameTask(bundle, name)
    /\ ReferencesAll(bundle)
    /\ Linked(bundle)
    /\ \E outcome \in Outcome(bundle) : outcome \in OUTCOMES
    /\ Repeats(bundle)
    /\ Independent(bundle)

(***************************************************************************)
(* .get of a payload that is no object (AttributeError), in the order the  *)
(* payloads are read, and an outcome that cannot be looked up in a set     *)
(* (TypeError).                                                            *)
(***************************************************************************)
ReadInOrder == <<"claim", "verdict", "receipt">>

Raises(bundle) ==
    /\ AllSigned(bundle)
    /\ \/ ~ IsObject(bundle.manifest.payload)
       \/ /\ Named(bundle)
          /\ \E i \in 1 .. 3 :
                 /\ ~ IsObject(bundle[ReadInOrder[i]].payload)
                 /\ \A j \in 1 .. i - 1 : SameTask(bundle, ReadInOrder[j])
       \/ /\ Named(bundle)
          /\ \A i \in 1 .. 3 : SameTask(bundle, ReadInOrder[i])
          /\ ReferencesAll(bundle)
          /\ Linked(bundle)
          /\ \E outcome \in Outcome(bundle) : ~ Hashable(outcome)
=============================================================================
