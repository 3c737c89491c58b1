---------------------------- MODULE Verification ----------------------------
(***************************************************************************)
(* The native-evidence boundary: adapters, the results they give, and what *)
(* a record may do with them (verification.py).                            *)
(*                                                                         *)
(* evidence is a set of ids.  A spec has method, method_digest and claims; *)
(* specs maps each id to its spec.  adapters maps each method to None or   *)
(* Some source, the source being all that names an implementation.  native *)
(* maps each id to what an adapter that is run on it answers at present.   *)
(***************************************************************************)
EXTENDS Envelopes

VERIFICATION_STATES == {"VERIFIED", "INVALID", "UNRESOLVED"}

adapter_code_digest(source) == hash_object(source)

(***************************************************************************)
(* _normalize_state: an adapter may answer with a bool, None or a state.   *)
(***************************************************************************)
NormalForm == [True       |-> "VERIFIED",   VERIFIED   |-> "VERIFIED",
               False      |-> "INVALID",    INVALID    |-> "INVALID",
               None       |-> "UNRESOLVED", UNRESOLVED |-> "UNRESOLVED"]

(***************************************************************************)
(* A fault: any adapter of the right name will do.                         *)
(***************************************************************************)
AnyAdapterMatches(spec, adapters) == spec.method \in DOMAIN adapters

(***************************************************************************)
(* verify_evidence_set: when it succeeds, and the results it returns.  An  *)
(* adapter that is present must be the one the spec names; one that is     *)
(* absent leaves the evidence UNRESOLVED.                                  *)
(***************************************************************************)
AdapterMatches(spec, adapters) ==
    \A source \in adapters[spec.method] :
        adapter_code_digest(source) = spec.method_digest

Verifiable(evidence, specs, adapters, native) ==
    /\ DOMAIN specs = evidence
    /\ \A e \in evidence :
           /\ AdapterMatches(specs[e], adapters)
           /\ adapters[specs[e].method] # None => native[e] \in DOMAIN NormalForm

ObservedState(spec, adapters, answer) ==
    IF adapters[spec.method] = None THEN "UNRESOLVED" ELSE NormalForm[answer]

ResultOf(spec, state) ==
    [method |-> spec.method, method_digest |-> spec.method_digest,
     claims_digest |-> hash_object(spec.claims), result |-> state]

verify_evidence_set(evidence, specs, adapters, native) ==
    [e \in evidence |->
        ResultOf(specs[e], ObservedState(specs[e], adapters, native[e]))]

(***************************************************************************)
(* validate_verification_results, with specs: each stored result is of     *)
(* exactly its spec.                                                       *)
(***************************************************************************)
validate_verification_results(evidence, results, specs) ==
    /\ DOMAIN results = evidence
    /\ DOMAIN specs = evidence
    /\ \A e \in evidence :
           /\ results[e].result \in VERIFICATION_STATES
           /\ results[e] = ResultOf(specs[e], results[e].result)

(***************************************************************************)
(* require_verified_check_evidence.                                        *)
(***************************************************************************)
require_verified_check_evidence(checks, results) ==
    \A i \in DOMAIN checks :
        checks[i].outcome \in {"PASS", "FAIL"} =>
            \A j \in DOMAIN checks[i].evidence :
                results[checks[i].evidence[j]].result = "VERIFIED"

(***************************************************************************)
(* recompute_verification_results: the adapters are run again and must     *)
(* give exactly what is stored.                                            *)
(***************************************************************************)
recompute_verification_results(evidence, specs, stored, adapters, native) ==
    /\ validate_verification_results(evidence, stored, specs)
    /\ Verifiable(evidence, specs, adapters, native)
    /\ verify_evidence_set(evidence, specs, adapters, native) = stored
=============================================================================
