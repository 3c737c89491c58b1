------------------------------ MODULE Envelopes ------------------------------
(***************************************************************************)
(* Signed envelopes and digests (core.py).                                 *)
(*                                                                         *)
(* Ed25519 and SHA-256 are taken to be perfect, as the code takes them: a  *)
(* signature that verifies was made by the signer over this kind and this  *)
(* payload, and a digest names exactly one value.  So a signature is the   *)
(* one fact a verifier learns from it, and a digest is the hashed value    *)
(* behind a tag: equal for equal values only.                              *)
(***************************************************************************)

(***************************************************************************)
(* A value that Python may leave None (JSON null) is the set of at most    *)
(* one value.                                                              *)
(***************************************************************************)
None == {}
Some(value) == {value}
Optional(S) == {None} \cup {Some(value) : value \in S}

(***************************************************************************)
(* hash_object: SHA-256 of the canonical bytes of any JSON value.          *)
(***************************************************************************)
hash_object(value) == [sha256 |-> value]

(***************************************************************************)
(* sign_envelope, by the holder of the private key of did.                 *)
(***************************************************************************)
sign_envelope(kind, payload, did) ==
    [kind |-> kind, payload |-> payload, signer |-> did, signed |-> TRUE]

(***************************************************************************)
(* A copy of an envelope whose payload was edited afterwards: the          *)
(* signature it still carries is over the old payload.                     *)
(***************************************************************************)
Edited(envelope, payload) ==
    [kind |-> envelope.kind, payload |-> payload, signer |-> envelope.signer,
     signed |-> FALSE]

(***************************************************************************)
(* verify_envelope returns the payload exactly when this holds, and raises *)
(* ReceiptError otherwise.                                                 *)
(***************************************************************************)
verify_envelope(envelope, expected_kind) ==
    /\ envelope.kind = expected_kind
    /\ envelope.signed
=============================================================================
