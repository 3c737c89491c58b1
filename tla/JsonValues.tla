----------------------------- MODULE JsonValues -----------------------------
(***************************************************************************)
(* JSON values as the artifact files hold them (core.py), and envelopes    *)
(* among them.                                                             *)
(*                                                                         *)
(* An object is a record of its fields, or a function on some of them.     *)
(* Any other value that nobody looks into is Text(name) or, where the code *)
(* asks whether it can be a member of a set, List(name).  Numbers occur as *)
(* nonces only (see Technocore).                                           *)
(***************************************************************************)
EXTENDS Envelopes

Text(name) == [text |-> name]
List(name) == [list |-> name]

IsObject(value) == "text" \notin DOMAIN value /\ "list" \notin DOMAIN value

Hashable(value) == "list" \notin DOMAIN value

(***************************************************************************)
(* value.get(field) of an object, None where it has no such field.         *)
(***************************************************************************)
get(value, field) ==
    IF field \in DOMAIN value THEN Some(value[field]) ELSE None

(***************************************************************************)
(* verify_envelope, of a value that may not even be an envelope.           *)
(***************************************************************************)
IsEnvelope(value) == DOMAIN value = {"kind", "payload", "signer", "signed"}

Verifies(value, expected_kind) ==
    IsEnvelope(value) /\ verify_envelope(value, expected_kind)
=============================================================================
